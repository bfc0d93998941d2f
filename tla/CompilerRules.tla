---------------------------- MODULE CompilerRules ----------------------------
(***************************************************************************)
(* The static rules of the language, stated on the tree of the program and *)
(* not by walking it as src/compiler.h does: what each node demands of the *)
(* declarations around it, and whether they meet that.                     *)
(***************************************************************************)
EXTENDS Compiler

\* Every path through node n returns, if that holds of its children as
\* returns says.
ReturnsGiven(n, returns) ==
  CASE n.kind = "return" -> TRUE
    [] n.kind = "block"  -> \E k \in 1 .. Len(n.statements) : returns[n.statements[k]]
    [] n.kind = "if"     -> returns[n.trueCase] /\ returns[n.falseCase]
    [] OTHER             -> FALSE

\* Which of these nodes do; the set has the children of each.
Returns(nodes) == LET returns[n \in nodes] == ReturnsGiven(n, returns) IN returns

-----------------------------------------------------------------------------
\* A name in scope, a variable in scope, a function of so many arguments, and
\* what a node demands that breaks a rule whatever is declared around it.
NeedsName(s)        == [kind |-> "name", of |-> s, arity |-> 0]
NeedsVariable(s)    == [kind |-> "variable", of |-> s, arity |-> 0]
NeedsFunction(g, k) == [kind |-> "function", of |-> g, arity |-> k]
Impossible          == [kind |-> "impossible", of |-> "", arity |-> 0]

DeclaresConstant(ds, s) == \E k \in 1 .. Len(ds) : ds[k].symbol = s /\ ds[k].constant

\* What is left of the demands of the statements of block n: its declarations
\* meet those for the names they declare.
BlockDemands(n, demands, returns) ==
  LET ds == n.declarations
      forDeclared == {d \in demands : d.kind \in {"name", "variable"} /\ d.of \in Symbols(ds)}
  IN
  (demands \ forDeclared) \cup
  {d \in {Impossible} :
     \/ Redefines(ds)
     \/ \E k \in 1 .. Len(n.statements) - 1 : returns[n.statements[k]]
     \/ \E e \in forDeclared : e.kind = "variable" /\ DeclaresConstant(ds, e.of)}

DemandsOfAll(ns, demands) == UNION {demands[ns[k]] : k \in 1 .. Len(ns)}

\* What node n demands, if its children demand what demands says.
DemandsGiven(n, demands, returns) ==
  CASE n.kind = "block"      -> BlockDemands(n, DemandsOfAll(n.statements, demands), returns)
    [] n.kind = "write"      -> demands[n.expression]
    [] n.kind = "read"       -> {NeedsVariable(n.symbol)}
    [] n.kind = "if"         -> demands[n.condition] \cup demands[n.trueCase] \cup demands[n.falseCase]
    [] n.kind = "while"      -> demands[n.condition] \cup demands[n.body]
    [] n.kind = "return"     -> demands[n.value]
    [] n.kind = "assignment" -> demands[n.value] \cup {NeedsVariable(n.symbol)}
    [] n.kind = "call"       -> DemandsOfAll(n.arguments, demands)
                                  \cup {NeedsFunction(n.function, Len(n.arguments))}
    [] n.kind = "binary"     -> demands[n.lhs] \cup demands[n.rhs]
    [] n.kind = "unary"      -> demands[n.operand]
    [] n.kind = "variable"   -> {NeedsName(n.symbol)}
    [] OTHER                 -> {}

Demands(nodes) ==
  LET demands[n \in nodes] == DemandsGiven(n, demands, Returns(nodes)) IN demands

\* A scope has each name in scope with whether it is a constant; arities are
\* those of the functions.
Met(d, scope, arities) ==
  CASE d.kind = "name"     -> d.of \in DOMAIN scope
    [] d.kind = "variable" -> d.of \in DOMAIN scope /\ ~scope[d.of]
    [] d.kind = "function" -> d.of \in DOMAIN arities /\ arities[d.of] = d.arity
    [] OTHER               -> FALSE

Legal(n, nodes, scope, arities) == \A d \in Demands(nodes)[n] : Met(d, scope, arities)

-----------------------------------------------------------------------------
(* The module: what it declares is in scope in all bodies, a function in   *)
(* those that do not come before it, and those of the runtime everywhere.  *)

Globals(m) == [s \in Symbols(m.declarations) |-> DeclaresConstant(m.declarations, s)]

WithArguments(scope, names) == [s \in DOMAIN scope \cup names |-> s \notin names /\ scope[s]]

With(arities, name, args) ==
  [s \in DOMAIN arities \cup {name} |-> IF s = name THEN args ELSE arities[s]]

Runtime == [s \in {"read_", "write_"} |-> IF s = "read_" THEN 0 ELSE 1]

\* The functions known after the first k of module m.
Arities(m, k) ==
  LET named(s) == {j \in 1 .. k : m.functions[j].name = s} IN
  [s \in DOMAIN Runtime \cup {m.functions[j].name : j \in 1 .. k} |->
     IF named(s) = {} THEN Runtime[s] ELSE Len(m.functions[Max(named(s))].arguments)]

ArgumentNames(g) == {g.arguments[k] : k \in 1 .. Len(g.arguments)}

LegalFunction(g, nodes, scope, arities) ==
  /\ g.name # "main" /\ g.name \notin DOMAIN arities
  /\ \A j, k \in 1 .. Len(g.arguments) : j # k => g.arguments[j] # g.arguments[k]
  /\ Legal(g.body, nodes, WithArguments(scope, ArgumentNames(g)),
           With(arities, g.name, Len(g.arguments)))

LegalModule(m, nodes) ==
  LET n == Len(m.functions) IN
  /\ ~Redefines(m.declarations)
  /\ \A k \in 1 .. n : LegalFunction(m.functions[k], nodes, Globals(m), Arities(m, k - 1))
  /\ Legal(m.body, nodes, Globals(m), With(Arities(m, n), "main", 0))
=============================================================================
