------------------------- MODULE CompilerProperties -------------------------
(***************************************************************************)
(* When the IR that the compiler of src/compiler.h builds is well formed.  *)
(***************************************************************************)
EXTENDS CompilerRules

\* The nodes of a statement or an expression, itself included.
RECURSIVE Nodes(_)
Nodes(n) ==
  LET all(ns) == UNION {Nodes(ns[k]) : k \in 1 .. Len(ns)} IN
  {n} \cup
    CASE n.kind = "block"  -> all(n.statements)
      [] n.kind = "write"  -> Nodes(n.expression)
      [] n.kind = "if"     -> Nodes(n.condition) \cup Nodes(n.trueCase) \cup Nodes(n.falseCase)
      [] n.kind = "while"  -> Nodes(n.condition) \cup Nodes(n.body)
      [] n.kind \in {"return", "assignment"} -> Nodes(n.value)
      [] n.kind = "call"   -> all(n.arguments)
      [] n.kind = "binary" -> Nodes(n.lhs) \cup Nodes(n.rhs)
      [] n.kind = "unary"  -> Nodes(n.operand)
      [] OTHER             -> {}

\* Statement n may leave in result, or use in a phi, what result was before it.
RECURSIVE UsesOldResult(_)
UsesOldResult(n) ==
  \/ n.kind = "while"
  \/ /\ n.kind = "block"
     /\ \A k \in 1 .. Len(n.declarations) : ~n.declarations[k].constant
     /\ n.statements = <<>> \/ UsesOldResult(n.statements[1])

BodiesOf(m) == {m.body} \cup {m.functions[k].body : k \in 1 .. Len(m.functions)}

\* The IR of a legal program is well formed, but where result is read before
\* it is set in the function, or in the false case of an if (there it is the
\* value of the true case, which does not dominate it): the one way to get
\* "Invalid LLVM bitcode produced" (compiler.h:27-32, 209-222, 231-246, 119-122).
InvalidOnlyByOldResult ==
  status = "invalid" =>
    \/ \E n \in BodiesOf(module) : UsesOldResult(n)
    \/ \E b \in BodiesOf(module) : \E n \in Nodes(b) : n.kind = "if" /\ UsesOldResult(n.falseCase)

\* compileFunctionBody(): "check if last instruction was not return, and if not
\* emit return 0" (compiler.h:118): a function that has been compiled has a
\* terminator in every block.
FinishedBodiesReturn ==
  status = "running" /\ todo = <<>> =>
    \A n \in DOMAIN code : \A b \in DOMAIN code[n] :
      code[n][b] # <<>> /\ IsTerminator(code[n][b][Len(code[n][b])])
=============================================================================
