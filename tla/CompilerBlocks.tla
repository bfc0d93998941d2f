---------------------------- MODULE CompilerBlocks ----------------------------
(***************************************************************************)
(* Where the compiler of src/compiler.h puts its instructions: into a      *)
(* block that exists and is still open, whatever tree it visits.           *)
(***************************************************************************)
EXTENDS Compiler

CONSTANTS Statements, Expressions    \* the nodes of the trees that are compiled

-----------------------------------------------------------------------------
(* The trees: what the constructors of mila/ast.h take. *)

ListOf(xs, nodes) == Len(xs) \in Nat /\ \A k \in 1 .. Len(xs) : xs[k] \in nodes

IsExpression(n) ==
  \/ n.kind \in {"number", "variable"}
  \/ n.kind = "unary" /\ n.operand \in Expressions
  \/ n.kind = "binary" /\ n.lhs \in Expressions /\ n.rhs \in Expressions
  \/ n.kind = "call" /\ ListOf(n.arguments, Expressions)

IsStatement(n) ==
  \/ n \in Expressions
  \/ n.kind = "read"
  \/ n.kind = "write" /\ n.expression \in Expressions
  \/ n.kind \in {"return", "assignment"} /\ n.value \in Expressions
  \/ n.kind = "if" /\ n.condition \in Expressions /\ {n.trueCase, n.falseCase} \subseteq Statements
  \/ n.kind = "while" /\ n.condition \in Expressions /\ n.body \in Statements
  \/ n.kind = "block" /\ Len(n.declarations) \in Nat /\ ListOf(n.statements, Statements)

IsFunction(n) == n.kind = "function" /\ Len(n.arguments) \in Nat /\ n.body \in Statements

IsModule(n) ==
  /\ n.kind = "module"
  /\ Len(n.declarations) \in Nat
  /\ Len(n.functions) \in Nat /\ \A k \in 1 .. Len(n.functions) : IsFunction(n.functions[k])
  /\ n.body \in Statements

ASSUME GrammarAssumption ==
  /\ \A n \in Expressions : IsExpression(n)
  /\ \A n \in Statements : IsStatement(n)
  /\ \A m \in Modules : IsModule(m)

-----------------------------------------------------------------------------
\* The next call appends instructions, and does not ask for nullptr.
BuildsCode ==
  /\ status = "running"
  /\ todo # <<>>
  /\ \/ Top.at = "visit" /\ Top.node.kind \notin {"module", "function"}
     \/ Top.at \in {"write", "assign", "return", "ifCondition", "whileCondition", "unary",
                    "binaryLeft", "binary", "call", "argument"}

\* The next call appends instructions if there is a block to append them to.
BuildsCodeIfAny ==
  /\ status = "running"
  /\ todo # <<>>
  /\ Top.at \in {"finish", "ifTrue", "ifJoin", "whileBody"}

\* Instructions are only ever appended to a block of the current function that
\* exists and has no terminator: bb is neither nullptr, where it is not asked
\* for, nor a block that is left (compiler.h:118-121, 159-165, 188-266).
BuildsIntoAnOpenBlock ==
  /\ BuildsCode => bb # 0
  /\ BuildsCode \/ (BuildsCodeIfAny /\ bb # 0) =>
       /\ bb \in DOMAIN code[f]
       /\ \A k \in 1 .. Len(code[f][bb]) : ~IsTerminator(code[f][bb][k])
=============================================================================
