----------------------- MODULE MCDeadCodeElimination -----------------------
(* DeadCodeElimination on the loops over a local variable, with every      *)
(* choice of their operands, on branches over local variables, and on      *)
(* conditionals and loops over global variables.                           *)
EXTENDS DeadCodeElimination, MCPrograms

MCFunctions ==
  {LocalLoop(u, v, p, q, next, r) :
     u, v \in {Reg("i"), Reg("h")}, p \in {Reg("x"), Reg("i")},
     q \in {Const(1), Reg("i"), Reg("h")}, next \in {Reg("x"), Reg("y"), Reg("i")},
     r \in {Reg("i"), Reg("h"), Const(0)}}
  \cup {LocalBranch(u, v) : u, v \in {Reg("x"), Reg("h"), Arg("n1"), Const(0)}}
  \cup {SwapLocals, Gcd}
  \cup {Conditional(s, x, y) : s \in Starts, x \in Statements("1"), y \in Statements("2")}
  \cup {LoopInBranch(s, x) : s \in Starts, x \in Statements("1")}
  \cup {EarlyReturn(s, x) : s \in Starts, x \in Statements("1")}

\* What the theorem NoDanglingUse asks of the functions.
ASSUME ComputedAssumption == \A f \in MCFunctions : OperandsComputed(f)
=============================================================================
