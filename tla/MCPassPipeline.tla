--------------------------- MODULE MCPassPipeline ---------------------------
(* PassPipeline on three-bit integers. *)
EXTENDS PassPipeline, MCPrograms

MCMinInt == -4

\* What the passes are right about: every variable is assigned before the
\* first branch, and a comparison is only branched on.
Plain ==
  {Conditional(s, x, y) : s \in Starts, x \in Statements("1"), y \in Statements("2")}
  \cup {Loop(s, x, y) : s \in Starts, x \in Statements("1"),
                         y \in {AssignCall("2"), AssignBinary("sub", A, "2"), ReadInto(B, "2")}}
  \cup {LoopInBranch(s, x) : s \in Starts, x \in Statements("1")}
  \cup {EarlyReturn(s, x) : s \in Starts, x \in Statements("1")}
  \cup {WriteWithArgument(s, op) : s \in Starts, op \in BinaryOps} \cup {SwapLocals, Gcd}

\* What they are not, and what they do not accept.
Special ==
  {OneSided, Unassigned, LocalInLoop, AddToZero, IfPositive("add"), IfPositive("sdiv")}
  \cup {WriteGreater(s) : s \in {<<Store(Const(2), A)>>, <<Store(Const(2), A), Store(Const(1), B)>>}}
  \cup {CallsNamesake(s) : s \in Starts} \cup {ByZero(s) : s \in Starts}
  \cup {CallsWith(s, [k \in 1 .. n |-> Reg("a")]) : s \in Starts, n \in 1 .. 3}

MCFunctions == Plain \cup Special

MCPasses == {<<"ai_cp", "ai_dce">>, <<"ai_dce", "ai_cp">>}

\* A function called may assign a.
MCEffects == {EmptyState, [n \in {"a_"} |-> 3]}

MCOneSided == {OneSided}

MCPass == {<<"ai_cp">>}
=============================================================================
