------------------------ MODULE ConstantPropagation ------------------------
(***************************************************************************)
(* The constant propagation pass ai_cp, my_passes::ConstantPropagation of  *)
(* passes/src/MyPasses.cc: the abstract interpreter over BasicLattice,     *)
(* with the flowState() and the postprocess() below.                       *)
(***************************************************************************)
EXTENDS BasicArithmetic, LLVMFunction

CONSTANT Functions

VARIABLES func, phase, bb_state, inst_state_in, changed, blk, idx, pending,
          cur_state

Name == UNION {NamesOf(f) : f \in Functions}
Inst == UNION {Insts(f) : f \in Functions}

-----------------------------------------------------------------------------
\* state[name] = element
Update(state, name, x) ==
  [n \in DOMAIN state \cup {name} |-> IF n = name THEN x ELSE state[n]]

\* llvmValue2BasicLattice(): what state knows of an operand.
ElementOf(x, state) ==
  IF x.kind = "const" THEN SingleValue(x.value)
  ELSE IF x.name \in DOMAIN state THEN state[x.name]
  ELSE Any

\* A constant other than an integer is asserted away: what mem2reg puts in
\* place of a variable read before it is written is one.
NoElement(x) == x.kind = "undef"

\* A bug: the map is read with [], which makes a new element the Bottom.
KnownInserts(x, state) == IF x.name \in DOMAIN state THEN state[x.name] ELSE Bottom

\* A load and a sext have what is known of their operand by its name.
Known(x, state) == IF x.name \in DOMAIN state THEN state[x.name] ELSE Any

PhiBound(i, state) ==
  LET bound[k \in 0 .. Len(i.args)] ==
        IF k = 0 THEN Bottom ELSE LeastUpperBound(bound[k - 1], ElementOf(i.args[k], state))
  IN  bound[Len(i.args)]

\* flowState()
FlowState(i, state) ==
  CASE i.op = "store"           -> Update(state, i.args[2].name, ElementOf(i.args[1], state))
    [] i.op = "phi"             -> Update(state, i.name, PhiBound(i, state))
    [] i.op \in {"load", "sext"} -> Update(state, i.name, Known(i.args[1], state))
    [] i.op = "call"            -> IF i.name = Unnamed THEN state
                                   ELSE Update(state, i.name, Any)
    [] i.op \in {"ret", "br"}   -> state
    [] OTHER                    ->
         Update(state, i.name,
                Transfer(i.op, ElementOf(i.args[1], state), ElementOf(i.args[2], state)))

\* The assertions of flowState() and of what it calls, and the division of
\* two known values by zero.
FlowAborts(i, state) ==
  \/ Len(i.args) > 3
  \/ i.op = "store" /\ NoElement(i.args[1])
  \/ i.op = "phi" /\ \E x \in Operands(i) : NoElement(x)
  \/ i.op \notin {"store", "phi", "load", "sext", "call", "ret", "br"} /\
       \/ Len(i.args) # 2
       \/ \E x \in Operands(i) : NoElement(x)
       \/ Len(i.args) = 2 /\ Aborts(i.op, ElementOf(i.args[1], state), ElementOf(i.args[2], state))

-----------------------------------------------------------------------------
\* setOperand() of a constant where state knows the single value of the name.
Replaced(x, state) ==
  IF x.name \in DOMAIN state /\ state[x.name].type = "SingleValue"
  THEN Const(state[x.name].value)
  ELSE x

Rewritten(i, state) ==
  CASE i.op \in {"load", "store", "phi", "alloca"} -> i
    [] i.op \in {"br", "sext"} -> [i EXCEPT !.args[1] = Replaced(@, state)]
    [] OTHER -> [i EXCEPT !.args = [k \in DOMAIN @ |-> Replaced(@[k], state)]]

\* postprocess(), by the states before the instructions.
Postprocess(f, out, in) ==
  [b \in DOMAIN f |->
     [f[b] EXCEPT !.insts = [k \in DOMAIN @ |-> Rewritten(@[k], in[<<b, k>>])]]]

INSTANCE AbstractInterpretation

\* opt runs the pass on one thread and to its end.
PassSpec ==
  /\ Spec
  /\ WF_<<func, phase, bb_state, inst_state_in, changed, blk, idx, pending, cur_state>>(Next)
-----------------------------------------------------------------------------
(* "Zero, Zero should not happen because Zero should not appear in a       *)
(* state" (MyPasses.cc:468), and an assertion that it does not: the        *)
(* operands of an instruction are never both known by the sign 0.          *)
ZerosNeverMeet ==
  Interpreting =>
    LET i == func[blk].insts[idx] IN
    i.op \in BinaryOps \cup ICmps =>
      ToSameRank(ElementOf(i.args[1], cur_state), ElementOf(i.args[2], cur_state))
        # <<Zero, Zero>>
=============================================================================
