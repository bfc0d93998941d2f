------------------------ MODULE DeadCodeElimination ------------------------
(***************************************************************************)
(* The dead code elimination pass ai_dce, my_passes::DeadCodeElimination   *)
(* of passes/src/MyPasses.cc: the abstract interpreter over DCELattice,    *)
(* with the flowState() and the postprocess() below.                       *)
(*                                                                         *)
(* Not modelled: names that end in '_'.  Those are the global variables;   *)
(* the scanner lets no identifier contain the character (scanner.h:316),   *)
(* so that no register has such a name.                                    *)
(***************************************************************************)
EXTENDS LLVMFunction

CONSTANT Functions

VARIABLES func, phase, bb_state, inst_state_in, changed, blk, idx, pending,
          cur_state

Name == UNION {NamesOf(f) : f \in Functions}
Inst == UNION {Insts(f) : f \in Functions}

\* DCELattice: a chain.
Bottom == 0
Unused == 1
Used   == 2
Top    == 3

Elem == {Bottom, Unused, Used, Top}
Leq(a, b) == a <= b

\* A bug: the lower of the two ranks.
LeastUpperBoundOfTheLower(a, b) == IF a < b THEN a ELSE b

LeastUpperBound(a, b) == IF a < b THEN b ELSE a
-----------------------------------------------------------------------------
\* A bug: the loop over the operands stops one short.
UsesAllButLast(i) ==
  {i.args[k].name : k \in {j \in 1 .. Len(i.args) - 1 : i.args[j].kind # "global"}} \ {Unnamed}

\* The names flowState() marks as used by i: those of all its operands but
\* the global variables.
Uses(i) == {x.name : x \in {y \in Operands(i) : y.kind # "global"}} \ {Unnamed}

Named(i) == {i.name} \ {Unnamed}

\* flowState(): a name first met as that of an instruction is unused; names
\* of operands are used.
FlowState(i, state) ==
  [n \in DOMAIN state \cup Named(i) \cup Uses(i) |->
     IF n \in Uses(i) THEN Used
     ELSE IF n \in DOMAIN state THEN state[n]
     ELSE Unused]

\* Its assertions: the name of an instruction is not known as Bottom, and it has
\* no more than three operands.
FlowAborts(i, state) ==
  \/ i.name \in DOMAIN state \ {Unnamed} /\ state[i.name] = Bottom
  \/ Len(i.args) > 3
-----------------------------------------------------------------------------
\* What the out states of the blocks know the name n as.
KnownAs(n, out) == {out[b][n] : b \in {p \in DOMAIN out : n \in DOMAIN out[p]}}

\* postprocess() first merges all out states, in which n ends as the greatest
\* of these.
IsUnused(n, out) == Unused \in KnownAs(n, out) /\ \A e \in KnownAs(n, out) : Leq(e, Unused)

\* A bug: only what the last block left is looked at.
ErasedByLastState(i, out) ==
  /\ i.op \notin {"store", "phi", "call", "ret"}
  /\ i.name # Unnamed
  /\ i.name \in DOMAIN out[Len(out)] /\ out[Len(out)][i.name] = Unused

Erased(i, out) ==
  /\ i.op \notin {"store", "phi", "call", "ret"}
  /\ i.name # Unnamed
  /\ IsUnused(i.name, out)

\* What is left of a block's instructions, in their order.
Remaining(insts, out) ==
  LET left[k \in 0 .. Len(insts)] ==
        IF k = 0 THEN <<>>
        ELSE IF Erased(insts[k], out) THEN left[k - 1]
        ELSE Append(left[k - 1], insts[k])
  IN  left[Len(insts)]

\* postprocess()
Postprocess(f, out, in) ==
  [b \in DOMAIN f |-> [f[b] EXCEPT !.insts = Remaining(@, out)]]

INSTANCE AbstractInterpretation
-----------------------------------------------------------------------------
Mentioned(f) ==
  UNION {{x.name : x \in {y \in Operands(i) : y.kind # "global"}} : i \in Insts(f)}

\* Every register an instruction of f reads is computed by one.  Arguments are
\* operands of a kind of their own.
OperandsComputed(f) ==
  \A i \in Insts(f) : \A x \in Operands(i) :
    x.kind = "register" => \E j \in Insts(f) : j.name = x.name

(* Every register an instruction reads is still computed by one: erasing   *)
(* leaves no dangling use, also where the only use comes before the        *)
(* definition in the order of the blocks, in the phi of a loop.            *)
OperandsRemain == phase = "done" => OperandsComputed(func)

(* When the loop has ended, the out states tell the registers that some    *)
(* instruction of the function reads from those that none does, wherever   *)
(* it is: postprocess() erases the instructions without side effects that  *)
(* compute the latter, and no others (MyPasses.cc:824-864).                *)
ErasesTheUnused ==
  phase = "round" /\ ~ changed =>
    \A i \in Insts(func) :
      Erased(i, bb_state) <=> /\ i.op \notin {"store", "phi", "call", "ret"}
                             /\ i.name # Unnamed
                             /\ i.name \notin Mentioned(func)
=============================================================================
