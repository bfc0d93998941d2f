------------------- MODULE AbstractInterpretationRefinement -------------------
(***************************************************************************)
(* The abstract interpreter, with its rounds over the blocks in their      *)
(* order, its merging one predecessor at a time and its flag, is a chaotic *)
(* iteration of the data flow equations.                                   *)
(***************************************************************************)
EXTENDS AbstractInterpretation

\* s is below every state above the out states of the blocks ps.
LeastAbove(s, ps) ==
  \A u \in StateOver(Name) :
    (\A p \in ps : StateLeq(bb_state[p], u)) => StateLeq(s, u)

(* What RoundInv leaves open of the in states: they are no higher than     *)
(* the predecessors merged so far make them (AbstractInterpretation.h:54). *)
MergedNoFurther ==
  /\ phase = "block" /\ blk # 1 => LeastAbove(InState, func[blk].preds \ pending)
  /\ phase = "block" /\ ~ changed =>
       \A b \in 1 .. blk - 1 :
         b # 1 => LeastAbove(inst_state_in[<<b, 1>>], func[b].preds)
  /\ phase = "round" /\ ~ changed =>
       \A b \in Blocks(func) :
         b # 1 => LeastAbove(inst_state_in[<<b, 1>>], func[b].preds)

\* The states are those the interpreter keeps; before it has set them up they
\* are the empty ones it is about to set up.
States ==
  IF phase = "start" THEN [p \in Points(func) |-> EmptyState] ELSE inst_state_in

OutStates ==
  IF phase = "start" THEN [b \in Blocks(func) |-> EmptyState] ELSE bb_state

Equations ==
  INSTANCE DataFlow WITH at <- States, out <- OutStates, ended <- (phase = "done")

(* Every step of runOnFunction() (AbstractInterpretation.h:60-101) makes   *)
(* one of the data flow equations true or changes no state that is kept,   *)
(* and it only ends in a solution of all of them.  In particular a block   *)
(* starts from the least state above the out states of its predecessors,   *)
(* and nothing of the block interpreted before it is left over.            *)
IteratesTheEquations == Equations!Spec
=============================================================================
