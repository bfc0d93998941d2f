----------------------- MODULE AbstractInterpretation -----------------------
(***************************************************************************)
(* The abstract interpreter all analyses share, the class template         *)
(* my_passes::AbstractInterpretation of                                    *)
(* passes/src/AbstractInterpretation.h.  It runs over one LLVM function,   *)
(* round after round over its blocks, until a round has left the out state *)
(* of every block as it was; then it lets the analysis rewrite the         *)
(* function.                                                               *)
(*                                                                         *)
(* The template's parameter T and the virtual methods of its derived       *)
(* classes are the constants of this module.                               *)
(***************************************************************************)
EXTENDS Naturals, Sequences

CONSTANTS
  Name,                     \* keys of a state: names of LLVM values
  Elem,                     \* the elements of the lattice T
  Leq(_, _),                \* its order
  LeastUpperBound(_, _),    \* T::getLeastUpperBound()
  Inst,                     \* the instructions
  FlowState(_, _),          \* flowState(): the state after an instruction
  FlowAborts(_, _),         \* the instruction and state it does not return on
  Postprocess(_, _, _),     \* postprocess(): what becomes of the function
  Functions                 \* the functions the pass is run on

\* std::map<std::string, T>: the maps from some of the names to elements.
StateOver(names) == UNION {[D -> Elem] : D \in SUBSET names}

EmptyState == [n \in {} |-> n]

\* A function is the sequence of its blocks, the entry block first.  A block
\* is keyed by its position: LLVM keeps the names of the blocks of a function
\* apart.  It holds at least one instruction, its terminator.
WellFormed(f) ==
  /\ f \in Seq([insts : Seq(Inst) \ {<<>>}, preds : SUBSET (1 .. Len(f))])
  /\ f # <<>>

ASSUME FunctionsAssumption == \A f \in Functions : WellFormed(f)

ASSUME LatticeAssumption ==
  \A x, y \in Elem :
    /\ LeastUpperBound(x, y) \in Elem
    /\ Leq(x, LeastUpperBound(x, y))
    /\ Leq(y, LeastUpperBound(x, y))

ASSUME LeastAssumption ==
  \A x, y, u \in Elem : Leq(x, u) /\ Leq(y, u) => Leq(LeastUpperBound(x, y), u)

ASSUME OrderAssumption ==
  /\ \A x \in Elem : Leq(x, x)
  /\ \A x, y, z \in Elem : Leq(x, y) /\ Leq(y, z) => Leq(x, z)

ASSUME FlowAssumption ==
  \A i \in Inst, s \in StateOver(Name) :
    ~ FlowAborts(i, s) => FlowState(i, s) \in StateOver(Name)

VARIABLES
  func,           \* the function, rewritten by postprocess()
  phase,          \* where runOnFunction() is
  bb_state,       \* bb_state_: the out state of each block
  inst_state_in,  \* the state before each instruction when last interpreted
  changed,        \* some block of this round got another out state
  blk, idx,       \* the block and the instruction that are next
  pending,        \* the predecessors of blk not merged yet
  cur_state       \* the state the interpretation of blk has reached

vars == <<func, phase, bb_state, inst_state_in, changed, blk, idx, pending,
          cur_state>>

Blocks(f) == 1 .. Len(f)

\* The instructions of f, by block and position.
Points(f) == UNION {{b} \X (1 .. Len(f[b].insts)) : b \in Blocks(f)}

-----------------------------------------------------------------------------
\* A bug: a name both states know keeps the element of the first.
MergeStatesKeepsFirst(A, B) ==
  [n \in DOMAIN A \cup DOMAIN B |-> IF n \in DOMAIN A THEN A[n] ELSE B[n]]

\* mergeStates(): a name only one of the states knows keeps its element.
MergeStates(A, B) ==
  [n \in DOMAIN A \cup DOMAIN B |->
     IF n \notin DOMAIN B THEN A[n]
     ELSE IF n \notin DOMAIN A THEN B[n]
     ELSE LeastUpperBound(A[n], B[n])]

Init ==
  /\ func \in Functions
  /\ phase = "start"
  /\ bb_state = <<>>
  /\ inst_state_in = <<>>
  /\ changed = FALSE
  /\ blk = 1
  /\ idx = 1
  /\ pending = {}
  /\ cur_state = EmptyState

\* Every block starts out with the empty state; so does the entry block, as
\* the getEntryBlockState() of every analysis returns the empty state.
SetInitialStates ==
  /\ phase = "start"
  /\ phase' = "round"
  /\ bb_state' = [b \in Blocks(func) |-> EmptyState]
  /\ inst_state_in' = [p \in Points(func) |-> EmptyState]
  /\ changed' = TRUE
  /\ UNCHANGED <<func, blk, idx, pending, cur_state>>

\* A bug: the instructions are counted from 0.
EnterBlockFromZero(b) ==
  /\ blk' = b
  /\ idx' = 0
  /\ pending' = IF b = 1 THEN {} ELSE func[b].preds
  /\ cur_state' = EmptyState

\* A bug: a block starts from what the one before it has left.
EnterBlockKeepsState(b) ==
  /\ blk' = b
  /\ idx' = 1
  /\ pending' = IF b = 1 THEN {} ELSE func[b].preds
  /\ UNCHANGED cur_state

\* Turning to block b: the entry block has no in state to be merged.
EnterBlock(b) ==
  /\ blk' = b
  /\ idx' = 1
  /\ pending' = IF b = 1 THEN {} ELSE func[b].preds
  /\ cur_state' = EmptyState

StartRound ==
  /\ phase = "round"
  /\ changed
  /\ changed' = FALSE
  /\ phase' = "block"
  /\ EnterBlock(1)
  /\ UNCHANGED <<func, bb_state, inst_state_in>>

\* One turn of the loop of mergePredecessorStates(), whose order is that of
\* LLVM's use lists.
MergePredecessorState(p) ==
  /\ phase = "block"
  /\ p \in pending
  /\ cur_state' = MergeStates(cur_state, bb_state[p])
  /\ pending' = pending \ {p}
  /\ UNCHANGED <<func, phase, bb_state, inst_state_in, changed, blk, idx>>

Interpreting ==
  /\ phase = "block"
  /\ pending = {}
  /\ idx <= Len(func[blk].insts)

InterpretInst ==
  /\ Interpreting
  /\ ~ FlowAborts(func[blk].insts[idx], cur_state)
  /\ inst_state_in' = [inst_state_in EXCEPT ![<<blk, idx>>] = cur_state]
  /\ cur_state' = FlowState(func[blk].insts[idx], cur_state)
  /\ idx' = idx + 1
  /\ UNCHANGED <<func, phase, bb_state, changed, blk, pending>>

\* An assertion of flowState() or of the lattice fails, or it traps.
Abort ==
  /\ Interpreting
  /\ FlowAborts(func[blk].insts[idx], cur_state)
  /\ phase' = "aborted"
  /\ UNCHANGED <<func, bb_state, inst_state_in, changed, blk, idx, pending,
                 cur_state>>

\* A bug: each block overwrites what the earlier ones of the round noted.
RoundChangedForgets == cur_state # bb_state[blk]

\* A bug: the out state is compared with the state all blocks start from.
RoundChangedCompares == changed \/ cur_state # EmptyState

RoundChanged == changed \/ cur_state # bb_state[blk]

SetOutState ==
  /\ phase = "block"
  /\ pending = {}
  /\ idx > Len(func[blk].insts)
  /\ changed' = RoundChanged
  /\ bb_state' = [bb_state EXCEPT ![blk] = cur_state]
  /\ IF blk < Len(func) THEN EnterBlock(blk + 1) /\ UNCHANGED phase
     ELSE phase' = "round" /\ UNCHANGED <<blk, idx, pending, cur_state>>
  /\ UNCHANGED <<func, inst_state_in>>

\* What postprocess() answers is dropped: runOnFunction() returns false.
Finish ==
  /\ phase = "round"
  /\ ~ changed
  /\ phase' = "done"
  /\ func' = Postprocess(func, bb_state, inst_state_in)
  /\ bb_state' = <<>>
  /\ UNCHANGED <<inst_state_in, changed, blk, idx, pending, cur_state>>

Stopped == phase \in {"done", "aborted"} /\ UNCHANGED vars

Next ==
  \/ SetInitialStates
  \/ StartRound
  \/ \E p \in pending : MergePredecessorState(p)
  \/ InterpretInst
  \/ Abort
  \/ SetOutState
  \/ Finish
  \/ Stopped

Spec == Init /\ [][Next]_vars

\* opt runs the pass on one thread and to its end.
FairSpec == Spec /\ WF_vars(Next)

-----------------------------------------------------------------------------
TypeOK ==
  /\ phase \in {"start", "round", "block", "done", "aborted"}
  /\ changed \in BOOLEAN
  /\ phase # "done" => func \in Functions
  /\ phase \in {"round", "block"} =>
       /\ bb_state \in [Blocks(func) -> StateOver(Name)]
       /\ inst_state_in \in [Points(func) -> StateOver(Name)]
  /\ phase = "block" =>
       /\ blk \in Blocks(func)
       /\ idx \in 1 .. Len(func[blk].insts) + 1
       /\ pending \subseteq func[blk].preds
       /\ cur_state \in StateOver(Name)

StateLeq(A, B) ==
  DOMAIN A \subseteq DOMAIN B /\ \A n \in DOMAIN A : Leq(A[n], B[n])

\* The states kept for block b solve its equations: its first instruction
\* starts above the out states of the predecessors, every further one from
\* what the one before it left, and the last leaves the out state.
Solves(b) ==
  LET insts == func[b].insts
      n == Len(insts)
  IN  /\ b # 1 => \A p \in func[b].preds :
                    StateLeq(bb_state[p], inst_state_in[<<b, 1>>])
      /\ b = 1 => inst_state_in[<<b, 1>>] = EmptyState
      /\ \A k \in 1 .. n - 1 :
           inst_state_in[<<b, k + 1>>] = FlowState(insts[k], inst_state_in[<<b, k>>])
      /\ bb_state[b] = FlowState(insts[n], inst_state_in[<<b, n>>])

(* "Iterate until fixed point" (AbstractInterpretation.h:74): when the     *)
(* loop ends, and postprocess() is about to rewrite the function by them,  *)
(* the states of all blocks solve the data flow equations, although every  *)
(* block was interpreted with out states of which later blocks of the same *)
(* round could still have changed some.                                    *)
FixedPoint ==
  phase = "round" /\ ~ changed => \A b \in Blocks(func) : Solves(b)

\* The state block blk was entered with.
InState == IF idx = 1 THEN cur_state ELSE inst_state_in[<<blk, 1>>]

\* Predecessors that are not pending have been merged into the in state, and
\* every instruction before idx has been applied to the one before it.
Underway ==
  /\ idx > 1 => pending = {}
  /\ blk # 1 => \A p \in func[blk].preds \ pending : StateLeq(bb_state[p], InState)
  /\ blk = 1 => pending = {} /\ InState = EmptyState
  /\ \A k \in 1 .. idx - 2 :
       inst_state_in[<<blk, k + 1>>]
         = FlowState(func[blk].insts[k], inst_state_in[<<blk, k>>])
  /\ idx > 1 =>
       cur_state = FlowState(func[blk].insts[idx - 1], inst_state_in[<<blk, idx - 1>>])

(* What makes FixedPoint true, round by round: in a round that has changed *)
(* nothing so far, the equations are solved for the blocks already         *)
(* interpreted, since the out states they were interpreted with are still  *)
(* the ones kept; and the block being interpreted has got as far as its    *)
(* next instruction.                                                       *)
RoundInv ==
  /\ phase = "block" => Underway
  /\ phase = "block" /\ ~ changed => \A b \in 1 .. blk - 1 : Solves(b)
  /\ FixedPoint

(* The out states only ever rise, from one round to the next: no block     *)
(* forgets what an earlier round found in it.  As a lattice has finitely   *)
(* many levels this is why the loop ends, for an analysis of which it is   *)
(* true.                                                                   *)
OutStatesRise ==
  [][phase = "block" =>
       \A b \in Blocks(func) : StateLeq(bb_state[b], bb_state'[b])]_vars

(* The loop of AbstractInterpretation.h:76 ends.                           *)
Termination == <>(phase \in {"done", "aborted"})
=============================================================================
