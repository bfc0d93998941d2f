-------------------- MODULE AbstractInterpretationTheorems --------------------
(***************************************************************************)
(* What holds of the abstract interpreter whatever the analysis and the    *)
(* functions it is run on: its states are well typed, where its loop ends  *)
(* they solve the data flow equations, and it implements the chaotic       *)
(* iteration of DataFlow.  And for a monotone analysis, that its out       *)
(* states only rise.                                                       *)
(***************************************************************************)
EXTENDS AbstractInterpretationRefinement, TLAPS

(* What WellFormed says of a function and each of its blocks.              *)
LEMMA FunctionFacts ==
  ASSUME NEW f \in Functions
  PROVE  /\ Len(f) \in Nat \ {0}
         /\ \A b \in Blocks(f) :
              /\ f[b].insts \in Seq(Inst)
              /\ Len(f[b].insts) \in Nat \ {0}
              /\ \A k \in 1 .. Len(f[b].insts) : f[b].insts[k] \in Inst
              /\ f[b].preds \subseteq Blocks(f)
<1> DEFINE Block == [insts : Seq(Inst) \ {<<>>}, preds : SUBSET (1 .. Len(f))]
<1>1. f \in Seq(Block) /\ f # <<>>
  BY FunctionsAssumption DEF WellFormed
<1>2. Len(f) \in Nat \ {0} /\ \A b \in Blocks(f) : f[b] \in Block
  <2> HIDE DEF Block
  <2> QED BY <1>1 DEF Blocks
<1>3. ASSUME NEW b \in Blocks(f)
      PROVE  /\ f[b].insts \in Seq(Inst)
             /\ f[b].insts # <<>>
             /\ f[b].preds \subseteq Blocks(f)
  BY <1>2 DEF Blocks
<1>4. ASSUME NEW s \in Seq(Inst), s # <<>>
      PROVE  Len(s) \in Nat \ {0} /\ \A k \in 1 .. Len(s) : s[k] \in Inst
  BY <1>4
<1> QED BY <1>2, <1>3, <1>4

(* The empty state knows no name.                                          *)
LEMMA EmptyStateFacts == EmptyState \in StateOver(Name) /\ DOMAIN EmptyState = {}
BY DEF EmptyState, StateOver

(* A state is a map from the names it knows to elements.                   *)
LEMMA StateFacts ==
  ASSUME NEW A
  PROVE  A \in StateOver(Name) <=> /\ A = [n \in DOMAIN A |-> A[n]]
                         /\ DOMAIN A \subseteq Name
                         /\ \A n \in DOMAIN A : A[n] \in Elem
<1>1. ASSUME A \in StateOver(Name)
      PROVE  /\ A = [n \in DOMAIN A |-> A[n]]
             /\ DOMAIN A \subseteq Name
             /\ \A n \in DOMAIN A : A[n] \in Elem
  <2>1. PICK D \in SUBSET Name : A \in [D -> Elem]
    BY <1>1 DEF StateOver
  <2> QED BY <2>1
<1>2. ASSUME A = [n \in DOMAIN A |-> A[n]],
             DOMAIN A \subseteq Name,
             \A n \in DOMAIN A : A[n] \in Elem
      PROVE  A \in StateOver(Name)
  <2>1. A \in [DOMAIN A -> Elem]
    BY <1>2
  <2> QED BY <2>1, <1>2 DEF StateOver
<1> QED BY <1>1, <1>2

(* mergeStates() of two states is a state above both.                      *)
LEMMA MergeIsUpperBound ==
  ASSUME NEW A \in StateOver(Name), NEW B \in StateOver(Name)
  PROVE  /\ MergeStates(A, B) \in StateOver(Name)
         /\ StateLeq(A, MergeStates(A, B))
         /\ StateLeq(B, MergeStates(A, B))
<1> DEFINE M == MergeStates(A, B)
<1>1. /\ DOMAIN A \subseteq Name /\ \A n \in DOMAIN A : A[n] \in Elem
      /\ DOMAIN B \subseteq Name /\ \A n \in DOMAIN B : B[n] \in Elem
  BY StateFacts
<1>2. M \in [DOMAIN A \cup DOMAIN B -> Elem]
  BY <1>1, LatticeAssumption DEF MergeStates
<1>3. M \in StateOver(Name)
  BY <1>1, <1>2 DEF StateOver
<1>4. ASSUME NEW n \in DOMAIN A
      PROVE  Leq(A[n], M[n])
  <2>1. CASE n \notin DOMAIN B
    BY <1>1, <2>1, OrderAssumption DEF MergeStates
  <2>2. CASE n \in DOMAIN B
    BY <1>1, <2>2, LatticeAssumption DEF MergeStates
  <2> QED BY <2>1, <2>2
<1>5. ASSUME NEW n \in DOMAIN B
      PROVE  Leq(B[n], M[n])
  <2>1. CASE n \notin DOMAIN A
    BY <1>1, <2>1, OrderAssumption DEF MergeStates
  <2>2. CASE n \in DOMAIN A
    BY <1>1, <2>2, LatticeAssumption DEF MergeStates
  <2> QED BY <2>1, <2>2
<1> QED BY <1>2, <1>3, <1>4, <1>5 DEF StateLeq

(* The order of states is transitive.                                      *)
LEMMA StateLeqTransitive ==
  ASSUME NEW A \in StateOver(Name), NEW B \in StateOver(Name), NEW C \in StateOver(Name),
         StateLeq(A, B), StateLeq(B, C)
  PROVE  StateLeq(A, C)
<1>1. /\ \A n \in DOMAIN A : A[n] \in Elem
      /\ \A n \in DOMAIN B : B[n] \in Elem
      /\ \A n \in DOMAIN C : C[n] \in Elem
  BY StateFacts
<1> QED BY <1>1, OrderAssumption DEF StateLeq

(* The instructions of a block are points of the function.                 *)
LEMMA PointFacts ==
  ASSUME NEW f, NEW b \in Blocks(f), NEW k \in 1 .. Len(f[b].insts)
  PROVE  <<b, k>> \in Points(f)
BY DEF Points
-----------------------------------------------------------------------------
(* Types are kept from state to state.                                     *)
LEMMA TypeOKInductive == TypeOK /\ [Next]_vars => TypeOK'
<1> SUFFICES ASSUME TypeOK, [Next]_vars
             PROVE  TypeOK'
  OBVIOUS
<1>1. CASE SetInitialStates
  <2>1. bb_state' \in [Blocks(func) -> StateOver(Name)]
    BY <1>1, EmptyStateFacts DEF SetInitialStates
  <2>2. inst_state_in' \in [Points(func) -> StateOver(Name)]
    BY <1>1, EmptyStateFacts DEF SetInitialStates
  <2> QED BY <1>1, <2>1, <2>2 DEF SetInitialStates, TypeOK
<1>2. CASE StartRound
  <2>1. func \in Functions
    BY <1>2 DEF StartRound, TypeOK
  <2>2. Len(func) \in Nat \ {0} /\ Len(func[1].insts) \in Nat \ {0}
    BY <2>1, FunctionFacts DEF Blocks
  <2>3. /\ blk' = 1 /\ 1 \in Blocks(func)
        /\ idx' = 1 /\ 1 \in 1 .. Len(func[1].insts) + 1
        /\ pending' = {}
        /\ cur_state' \in StateOver(Name)
        /\ UNCHANGED <<func, bb_state, inst_state_in>>
        /\ changed' = FALSE
        /\ phase' = "block"
    BY <1>2, <2>2, EmptyStateFacts DEF StartRound, EnterBlock, Blocks
  <2>4. /\ bb_state \in [Blocks(func) -> StateOver(Name)]
        /\ inst_state_in \in [Points(func) -> StateOver(Name)]
    BY <1>2 DEF StartRound, TypeOK
  <2> QED BY <2>1, <2>3, <2>4 DEF TypeOK
<1>3. ASSUME NEW p \in pending, MergePredecessorState(p)
      PROVE  TypeOK'
  <2>1. /\ func \in Functions
        /\ blk \in Blocks(func)
        /\ p \in func[blk].preds
        /\ cur_state \in StateOver(Name)
        /\ bb_state \in [Blocks(func) -> StateOver(Name)]
    BY <1>3 DEF MergePredecessorState, TypeOK
  <2>2. bb_state[p] \in StateOver(Name)
    BY <2>1, FunctionFacts
  <2>3. cur_state' \in StateOver(Name)
    BY <1>3, <2>1, <2>2, MergeIsUpperBound DEF MergePredecessorState
  <2> QED BY <1>3, <2>3 DEF MergePredecessorState, TypeOK
<1>4. CASE InterpretInst
  <2>1. /\ func \in Functions
        /\ blk \in Blocks(func)
        /\ idx \in 1 .. Len(func[blk].insts)
        /\ cur_state \in StateOver(Name)
        /\ inst_state_in \in [Points(func) -> StateOver(Name)]
    BY <1>4, FunctionFacts DEF InterpretInst, Interpreting, TypeOK
  <2>2. func[blk].insts[idx] \in Inst /\ Len(func[blk].insts) \in Nat
    BY <2>1, FunctionFacts
  <2>3. cur_state' \in StateOver(Name)
    BY <1>4, <2>1, <2>2, FlowAssumption DEF InterpretInst
  <2>4. inst_state_in' \in [Points(func) -> StateOver(Name)]
    BY <1>4, <2>1 DEF InterpretInst
  <2>5. idx' \in 1 .. Len(func[blk].insts) + 1
    BY <1>4, <2>1, <2>2 DEF InterpretInst
  <2> QED
    BY <1>4, <2>3, <2>4, <2>5 DEF InterpretInst, Interpreting, TypeOK
<1>5. CASE Abort
  BY <1>5 DEF Abort, Interpreting, TypeOK
<1>6. CASE SetOutState
  <2>1. /\ func \in Functions
        /\ blk \in Blocks(func)
        /\ cur_state \in StateOver(Name)
        /\ bb_state \in [Blocks(func) -> StateOver(Name)]
    BY <1>6 DEF SetOutState, TypeOK
  <2>2. /\ bb_state' \in [Blocks(func) -> StateOver(Name)]
        /\ changed' \in BOOLEAN
    BY <1>6, <2>1 DEF SetOutState, RoundChanged, TypeOK
  <2>3. CASE blk < Len(func)
    <3>1. blk + 1 \in Blocks(func) /\ Len(func[blk + 1].insts) \in Nat \ {0}
      BY <2>1, <2>3, FunctionFacts DEF Blocks
    <3> QED
      BY <1>6, <2>1, <2>2, <2>3, <3>1, EmptyStateFacts
      DEF SetOutState, EnterBlock, TypeOK
  <2>4. CASE ~ (blk < Len(func))
    BY <1>6, <2>2, <2>4 DEF SetOutState, TypeOK
  <2> QED BY <2>3, <2>4
<1>7. CASE Finish
  BY <1>7 DEF Finish, TypeOK
<1>8. CASE UNCHANGED vars
  BY <1>8 DEF vars, TypeOK
<1> QED
  BY <1>1, <1>2, <1>3, <1>4, <1>5, <1>6, <1>7, <1>8 DEF Next, Stopped

(* Every reachable state is well typed: in particular the element of a     *)
(* name is always one of the lattice, and the interpreter never looks for  *)
(* an instruction outside its block or a block outside its function.       *)
THEOREM TypeCorrect == Spec => []TypeOK
<1>1. Init => TypeOK
  BY DEF Init, TypeOK
<1> QED BY <1>1, TypeOKInductive, PTL DEF Spec
-----------------------------------------------------------------------------
(* A block's equations speak of the states and the function alone.         *)
LEMMA SolvesUnchanged ==
  ASSUME NEW b, Solves(b), UNCHANGED <<func, bb_state, inst_state_in>>
  PROVE  Solves(b)'
BY DEF Solves

(* The loop invariant is inductive: one step per action.                   *)
LEMMA RoundInvInductive == TypeOK /\ RoundInv /\ [Next]_vars => RoundInv'
<1> SUFFICES ASSUME TypeOK, RoundInv, [Next]_vars
             PROVE  RoundInv'
  OBVIOUS
<1>1. CASE SetInitialStates
  BY <1>1 DEF SetInitialStates, RoundInv, FixedPoint
<1>2. CASE StartRound
  <2>1. /\ phase' = "block" /\ blk' = 1 /\ idx' = 1
        /\ pending' = {} /\ cur_state' = EmptyState
    BY <1>2 DEF StartRound, EnterBlock
  <2>2. Underway'
    BY <2>1 DEF Underway, InState, EmptyState
  <2> QED BY <2>1, <2>2 DEF RoundInv, FixedPoint
<1>3. ASSUME NEW p \in pending, MergePredecessorState(p)
      PROVE  RoundInv'
  <2>1. /\ phase = "block" /\ phase' = "block"
        /\ UNCHANGED <<func, bb_state, inst_state_in, changed, blk, idx>>
        /\ pending' = pending \ {p}
        /\ cur_state' = MergeStates(cur_state, bb_state[p])
    BY <1>3 DEF MergePredecessorState
  <2>2. Underway /\ ~ (idx > 1) /\ blk # 1
    BY <1>3, <2>1 DEF RoundInv, Underway
  <2>3. /\ func \in Functions /\ blk \in Blocks(func)
        /\ cur_state \in StateOver(Name) /\ bb_state \in [Blocks(func) -> StateOver(Name)]
        /\ func[blk].preds \subseteq Blocks(func)
        /\ p \in func[blk].preds
        /\ idx \in Nat \ {0}
    BY <2>1, FunctionFacts DEF TypeOK
  <2>4. idx = 1
    BY <2>2, <2>3
  <2>5. ASSUME NEW q \in func[blk].preds \ pending'
        PROVE  StateLeq(bb_state[q], cur_state')
    <3>1. /\ cur_state' \in StateOver(Name)
          /\ StateLeq(cur_state, cur_state')
          /\ StateLeq(bb_state[p], cur_state')
      BY <2>1, <2>3, MergeIsUpperBound
    <3>2. CASE q = p
      BY <3>1, <3>2
    <3>3. CASE q # p
      <4>1. StateLeq(bb_state[q], cur_state)
        BY <2>1, <2>2, <2>4, <2>5, <3>3 DEF Underway, InState
      <4> QED BY <2>3, <2>5, <3>1, <4>1, StateLeqTransitive
    <3> QED BY <3>2, <3>3
  <2>6. Underway'
    BY <2>1, <2>2, <2>4, <2>5 DEF Underway, InState
  <2> QED
    BY <2>1, <2>6, SolvesUnchanged DEF RoundInv, FixedPoint
<1>4. CASE InterpretInst
  <2>1. /\ phase = "block" /\ phase' = "block"
        /\ UNCHANGED <<func, bb_state, changed, blk, pending>>
        /\ pending = {}
        /\ inst_state_in' = [inst_state_in EXCEPT ![<<blk, idx>>] = cur_state]
        /\ cur_state' = FlowState(func[blk].insts[idx], cur_state)
        /\ idx' = idx + 1
    BY <1>4 DEF InterpretInst, Interpreting
  <2>2. /\ func \in Functions /\ blk \in Blocks(func)
        /\ idx \in 1 .. Len(func[blk].insts)
        /\ inst_state_in \in [Points(func) -> StateOver(Name)]
        /\ blk \in Nat /\ idx \in Nat
    BY <1>4, FunctionFacts DEF InterpretInst, Interpreting, TypeOK, Blocks
  <2>3. <<blk, idx>> \in Points(func)
    BY <2>2, PointFacts
  <2>4. /\ inst_state_in'[<<blk, idx>>] = cur_state
        /\ \A b, k : <<b, k>> \in Points(func) /\ <<b, k>> # <<blk, idx>>
                   => inst_state_in'[<<b, k>>] = inst_state_in[<<b, k>>]
    BY <2>1, <2>2, <2>3
  <2>5. Underway
    BY <2>1 DEF RoundInv
  <2>6. \A k \in 1 .. idx - 1 :
          inst_state_in'[<<blk, k>>] = inst_state_in[<<blk, k>>]
    BY <2>2, <2>4, PointFacts
  <2>7. InState' = InState
    <3>1. CASE idx = 1
      BY <2>1, <2>4, <3>1 DEF InState
    <3>2. CASE idx # 1
      BY <2>1, <2>2, <2>6, <3>2 DEF InState
    <3> QED BY <3>1, <3>2
  <2>8. ASSUME NEW k \in 1 .. idx' - 2
        PROVE  inst_state_in'[<<blk, k + 1>>]
                 = FlowState(func[blk].insts[k], inst_state_in'[<<blk, k>>])
    <3>1. inst_state_in'[<<blk, k>>] = inst_state_in[<<blk, k>>]
      BY <2>1, <2>2, <2>6
    <3>2. CASE k = idx - 1
      BY <2>2, <2>4, <2>5, <3>1, <3>2 DEF Underway
    <3>3. CASE k # idx - 1
      <4>1. k \in 1 .. idx - 2 /\ k + 1 \in 1 .. idx - 1
        BY <2>1, <2>2, <3>3
      <4> QED BY <2>5, <2>6, <3>1, <4>1 DEF Underway
    <3> QED BY <3>2, <3>3
  <2>9. cur_state' = FlowState(func[blk].insts[idx' - 1], inst_state_in'[<<blk, idx' - 1>>])
    BY <2>1, <2>2, <2>4
  <2>10. Underway'
    BY <2>1, <2>5, <2>7, <2>8, <2>9 DEF Underway
  <2>11. ASSUME ~ changed, NEW b \in 1 .. blk - 1
         PROVE  Solves(b)'
    <3>1. Solves(b)
      BY <2>1, <2>11 DEF RoundInv
    <3>2. b \in Blocks(func) /\ b # blk
      BY <2>2, <2>11, FunctionFacts DEF Blocks
    <3>3. \A k \in 1 .. Len(func[b].insts) :
            inst_state_in'[<<b, k>>] = inst_state_in[<<b, k>>]
      BY <2>4, <3>2, PointFacts
    <3>4. Len(func[b].insts) \in Nat \ {0}
      BY <2>2, <3>2, FunctionFacts
    <3> QED BY <2>1, <3>1, <3>3, <3>4 DEF Solves
  <2> QED BY <2>1, <2>10, <2>11 DEF RoundInv, FixedPoint
<1>5. CASE Abort
  BY <1>5 DEF Abort, RoundInv, FixedPoint
<1>6. CASE SetOutState
  <2>1. /\ phase = "block" /\ pending = {} /\ idx > Len(func[blk].insts)
        /\ changed' = (changed \/ cur_state # bb_state[blk])
        /\ bb_state' = [bb_state EXCEPT ![blk] = cur_state]
        /\ UNCHANGED <<func, inst_state_in>>
    BY <1>6 DEF SetOutState, RoundChanged
  <2>2. /\ func \in Functions /\ blk \in Blocks(func)
        /\ blk \in Nat /\ Len(func) \in Nat
        /\ Len(func[blk].insts) \in Nat \ {0}
        /\ idx = Len(func[blk].insts) + 1
        /\ bb_state \in [Blocks(func) -> StateOver(Name)]
    BY <2>1, FunctionFacts DEF TypeOK, Blocks
  <2>3. Underway
    BY <2>1 DEF RoundInv
  <2>4. ASSUME ~ changed', NEW b \in 1 .. blk
        PROVE  Solves(b)'
    <3>1. ~ changed /\ cur_state = bb_state[blk] /\ bb_state' = bb_state
      BY <2>1, <2>2, <2>4
    <3>2. CASE b = blk
      <4>1. InState = inst_state_in[<<blk, 1>>]
        BY <2>2 DEF InState
      <4>2. Solves(blk)
        <5>1. /\ blk # 1 => \A p \in func[blk].preds :
                              StateLeq(bb_state[p], inst_state_in[<<blk, 1>>])
              /\ blk = 1 => inst_state_in[<<blk, 1>>] = EmptyState
          BY <2>1, <2>3, <4>1 DEF Underway
        <5>2. \A k \in 1 .. Len(func[blk].insts) - 1 :
                inst_state_in[<<blk, k + 1>>]
                  = FlowState(func[blk].insts[k], inst_state_in[<<blk, k>>])
          BY <2>2, <2>3 DEF Underway
        <5>3. bb_state[blk] = FlowState(func[blk].insts[Len(func[blk].insts)],
                                inst_state_in[<<blk, Len(func[blk].insts)>>])
          BY <2>2, <2>3, <3>1 DEF Underway
        <5> QED BY <5>1, <5>2, <5>3 DEF Solves
      <4> QED BY <2>1, <3>1, <3>2, <4>2, SolvesUnchanged
    <3>3. CASE b # blk
      <4>1. Solves(b)
        BY <2>1, <2>2, <3>1, <3>3 DEF RoundInv
      <4> QED BY <2>1, <3>1, <4>1, SolvesUnchanged
    <3> QED BY <3>2, <3>3
  <2>5. CASE blk < Len(func)
    <3>1. /\ phase' = "block" /\ blk' = blk + 1 /\ idx' = 1
          /\ pending' = func[blk'].preds /\ cur_state' = EmptyState
      BY <1>6, <2>1, <2>2, <2>5 DEF SetOutState, EnterBlock, Blocks
    <3>2. Underway'
      BY <2>1, <2>2, <3>1 DEF Underway, InState, Blocks
    <3>3. 1 .. blk' - 1 = 1 .. blk
      BY <2>2, <3>1
    <3> QED BY <2>4, <3>1, <3>2, <3>3 DEF RoundInv, FixedPoint
  <2>6. CASE ~ (blk < Len(func))
    <3>1. phase' = "round"
      BY <1>6, <2>6 DEF SetOutState
    <3>2. Blocks(func)' = 1 .. blk
      BY <2>1, <2>2, <2>6 DEF Blocks
    <3> QED BY <2>4, <3>1, <3>2 DEF RoundInv, FixedPoint
  <2> QED BY <2>5, <2>6
<1>7. CASE Finish
  BY <1>7 DEF Finish, RoundInv, FixedPoint
<1>8. CASE UNCHANGED vars
  BY <1>8 DEF vars, RoundInv, FixedPoint, Underway, InState, Solves, Blocks
<1> QED
  BY <1>1, <1>2, <1>3, <1>4, <1>5, <1>6, <1>7, <1>8 DEF Next, Stopped

(* The loop invariant holds throughout.                                    *)
THEOREM RoundsSolve == Spec => []RoundInv
<1>1. Init => RoundInv
  BY DEF Init, RoundInv, FixedPoint
<1> QED BY <1>1, TypeCorrect, RoundInvInductive, PTL DEF Spec

(* Whatever the lattice, the flow functions and the function interpreted:  *)
(* where the loop of runOnFunction() ends, the states solve the data flow  *)
(* equations of every block.  Nothing is assumed of the flow functions but *)
(* that they return states; in particular they need not be monotone.       *)
THEOREM FixedPointReached == Spec => []FixedPoint
BY RoundsSolve, PTL DEF RoundInv
-----------------------------------------------------------------------------
(* The refinement. *)

(* mergeStates() of two states is below every state above both.            *)
LEMMA MergeIsLeast ==
  ASSUME NEW A \in StateOver(Name), NEW B \in StateOver(Name), NEW u \in StateOver(Name),
         StateLeq(A, u), StateLeq(B, u)
  PROVE  StateLeq(MergeStates(A, B), u)
<1> DEFINE M == MergeStates(A, B)
<1>1. /\ \A n \in DOMAIN A : A[n] \in Elem
      /\ \A n \in DOMAIN B : B[n] \in Elem
      /\ \A n \in DOMAIN u : u[n] \in Elem
  BY StateFacts
<1>2. DOMAIN M = DOMAIN A \cup DOMAIN B
  BY DEF MergeStates
<1>3. DOMAIN M \subseteq DOMAIN u
  BY <1>2 DEF StateLeq
<1>4. ASSUME NEW n \in DOMAIN M
      PROVE  Leq(M[n], u[n])
  <2>1. CASE n \notin DOMAIN B
    BY <1>2, <1>4, <2>1 DEF MergeStates, StateLeq
  <2>2. CASE n \notin DOMAIN A
    BY <1>2, <1>4, <2>2 DEF MergeStates, StateLeq
  <2>3. CASE n \in DOMAIN A /\ n \in DOMAIN B
    <3>1. M[n] = LeastUpperBound(A[n], B[n])
      BY <1>4, <2>3 DEF MergeStates
    <3>2. Leq(A[n], u[n]) /\ Leq(B[n], u[n]) /\ u[n] \in Elem
      BY <1>1, <2>3 DEF StateLeq
    <3> QED BY <1>1, <2>3, <3>1, <3>2, LeastAssumption
  <2> QED BY <1>2, <1>4, <2>1, <2>2, <2>3
<1> QED BY <1>3, <1>4 DEF StateLeq

(* The in states are least: one step per action.                           *)
LEMMA MergedNoFurtherInductive ==
  TypeOK /\ RoundInv /\ MergedNoFurther /\ [Next]_vars => MergedNoFurther'
<1> SUFFICES ASSUME TypeOK, RoundInv, MergedNoFurther, [Next]_vars
             PROVE  MergedNoFurther'
  OBVIOUS
<1>1. CASE SetInitialStates
  BY <1>1 DEF SetInitialStates, MergedNoFurther
<1>2. CASE StartRound
  BY <1>2 DEF StartRound, EnterBlock, MergedNoFurther
<1>3. ASSUME NEW p \in pending, MergePredecessorState(p)
      PROVE  MergedNoFurther'
  <2>1. /\ phase = "block" /\ phase' = "block"
        /\ UNCHANGED <<func, bb_state, inst_state_in, changed, blk, idx>>
        /\ pending' = pending \ {p}
        /\ cur_state' = MergeStates(cur_state, bb_state[p])
    BY <1>3 DEF MergePredecessorState
  <2>2. /\ Underway /\ ~ (idx > 1) /\ blk # 1
        /\ func \in Functions /\ blk \in Blocks(func)
        /\ cur_state \in StateOver(Name) /\ bb_state \in [Blocks(func) -> StateOver(Name)]
        /\ p \in func[blk].preds /\ func[blk].preds \subseteq Blocks(func)
        /\ idx \in Nat \ {0}
    BY <1>3, <2>1, FunctionFacts DEF TypeOK, RoundInv, Underway
  <2>3. idx = 1 /\ InState = cur_state /\ InState' = cur_state'
    BY <2>1, <2>2 DEF InState
  <2>4. ASSUME NEW u \in StateOver(Name),
               \A q \in func[blk].preds \ pending' : StateLeq(bb_state[q], u)
        PROVE  StateLeq(cur_state', u)
    <3>1. StateLeq(cur_state, u)
      <4>1. \A q \in func[blk].preds \ pending : StateLeq(bb_state[q], u)
        BY <2>1, <2>4
      <4> QED BY <2>1, <2>2, <2>3, <4>1 DEF MergedNoFurther, LeastAbove
    <3>2. StateLeq(bb_state[p], u)
      BY <2>1, <2>2, <2>4
    <3>3. bb_state[p] \in StateOver(Name)
      BY <2>2
    <3> QED BY <2>1, <2>2, <3>1, <3>2, <3>3, MergeIsLeast
  <2>5. LeastAbove(InState, func[blk].preds \ pending)'
    BY <2>1, <2>3, <2>4 DEF LeastAbove
  <2> QED BY <2>1, <2>5 DEF MergedNoFurther, LeastAbove
<1>4. CASE InterpretInst
  <2>1. /\ phase = "block" /\ phase' = "block"
        /\ UNCHANGED <<func, bb_state, changed, blk, pending>>
        /\ pending = {}
        /\ inst_state_in' = [inst_state_in EXCEPT ![<<blk, idx>>] = cur_state]
        /\ idx' = idx + 1
    BY <1>4 DEF InterpretInst, Interpreting
  <2>2. /\ func \in Functions /\ blk \in Blocks(func)
        /\ idx \in 1 .. Len(func[blk].insts)
        /\ inst_state_in \in [Points(func) -> StateOver(Name)]
        /\ blk \in Nat /\ idx \in Nat
    BY <1>4, FunctionFacts DEF InterpretInst, Interpreting, TypeOK, Blocks
  <2>3. <<blk, idx>> \in Points(func) /\ <<blk, 1>> \in Points(func)
    BY <2>2, PointFacts, FunctionFacts
  <2>4. InState' = InState
    <3>1. CASE idx = 1
      BY <2>1, <2>2, <2>3, <3>1 DEF InState
    <3>2. CASE idx # 1
      BY <2>1, <2>2, <2>3, <3>2 DEF InState
    <3> QED BY <3>1, <3>2
  <2>5. ASSUME NEW b \in 1 .. blk - 1
        PROVE  inst_state_in'[<<b, 1>>] = inst_state_in[<<b, 1>>]
    <3>1. b \in Blocks(func) /\ b # blk
      BY <2>2, FunctionFacts DEF Blocks
    <3>2. <<b, 1>> \in Points(func)
      BY <2>2, <3>1, PointFacts, FunctionFacts
    <3> QED BY <2>1, <2>2, <3>1, <3>2
  <2> QED BY <2>1, <2>4, <2>5 DEF MergedNoFurther, LeastAbove
<1>5. CASE Abort
  BY <1>5 DEF Abort, MergedNoFurther
<1>6. CASE SetOutState
  <2>1. /\ phase = "block" /\ pending = {} /\ idx > Len(func[blk].insts)
        /\ changed' = (changed \/ cur_state # bb_state[blk])
        /\ bb_state' = [bb_state EXCEPT ![blk] = cur_state]
        /\ UNCHANGED <<func, inst_state_in>>
    BY <1>6 DEF SetOutState, RoundChanged
  <2>2. /\ func \in Functions /\ blk \in Blocks(func)
        /\ blk \in Nat /\ Len(func) \in Nat
        /\ Len(func[blk].insts) \in Nat \ {0}
        /\ idx = Len(func[blk].insts) + 1
        /\ bb_state \in [Blocks(func) -> StateOver(Name)]
    BY <2>1, FunctionFacts DEF TypeOK, Blocks
  <2>3. InState = inst_state_in[<<blk, 1>>]
    BY <2>2 DEF InState
  <2>4. ASSUME ~ changed', NEW b \in 1 .. blk, b # 1
        PROVE  LeastAbove(inst_state_in[<<b, 1>>], func[b].preds)'
    <3>1. ~ changed /\ bb_state' = bb_state
      BY <2>1, <2>2, <2>4
    <3>2. LeastAbove(inst_state_in[<<b, 1>>], func[b].preds)
      <4>1. CASE b = blk
        BY <2>1, <2>3, <2>4, <4>1 DEF MergedNoFurther
      <4>2. CASE b # blk
        BY <2>1, <2>2, <2>4, <3>1, <4>2 DEF MergedNoFurther
      <4> QED BY <4>1, <4>2
    <3> QED BY <2>1, <3>1, <3>2 DEF LeastAbove
  <2>5. CASE blk < Len(func)
    <3>1. /\ phase' = "block" /\ blk' = blk + 1 /\ blk' # 1 /\ idx' = 1
          /\ pending' = func[blk'].preds /\ cur_state' = EmptyState
      BY <1>6, <2>1, <2>2, <2>5 DEF SetOutState, EnterBlock, Blocks
    <3>2. LeastAbove(InState, func[blk].preds \ pending)'
      BY <3>1, EmptyStateFacts DEF InState, LeastAbove, StateLeq
    <3>3. 1 .. blk' - 1 = 1 .. blk
      BY <2>2, <3>1
    <3> QED BY <2>4, <3>1, <3>2, <3>3 DEF MergedNoFurther
  <2>6. CASE ~ (blk < Len(func))
    <3>1. phase' = "round" /\ Blocks(func)' = 1 .. blk
      BY <1>6, <2>1, <2>2, <2>6 DEF SetOutState, Blocks
    <3> QED BY <2>4, <3>1 DEF MergedNoFurther
  <2> QED BY <2>5, <2>6
<1>7. CASE Finish
  BY <1>7 DEF Finish, MergedNoFurther
<1>8. CASE UNCHANGED vars
  BY <1>8 DEF vars, MergedNoFurther, LeastAbove, InState, Blocks
<1> QED
  BY <1>1, <1>2, <1>3, <1>4, <1>5, <1>6, <1>7, <1>8 DEF Next, Stopped

(* The in states are the least ones, throughout.                           *)
THEOREM MergesNoFurther == Spec => []MergedNoFurther
<1>1. Init => MergedNoFurther
  BY DEF Init, MergedNoFurther
<1> QED BY <1>1, TypeCorrect, RoundsSolve, MergedNoFurtherInductive, PTL DEF Spec

-----------------------------------------------------------------------------
(* Above the predecessors and below everything that is above them: the     *)
(* same in both specifications.                                            *)
LEMMA MergedFacts ==
  ASSUME phase # "start", NEW b, NEW s,
         b = 1 => s = EmptyState,
         b # 1 => /\ \A p \in func[b].preds : StateLeq(bb_state[p], s)
                  /\ LeastAbove(s, func[b].preds)
  PROVE  Equations!Merged(b, s)
<1>1. OutStates = bb_state
  BY DEF OutStates
<1> QED
  BY <1>1 DEF Equations!Merged, Equations!Above, Equations!State, Equations!StateLeq,
              Equations!EmptyState, LeastAbove, StateLeq, StateOver, EmptyState

(* The states of a block that solve its equations here solve them there.   *)
LEMMA SolvedFacts ==
  ASSUME phase # "start", NEW b \in Blocks(func), Solves(b),
         b # 1 => LeastAbove(inst_state_in[<<b, 1>>], func[b].preds)
  PROVE  Equations!Solved(b)
<1>1. OutStates = bb_state /\ States = inst_state_in
  BY DEF OutStates, States
<1>2. Equations!Merged(b, inst_state_in[<<b, 1>>])
  BY MergedFacts DEF Solves
<1> QED BY <1>1, <1>2 DEF Solves, Equations!Solved, Equations!Insts

(* One step per action: setting up, merging and turning to a block change  *)
(* nothing that is kept, and each of the others is an equation made true.  *)
LEMMA StepIteratesTheEquations ==
  TypeOK /\ TypeOK' /\ RoundInv /\ MergedNoFurther /\ [Next]_vars
    => [Equations!Next]_Equations!vars
<1> SUFFICES ASSUME TypeOK, TypeOK', RoundInv, MergedNoFurther, [Next]_vars
             PROVE  Equations!Next \/ UNCHANGED Equations!vars
  OBVIOUS
<1> USE DEF Equations!Blocks, Equations!Insts
<1>1. CASE SetInitialStates
  BY <1>1 DEF SetInitialStates, Equations!vars, States, OutStates
<1>2. CASE StartRound
  BY <1>2 DEF StartRound, Equations!vars, States, OutStates
<1>3. ASSUME NEW p \in pending, MergePredecessorState(p)
      PROVE  UNCHANGED Equations!vars
  BY <1>3 DEF MergePredecessorState, Equations!vars, States, OutStates
<1>4. CASE InterpretInst
  <2>1. /\ phase = "block" /\ phase' = "block"
        /\ UNCHANGED <<func, bb_state>>
        /\ pending = {}
        /\ inst_state_in' = [inst_state_in EXCEPT ![<<blk, idx>>] = cur_state]
        /\ func \in Functions /\ blk \in Blocks(func)
        /\ idx \in 1 .. Len(func[blk].insts)
        /\ cur_state \in StateOver(Name)
        /\ Underway
    BY <1>4, FunctionFacts DEF InterpretInst, Interpreting, TypeOK, RoundInv
  <2>2. /\ States = inst_state_in /\ States' = inst_state_in'
        /\ OutStates = bb_state /\ OutStates' = bb_state'
    BY <2>1 DEF States, OutStates
  <2>3. CASE idx = 1
    <3>1. InState = cur_state
      BY <2>3 DEF InState
    <3>2. Equations!Merged(blk, cur_state)
      BY <2>1, <3>1, MergedFacts DEF Underway, MergedNoFurther
    <3>3. cur_state \in Equations!State
      BY <2>1 DEF StateOver, Equations!State
    <3>4. Equations!EnterBlock(blk)
      BY <2>1, <2>2, <2>3, <3>2, <3>3 DEF Equations!EnterBlock
    <3> QED BY <2>1, <3>4 DEF Equations!Next, Blocks
  <2>4. CASE idx # 1
    <3>1. /\ idx - 1 \in 1 .. Len(func[blk].insts) - 1
          /\ (idx - 1) + 1 = idx
          /\ cur_state = FlowState(func[blk].insts[idx - 1], inst_state_in[<<blk, idx - 1>>])
      BY <2>1, <2>4, FunctionFacts DEF Underway
    <3>2. Equations!Interpret(blk, idx - 1)
      BY <2>1, <2>2, <3>1 DEF Equations!Interpret
    <3> QED BY <2>1, <3>1, <3>2 DEF Equations!Next, Blocks
  <2> QED BY <2>3, <2>4
<1>5. CASE Abort
  BY <1>5 DEF Abort, Interpreting, Equations!vars, States, OutStates
<1>6. CASE SetOutState
  <2>1. /\ phase = "block" /\ phase' \in {"block", "round"}
        /\ pending = {} /\ idx > Len(func[blk].insts)
        /\ bb_state' = [bb_state EXCEPT ![blk] = cur_state]
        /\ UNCHANGED <<func, inst_state_in>>
    BY <1>6 DEF SetOutState
  <2>2. /\ func \in Functions /\ blk \in Blocks(func)
        /\ Len(func[blk].insts) \in Nat \ {0}
        /\ idx = Len(func[blk].insts) + 1
        /\ Underway
    <3>1. /\ func \in Functions /\ blk \in Blocks(func)
          /\ idx \in 1 .. Len(func[blk].insts) + 1
      BY <2>1 DEF TypeOK
    <3>2. Len(func[blk].insts) \in Nat \ {0}
      BY <3>1, FunctionFacts
    <3>3. idx = Len(func[blk].insts) + 1
      BY <2>1, <3>1, <3>2
    <3>4. Underway
      BY <2>1 DEF RoundInv
    <3> QED BY <3>1, <3>2, <3>3, <3>4
  <2>3. cur_state = FlowState(func[blk].insts[Len(func[blk].insts)],
                              inst_state_in[<<blk, Len(func[blk].insts)>>])
    BY <2>2 DEF Underway
  <2>4. /\ States = inst_state_in /\ States' = inst_state_in'
        /\ OutStates = bb_state /\ OutStates' = bb_state'
    BY <2>1 DEF States, OutStates
  <2>5. Equations!LeaveBlock(blk)
    BY <2>1, <2>2, <2>3, <2>4 DEF Equations!LeaveBlock
  <2> QED BY <2>1, <2>2, <2>5 DEF Equations!Next, Blocks
<1>7. CASE Finish
  <2>1. /\ phase = "round" /\ ~ changed /\ phase' = "done"
        /\ func' = Postprocess(func, bb_state, inst_state_in)
        /\ bb_state' = <<>> /\ UNCHANGED inst_state_in
    BY <1>7 DEF Finish
  <2>2. \A b \in Blocks(func) : Equations!Solved(b)
    BY <2>1, SolvedFacts DEF RoundInv, FixedPoint, MergedNoFurther
  <2>3. /\ States = inst_state_in /\ States' = inst_state_in'
        /\ OutStates = bb_state /\ OutStates' = bb_state'
    BY <2>1 DEF States, OutStates
  <2>4. Equations!End
    BY <2>1, <2>2, <2>3 DEF Equations!End, Blocks
  <2> QED BY <2>1, <2>4 DEF Equations!Next
<1>8. CASE UNCHANGED vars
  BY <1>8 DEF vars, Equations!vars, States, OutStates, Points, Blocks
<1> QED
  BY <1>1, <1>2, <1>3, <1>4, <1>5, <1>6, <1>7, <1>8 DEF Next, Stopped

(* Whatever the lattice, the analysis and the functions: the interpreter   *)
(* is a chaotic iteration of the data flow equations that ends only in     *)
(* their solution.                                                         *)
THEOREM ImplementsDataFlow == Spec => IteratesTheEquations
<1>1. Init => Equations!Init
  BY DEF Init, Equations!Init, States, OutStates, EmptyState, Equations!EmptyState,
         Points, Equations!Points, Blocks, Equations!Blocks, Equations!Insts
<1> QED
  BY <1>1, TypeCorrect, RoundsSolve, MergesNoFurther, StepIteratesTheEquations, PTL
  DEF Spec, IteratesTheEquations, Equations!Spec
-----------------------------------------------------------------------------
(* What holds for a monotone analysis: the out states only rise.           *)

CONSTANT Kept               \* the states an analysis keeps to

\* The analysis starts in these states, merging and interpreting leads from
\* them to them, and a higher one is interpreted to a higher one.
Monotone ==
  /\ Kept \subseteq StateOver(Name)
  /\ EmptyState \in Kept
  /\ \A A, B \in Kept : MergeStates(A, B) \in Kept
  /\ \A i \in Inst, A \in Kept : ~ FlowAborts(i, A) => FlowState(i, A) \in Kept
  /\ \A i \in Inst, A, B \in Kept :
       StateLeq(A, B) => StateLeq(FlowState(i, A), FlowState(i, B))

\* The states of an interpretation of block b, whatever it starts from.
Chains(b) ==
  LET n == Len(func[b].insts) IN
  {h \in [1 .. n + 1 -> Kept] :
     /\ b = 1 => h[1] = EmptyState
     /\ \A k \in 1 .. n : h[k + 1] = FlowState(func[b].insts[k], h[k])}

\* It starts above the out states of the predecessors.
StartsAbove(b, h) == b # 1 => \A p \in func[b].preds : StateLeq(bb_state[p], h[1])

\* The out state of block b is below what interpreting the block again would
\* leave, from wherever it then starts.
BelowNext(b) ==
  \A h \in Chains(b) :
    StartsAbove(b, h) => StateLeq(bb_state[b], h[Len(func[b].insts) + 1])

(* The invariant: no out state is above what interpreting its block again  *)
(* would leave, and once the predecessors have been merged, the state      *)
(* under way is below that of any such interpretation at the same          *)
(* instruction.                                                            *)
RiseInv ==
  /\ phase \in {"round", "block"} =>
       \A b \in Blocks(func) : bb_state[b] \in Kept /\ BelowNext(b)
  /\ phase = "block" =>
       /\ cur_state \in Kept
       /\ \A k \in 1 .. idx - 1 : inst_state_in[<<blk, k>>] \in Kept
  /\ phase = "block" /\ pending = {} =>
       \A h \in Chains(blk) : StartsAbove(blk, h) => StateLeq(cur_state, h[idx])

(* The empty state is below every state, and every state below itself.     *)
LEMMA StateLeqFacts ==
  ASSUME NEW A \in StateOver(Name)
  PROVE  StateLeq(EmptyState, A) /\ StateLeq(A, A)
<1>1. \A n \in DOMAIN A : A[n] \in Elem
  BY StateFacts
<1> QED BY <1>1, EmptyStateFacts, OrderAssumption DEF StateLeq

LEMMA ChainFacts ==
  ASSUME NEW b, NEW h \in Chains(b), Len(func[b].insts) \in Nat \ {0}
  PROVE  /\ \A k \in 1 .. Len(func[b].insts) + 1 : h[k] \in Kept
         /\ b = 1 => h[1] = EmptyState
         /\ \A k \in 1 .. Len(func[b].insts) : h[k + 1] = FlowState(func[b].insts[k], h[k])
BY DEF Chains

(* The interpretation that has just ended is a chain.                      *)
LEMMA InterpretedChain ==
  ASSUME TypeOK, RoundInv, RiseInv,
         phase = "block", pending = {}, idx = Len(func[blk].insts) + 1
  PROVE  \E h \in Chains(blk) : StartsAbove(blk, h) /\ h[idx] = cur_state
<1> DEFINE n == Len(func[blk].insts)
           h == [k \in 1 .. n + 1 |-> IF k = n + 1 THEN cur_state ELSE inst_state_in[<<blk, k>>]]
<1>1. /\ func \in Functions /\ blk \in Blocks(func)
      /\ n \in Nat \ {0}
      /\ cur_state \in Kept
      /\ \A k \in 1 .. n : inst_state_in[<<blk, k>>] \in Kept
  BY FunctionFacts DEF TypeOK, RiseInv
<1> HIDE DEF n
<1>2. h \in [1 .. n + 1 -> Kept]
  BY <1>1
<1>3. /\ h[n + 1] = cur_state
      /\ \A k \in 1 .. n : h[k] = inst_state_in[<<blk, k>>]
  BY <1>1
<1>4. Underway /\ InState = inst_state_in[<<blk, 1>>] /\ idx = n + 1
  BY <1>1 DEF RoundInv, InState, n
<1> HIDE DEF h
<1>5. blk = 1 => h[1] = EmptyState
  BY <1>1, <1>3, <1>4 DEF Underway
<1>6. ASSUME NEW k \in 1 .. n
      PROVE  h[k + 1] = FlowState(func[blk].insts[k], h[k])
  <2>1. CASE k = n
    BY <1>1, <1>3, <1>4, <2>1 DEF Underway
  <2>2. CASE k # n
    <3>1. k \in 1 .. idx - 2 /\ k + 1 \in 1 .. n
      BY <1>1, <1>4, <2>2
    <3>2. inst_state_in[<<blk, k + 1>>] = FlowState(func[blk].insts[k], inst_state_in[<<blk, k>>])
      BY <1>4, <3>1 DEF Underway
    <3> QED BY <1>3, <3>1, <3>2
  <2> QED BY <2>1, <2>2
<1>7. h \in Chains(blk)
  BY <1>2, <1>5, <1>6 DEF Chains, n
<1>8. StartsAbove(blk, h)
  BY <1>1, <1>3, <1>4 DEF Underway, StartsAbove
<1> QED BY <1>3, <1>4, <1>7, <1>8

(* A block that has been interpreted leaves an out state above the one it  *)
(* left before.                                                            *)
LEMMA OutStateRises ==
  ASSUME TypeOK, RoundInv, RiseInv,
         phase = "block", pending = {}, idx = Len(func[blk].insts) + 1
  PROVE  StateLeq(bb_state[blk], cur_state)
BY InterpretedChain DEF RiseInv, BelowNext, TypeOK

(* The invariant is inductive: one step per action.                        *)
LEMMA RiseInvInductive ==
  ASSUME Monotone, TypeOK, TypeOK', RoundInv, RoundInv',
         MergedNoFurther, MergedNoFurther', RiseInv, [Next]_vars
  PROVE  RiseInv'
<1>1. CASE SetInitialStates
  <2>1. /\ phase' = "round" /\ UNCHANGED func
        /\ bb_state' = [b \in Blocks(func) |-> EmptyState]
        /\ func \in Functions
    BY <1>1 DEF SetInitialStates, TypeOK
  <2>2. ASSUME NEW b \in Blocks(func)
        PROVE  (bb_state[b] \in Kept /\ BelowNext(b))'
    <3>1. bb_state'[b] = EmptyState
      BY <2>1, <2>2
    <3>2. ASSUME NEW h \in Chains(b)'
          PROVE  StateLeq(bb_state'[b], h[Len(func[b].insts) + 1])
      <4>1. h \in Chains(b)
        BY <2>1, <3>2 DEF Chains
      <4>2. h[Len(func[b].insts) + 1] \in Kept
        BY <2>1, <2>2, <4>1, FunctionFacts, ChainFacts
      <4> QED BY <3>1, <4>2, StateLeqFacts DEF Monotone
    <3> QED BY <2>1, <3>1, <3>2 DEF BelowNext, Monotone
  <2> QED BY <2>1, <2>2 DEF RiseInv, Blocks
<1>2. CASE StartRound
  <2>1. /\ phase = "round" /\ phase' = "block" /\ UNCHANGED <<func, bb_state>>
        /\ pending' = {} /\ idx' = 1 /\ blk' = 1 /\ cur_state' = EmptyState
    BY <1>2 DEF StartRound, EnterBlock
  <2>2. \A b \in Blocks(func)' : (bb_state[b] \in Kept /\ BelowNext(b))'
    BY <2>1 DEF RiseInv, BelowNext, StartsAbove, Chains, Blocks
  <2>3. ASSUME NEW h \in Chains(blk)'
        PROVE  StateLeq(cur_state', h[1])
    <3>1. h \in Chains(1) /\ 1 \in Blocks(func) /\ func \in Functions
      BY <2>1, <2>3, FunctionFacts DEF Chains, TypeOK, Blocks
    <3>2. h[1] \in StateOver(Name)
      BY <3>1, FunctionFacts, ChainFacts DEF Monotone
    <3> QED BY <2>1, <3>2, StateLeqFacts
  <2> QED BY <2>1, <2>2, <2>3 DEF RiseInv, Monotone
<1>3. ASSUME NEW p \in pending, MergePredecessorState(p)
      PROVE  RiseInv'
  <2>1. /\ phase = "block" /\ phase' = "block"
        /\ UNCHANGED <<func, bb_state, inst_state_in, changed, blk, idx>>
        /\ pending' = pending \ {p}
        /\ cur_state' = MergeStates(cur_state, bb_state[p])
    BY <1>3 DEF MergePredecessorState
  <2>2. /\ Underway /\ ~ (idx > 1) /\ blk # 1 /\ idx = 1
        /\ func \in Functions /\ blk \in Blocks(func)
        /\ p \in Blocks(func)
        /\ Len(func[blk].insts) \in Nat \ {0}
    BY <1>3, <2>1, FunctionFacts DEF TypeOK, RoundInv, Underway
  <2>3. cur_state' \in Kept
    BY <2>1, <2>2 DEF RiseInv, Monotone
  <2>4. \A b \in Blocks(func)' : (bb_state[b] \in Kept /\ BelowNext(b))'
    BY <2>1 DEF RiseInv, BelowNext, StartsAbove, Chains, Blocks
  <2>5. ASSUME pending' = {}, NEW h \in Chains(blk)', StartsAbove(blk, h)'
        PROVE  StateLeq(cur_state', h[1])
    <3>1. h \in Chains(blk)
      BY <2>1, <2>5 DEF Chains
    <3>2. h[1] \in StateOver(Name)
      BY <2>2, <3>1, ChainFacts DEF Monotone
    <3>3. \A q \in func[blk].preds : StateLeq(bb_state[q], h[1])
      BY <2>1, <2>2, <2>5 DEF StartsAbove
    <3>4. LeastAbove(InState, func[blk].preds \ pending)'
      BY <2>1, <2>2 DEF MergedNoFurther
    <3> QED BY <2>1, <2>2, <2>5, <3>2, <3>3, <3>4 DEF LeastAbove, InState
  <2> QED BY <2>1, <2>2, <2>3, <2>4, <2>5 DEF RiseInv
<1>4. CASE InterpretInst
  <2>1. /\ phase = "block" /\ phase' = "block" /\ pending = {}
        /\ UNCHANGED <<func, bb_state, changed, blk, pending>>
        /\ ~ FlowAborts(func[blk].insts[idx], cur_state)
        /\ inst_state_in' = [inst_state_in EXCEPT ![<<blk, idx>>] = cur_state]
        /\ cur_state' = FlowState(func[blk].insts[idx], cur_state)
        /\ idx' = idx + 1
    BY <1>4 DEF InterpretInst, Interpreting
  <2>2. /\ func \in Functions /\ blk \in Blocks(func)
        /\ idx \in 1 .. Len(func[blk].insts)
        /\ Len(func[blk].insts) \in Nat \ {0}
        /\ func[blk].insts[idx] \in Inst
        /\ inst_state_in \in [Points(func) -> StateOver(Name)]
        /\ cur_state \in Kept
    BY <1>4, FunctionFacts DEF InterpretInst, Interpreting, TypeOK, RiseInv
  <2>3. cur_state' \in Kept
    BY <2>1, <2>2 DEF Monotone
  <2>4. ASSUME NEW k \in 1 .. idx' - 1
        PROVE  inst_state_in'[<<blk, k>>] \in Kept
    <3>1. <<blk, k>> \in Points(func) /\ <<blk, idx>> \in Points(func)
      BY <2>1, <2>2, <2>4, PointFacts
    <3>2. k = idx \/ k \in 1 .. idx - 1
      BY <2>1, <2>2, <2>4
    <3> QED BY <2>1, <2>2, <3>1, <3>2 DEF RiseInv
  <2>5. \A b \in Blocks(func)' : (bb_state[b] \in Kept /\ BelowNext(b))'
    BY <2>1 DEF RiseInv, BelowNext, StartsAbove, Chains, Blocks
  <2>6. ASSUME NEW h \in Chains(blk)', StartsAbove(blk, h)'
        PROVE  StateLeq(cur_state', h[idx'])
    <3>1. h \in Chains(blk) /\ StartsAbove(blk, h)
      BY <2>1, <2>6 DEF Chains, StartsAbove
    <3>2. /\ h[idx] \in Kept
          /\ h[idx + 1] = FlowState(func[blk].insts[idx], h[idx])
      BY <2>2, <3>1, ChainFacts
    <3>3. StateLeq(cur_state, h[idx])
      BY <2>1, <3>1 DEF RiseInv
    <3> QED BY <2>1, <2>2, <3>2, <3>3 DEF Monotone
  <2> QED BY <2>1, <2>3, <2>4, <2>5, <2>6 DEF RiseInv
<1>5. CASE Abort
  BY <1>5 DEF Abort, RiseInv
<1>6. CASE SetOutState
  <2>1. /\ phase = "block" /\ pending = {} /\ idx = Len(func[blk].insts) + 1
        /\ bb_state' = [bb_state EXCEPT ![blk] = cur_state]
        /\ UNCHANGED <<func, inst_state_in>>
        /\ func \in Functions /\ blk \in Blocks(func)
        /\ Len(func) \in Nat \ {0}
        /\ bb_state \in [Blocks(func) -> StateOver(Name)]
        /\ cur_state \in StateOver(Name) /\ cur_state \in Kept
        /\ Len(func[blk].insts) \in Nat \ {0}
    <3>1. /\ phase = "block" /\ pending = {} /\ idx > Len(func[blk].insts)
          /\ bb_state' = [bb_state EXCEPT ![blk] = cur_state]
          /\ UNCHANGED <<func, inst_state_in>>
      BY <1>6 DEF SetOutState
    <3>2. /\ func \in Functions /\ blk \in Blocks(func)
          /\ idx \in 1 .. Len(func[blk].insts) + 1
          /\ bb_state \in [Blocks(func) -> StateOver(Name)]
          /\ cur_state \in StateOver(Name) /\ cur_state \in Kept
      BY <3>1 DEF TypeOK, RiseInv
    <3>3. Len(func) \in Nat \ {0} /\ Len(func[blk].insts) \in Nat \ {0}
      BY <3>2, FunctionFacts
    <3> QED BY <3>1, <3>2, <3>3
  <2>2. StateLeq(bb_state[blk], cur_state)
    BY <2>1, OutStateRises
  <2>3. ASSUME NEW b \in Blocks(func)
        PROVE  /\ bb_state[b] \in StateOver(Name) /\ bb_state'[b] \in Kept
               /\ StateLeq(bb_state[b], bb_state'[b])
    BY <2>1, <2>2, <2>3, StateLeqFacts DEF RiseInv
  <2>4. ASSUME NEW b \in Blocks(func), NEW h \in Chains(b)', StartsAbove(b, h)'
        PROVE  StateLeq(bb_state'[b], h[Len(func[b].insts) + 1])
    <3>1. h \in Chains(b) /\ h[1] \in StateOver(Name)
      BY <2>1, <2>4, FunctionFacts, ChainFacts DEF Chains, Monotone
    <3>2. StartsAbove(b, h)
      <4>1. ASSUME b # 1, NEW p \in func[b].preds
            PROVE  StateLeq(bb_state[p], h[1])
        <5>1. p \in Blocks(func)
          BY <2>1, <2>4, <4>1, FunctionFacts
        <5>2. StateLeq(bb_state'[p], h[1])
          BY <2>1, <2>4, <4>1 DEF StartsAbove
        <5> QED BY <2>3, <3>1, <5>1, <5>2, StateLeqTransitive DEF Monotone
      <4> QED BY <4>1 DEF StartsAbove
    <3>3. CASE b = blk
      BY <2>1, <3>1, <3>2, <3>3 DEF RiseInv
    <3>4. CASE b # blk
      BY <2>1, <2>4, <3>1, <3>2, <3>4 DEF RiseInv, BelowNext
    <3> QED BY <3>3, <3>4
  <2>5. \A b \in Blocks(func)' : (bb_state[b] \in Kept /\ BelowNext(b))'
    BY <2>1, <2>3, <2>4 DEF BelowNext, Blocks
  <2>6. CASE blk < Len(func)
    <3>1. /\ phase' = "block" /\ blk' = blk + 1 /\ idx' = 1 /\ cur_state' = EmptyState
          /\ blk + 1 \in Blocks(func)
      BY <1>6, <2>1, <2>6 DEF SetOutState, EnterBlock, Blocks
    <3>2. ASSUME NEW h \in Chains(blk)'
          PROVE  StateLeq(cur_state', h[1])
      <4>1. h \in Chains(blk + 1)
        BY <2>1, <3>1, <3>2 DEF Chains
      <4>2. Len(func[blk + 1].insts) \in Nat \ {0}
        BY <2>1, <3>1, FunctionFacts
      <4>3. h[1] \in StateOver(Name)
        BY <4>1, <4>2, ChainFacts DEF Monotone
      <4> QED BY <3>1, <4>3, StateLeqFacts
    <3> QED BY <2>5, <3>1, <3>2 DEF RiseInv, Monotone
  <2>7. CASE ~ (blk < Len(func))
    <3>1. phase' = "round"
      BY <1>6, <2>7 DEF SetOutState
    <3> QED BY <2>5, <3>1 DEF RiseInv
  <2> QED BY <2>6, <2>7
<1>7. CASE Finish
  BY <1>7 DEF Finish, RiseInv
<1>8. CASE UNCHANGED vars
  BY <1>8 DEF vars, RiseInv, BelowNext, StartsAbove, Chains, Blocks
<1> QED
  BY <1>1, <1>2, <1>3, <1>4, <1>5, <1>6, <1>7, <1>8 DEF Next, Stopped

(* For a monotone analysis no step lowers the out state of a block, in     *)
(* whatever order its predecessors are merged and although a block may be  *)
(* interpreted between two changes of them (AbstractInterpretation.h:97).  *)
THEOREM OutStatesOnlyRise == ASSUME Monotone PROVE Spec => OutStatesRise
<1> DEFINE Rise == phase = "block" =>
                     \A b \in Blocks(func) : StateLeq(bb_state[b], bb_state'[b])
<1>1. Init => RiseInv
  BY DEF Init, RiseInv
<1>2. ASSUME TypeOK, RoundInv, RiseInv, [Next]_vars
      PROVE  [Rise]_vars
  <2> SUFFICES ASSUME phase = "block", NEW b \in Blocks(func)
               PROVE  StateLeq(bb_state[b], bb_state'[b])
    OBVIOUS
  <2>1. /\ func \in Functions /\ bb_state[b] \in StateOver(Name)
        /\ bb_state \in [Blocks(func) -> StateOver(Name)]
    BY <1>2 DEF TypeOK
  <2>2. CASE SetOutState
    <3>1. /\ pending = {} /\ idx = Len(func[blk].insts) + 1
          /\ bb_state' = [bb_state EXCEPT ![blk] = cur_state]
      <4>1. /\ pending = {} /\ idx > Len(func[blk].insts)
            /\ bb_state' = [bb_state EXCEPT ![blk] = cur_state]
            /\ blk \in Blocks(func) /\ idx \in 1 .. Len(func[blk].insts) + 1
        BY <1>2, <2>2 DEF SetOutState, TypeOK
      <4>2. Len(func[blk].insts) \in Nat
        BY <2>1, <4>1, FunctionFacts
      <4> QED BY <4>1, <4>2
    <3> QED BY <1>2, <2>1, <3>1, OutStateRises, StateLeqFacts
  <2>3. CASE UNCHANGED bb_state
    BY <2>1, <2>3, StateLeqFacts
  <2>4. SetOutState \/ UNCHANGED bb_state
    BY <1>2 DEF Next, vars, SetInitialStates, StartRound, MergePredecessorState,
                InterpretInst, Abort, Finish, Stopped
  <2> QED BY <2>2, <2>3, <2>4
<1>3. Spec => []RiseInv
  BY <1>1, RiseInvInductive, TypeCorrect, RoundsSolve, MergesNoFurther, PTL DEF Spec
<1> QED BY <1>2, <1>3, TypeCorrect, RoundsSolve, PTL DEF Spec, OutStatesRise
===============================================================================
