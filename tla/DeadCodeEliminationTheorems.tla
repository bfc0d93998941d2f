---------------------- MODULE DeadCodeEliminationTheorems ----------------------
(***************************************************************************)
(* What ai_dce erases, for every function: exactly what no instruction     *)
(* reads.  And that its out states rise, as those of any analysis that is  *)
(* monotone on the states it keeps to.                                     *)
(***************************************************************************)
EXTENDS DeadCodeElimination, WellFoundedInduction, TLAPS

\* State s knows the first k instructions of block b: what they read is used,
\* and what they compute is known.
Recorded(s, b, k) ==
  \A j \in 1 .. k :
    LET i == func[b].insts[j] IN
    /\ \A n \in Uses(i) : n \in DOMAIN s /\ s[n] = Used
    /\ i.name # Unnamed => i.name \in DOMAIN s

\* State s calls nothing used that no instruction reads.
Quiet(s) == \A n \in DOMAIN s : n \notin Mentioned(func) => s[n] = Unused

(* The invariant: no state calls a name used that no instruction reads,    *)
(* and the states of the blocks interpreted in this round, with that of    *)
(* the block under interpretation, know all that has been interpreted.     *)
RecordInv ==
  /\ phase \in {"start", "round", "block"} => func \in Functions
  /\ phase \in {"round", "block"} =>
       /\ DOMAIN bb_state = Blocks(func)
       /\ \A b \in Blocks(func) : Quiet(bb_state[b])
  /\ phase = "block" =>
       /\ blk \in Blocks(func)
       /\ idx \in 1 .. Len(func[blk].insts) + 1
       /\ pending \subseteq func[blk].preds /\ (idx > 1 => pending = {})
       /\ Quiet(cur_state)
       /\ Recorded(cur_state, blk, idx - 1)
       /\ \A b \in 1 .. blk - 1 : Recorded(bb_state[b], b, Len(func[b].insts))
  /\ phase = "round" /\ ~ changed =>
       \A b \in Blocks(func) : Recorded(bb_state[b], b, Len(func[b].insts))

(* Blocks and instructions of a function, in the terms of Insts(f).        *)
LEMMA FunctionFacts ==
  ASSUME NEW f, WellFormed(f)
  PROVE  /\ Len(f) \in Nat \ {0}
         /\ \A b \in Blocks(f) :
              /\ Len(f[b].insts) \in Nat \ {0}
              /\ f[b].preds \subseteq Blocks(f)
         /\ \A i : i \in Insts(f) <=>
              \E b \in Blocks(f) : \E k \in 1 .. Len(f[b].insts) : i = f[b].insts[k]
<1> DEFINE Block == [insts : Seq(Inst) \ {<<>>}, preds : SUBSET (1 .. Len(f))]
<1>1. f \in Seq(Block) /\ f # <<>>
  BY DEF WellFormed
<1>2. Len(f) \in Nat \ {0} /\ \A b \in Blocks(f) : f[b] \in Block
  <2> HIDE DEF Block
  <2> QED BY <1>1 DEF Blocks
<1>3. ASSUME NEW b \in Blocks(f)
      PROVE  /\ f[b].insts \in Seq(Inst)
             /\ f[b].insts # <<>>
             /\ f[b].preds \subseteq Blocks(f)
  BY <1>2 DEF Blocks
<1>4. ASSUME NEW b \in Blocks(f)
      PROVE  Len(f[b].insts) \in Nat \ {0} /\ DOMAIN f[b].insts = 1 .. Len(f[b].insts)
  BY <1>3
<1>5. ASSUME NEW i
      PROVE  i \in Insts(f) <=>
               \E b \in Blocks(f) : \E k \in 1 .. Len(f[b].insts) : i = f[b].insts[k]
  BY <1>4 DEF Insts, Blocks
<1> QED BY <1>2, <1>3, <1>4, <1>5

(* What an instruction reads is mentioned in its function.                 *)
LEMMA UsesMentioned ==
  ASSUME NEW f, NEW i \in Insts(f)
  PROVE  Uses(i) \subseteq Mentioned(f)
BY DEF Uses, Mentioned

(* A step of flowState() knows its instruction, and all it knew before.    *)
LEMMA FlowRecords ==
  ASSUME NEW s, NEW i
  PROVE  /\ DOMAIN FlowState(i, s) = DOMAIN s \cup Named(i) \cup Uses(i)
         /\ \A n \in Uses(i) : FlowState(i, s)[n] = Used
         /\ \A n \in DOMAIN s \ Uses(i) : FlowState(i, s)[n] = s[n]
         /\ \A n \in Named(i) \ (DOMAIN s \cup Uses(i)) : FlowState(i, s)[n] = Unused
BY DEF FlowState

(* Merging keeps a state quiet.                                            *)
LEMMA MergeIsQuiet ==
  ASSUME NEW A, NEW B, Quiet(A), Quiet(B)
  PROVE  Quiet(MergeStates(A, B))
BY DEF Quiet, MergeStates, LeastUpperBound, Unused

(* The invariant is inductive: one step per action.                        *)
LEMMA RecordInvInductive ==
  ASSUME \A f \in Functions : WellFormed(f)
  PROVE  RecordInv /\ [Next]_vars => RecordInv'
<1> SUFFICES ASSUME RecordInv, [Next]_vars
             PROVE  RecordInv'
  OBVIOUS
<1>f. ASSUME phase = "block"
      PROVE  /\ func \in Functions /\ WellFormed(func)
             /\ blk \in Blocks(func) /\ blk \in Nat /\ Len(func) \in Nat \ {0}
             /\ Blocks(func) = 1 .. Len(func)
             /\ Len(func[blk].insts) \in Nat \ {0} /\ idx \in Nat \ {0}
             /\ pending \subseteq Blocks(func)
  BY <1>f, FunctionFacts DEF RecordInv, Blocks
<1>1. CASE SetInitialStates
  BY <1>1 DEF SetInitialStates, RecordInv, EmptyState, Quiet
<1>2. CASE StartRound
  <2>1. /\ phase = "round" /\ phase' = "block" /\ blk' = 1 /\ idx' = 1
        /\ pending' = {} /\ cur_state' = EmptyState
        /\ UNCHANGED <<func, bb_state>>
    BY <1>2 DEF StartRound, EnterBlock
  <2>2. WellFormed(func) /\ Len(func) \in Nat \ {0} /\ Len(func[1].insts) \in Nat \ {0}
    BY <2>1, FunctionFacts DEF RecordInv, Blocks
  <2>3. Quiet(cur_state)' /\ Recorded(cur_state, blk, idx - 1)'
    BY <2>1 DEF Quiet, Recorded, EmptyState
  <2>4. 1 .. blk' - 1 = {} /\ blk' \in Blocks(func) /\ idx' \in 1 .. Len(func[blk'].insts) + 1
    BY <2>1, <2>2 DEF Blocks
  <2> QED BY <2>1, <2>2, <2>3, <2>4 DEF RecordInv, Quiet, Recorded
<1>3. ASSUME NEW p \in pending, MergePredecessorState(p)
      PROVE  RecordInv'
  <2>1. /\ phase = "block" /\ phase' = "block"
        /\ UNCHANGED <<func, bb_state, changed, blk, idx>>
        /\ pending' = pending \ {p}
        /\ cur_state' = MergeStates(cur_state, bb_state[p])
    BY <1>3 DEF MergePredecessorState
  <2>2. Quiet(cur_state) /\ Quiet(bb_state[p])
    BY <2>1, <1>f DEF RecordInv
  <2>3. Quiet(cur_state)'
    BY <2>1, <2>2, MergeIsQuiet DEF Quiet
  <2>4. idx = 1
    BY <1>3, <2>1, <1>f DEF RecordInv
  <2>5. Recorded(cur_state, blk, idx - 1)'
    BY <2>1, <2>4 DEF Recorded
  <2> QED
    BY <2>1, <2>3, <2>4, <2>5 DEF RecordInv, Recorded, Quiet
<1>4. CASE InterpretInst
  <2> DEFINE i == func[blk].insts[idx]
             s == FlowState(i, cur_state)
  <2>1. /\ phase = "block" /\ phase' = "block" /\ pending = {}
        /\ UNCHANGED <<func, bb_state, changed, blk, pending>>
        /\ cur_state' = FlowState(i, cur_state)
        /\ idx' = idx + 1 /\ idx <= Len(func[blk].insts)
    BY <1>4 DEF InterpretInst, Interpreting
  <2>2. i \in Insts(func) /\ Uses(i) \subseteq Mentioned(func)
    <3>1. idx \in 1 .. Len(func[blk].insts)
      BY <2>1, <1>f
    <3>2. i \in Insts(func)
      BY <2>1, <1>f, <3>1, FunctionFacts
    <3> QED BY <3>2, UsesMentioned
  <2>f. /\ DOMAIN s = DOMAIN cur_state \cup Named(i) \cup Uses(i)
        /\ \A n \in Uses(i) : s[n] = Used
        /\ \A n \in DOMAIN cur_state \ Uses(i) : s[n] = cur_state[n]
        /\ \A n \in Named(i) \ (DOMAIN cur_state \cup Uses(i)) : s[n] = Unused
    BY FlowRecords
  <2>n. i.name # Unnamed => i.name \in Named(i)
    BY DEF Named
  <2>i. func[blk].insts[idx] = i /\ cur_state' = s
    BY <2>1
  <2> HIDE DEF i, s
  <2>3. Quiet(cur_state) /\ Recorded(cur_state, blk, idx - 1)
    BY <2>1 DEF RecordInv
  <2>4. Quiet(cur_state)'
    <3>1. ASSUME NEW n \in DOMAIN s, n \notin Mentioned(func)
          PROVE  s[n] = Unused
      <4>1. n \notin Uses(i) /\ n \in DOMAIN cur_state \cup Named(i)
        BY <2>2, <3>1, <2>f
      <4>2. CASE n \in DOMAIN cur_state
        BY <2>3, <3>1, <4>1, <4>2, <2>f DEF Quiet
      <4>3. CASE n \notin DOMAIN cur_state
        BY <4>1, <4>3, <2>f
      <4> QED BY <4>2, <4>3
    <3> QED BY <2>1, <2>i, <3>1 DEF Quiet
  <2>5. Recorded(cur_state, blk, idx - 1)'
    <3>1. ASSUME NEW j \in 1 .. idx
          PROVE  /\ \A n \in Uses(func[blk].insts[j]) :
                      n \in DOMAIN s /\ s[n] = Used
                 /\ func[blk].insts[j].name # Unnamed =>
                      func[blk].insts[j].name \in DOMAIN s
      <4>1. CASE j = idx
        BY <4>1, <2>i, <2>f, <2>n
      <4>2. CASE j # idx
        <5>1. j \in 1 .. idx - 1
          BY <2>1, <1>f, <3>1, <4>2
        <5>2. /\ \A n \in Uses(func[blk].insts[j]) : n \in DOMAIN cur_state /\ cur_state[n] = Used
              /\ func[blk].insts[j].name # Unnamed => func[blk].insts[j].name \in DOMAIN cur_state
          BY <2>3, <5>1 DEF Recorded
        <5>3. \A n \in DOMAIN cur_state : cur_state[n] = Used => s[n] = Used
          BY <2>f
        <5>4. DOMAIN cur_state \subseteq DOMAIN s
          BY <2>f
        <5> QED BY <5>2, <5>3, <5>4
      <4> QED BY <4>1, <4>2
    <3>2. 1 .. idx' - 1 = 1 .. idx
      BY <2>1, <1>f
    <3> QED BY <2>1, <2>i, <3>1, <3>2 DEF Recorded
  <2>6. idx' \in 1 .. Len(func[blk].insts) + 1
    BY <2>1, <1>f
  <2> QED
    BY <2>1, <2>4, <2>5, <2>6 DEF RecordInv, Recorded, Quiet
<1>5. CASE Abort
  BY <1>5 DEF Abort, RecordInv
<1>6. CASE SetOutState
  <2>1. /\ phase = "block" /\ pending = {} /\ idx > Len(func[blk].insts)
        /\ bb_state' = [bb_state EXCEPT ![blk] = cur_state]
        /\ UNCHANGED func
    BY <1>6 DEF SetOutState
  <2>2. idx - 1 = Len(func[blk].insts)
    BY <2>1, <1>f DEF RecordInv
  <2>3. /\ DOMAIN bb_state' = Blocks(func)
        /\ bb_state'[blk] = cur_state
        /\ \A b \in Blocks(func) \ {blk} : bb_state'[b] = bb_state[b]
    BY <2>1, <1>f DEF RecordInv
  <2>4. \A b \in Blocks(func) : Quiet(bb_state[b])'
    BY <2>1, <2>3 DEF RecordInv, Quiet
  <2>5. ASSUME NEW b \in 1 .. blk
        PROVE  Recorded(bb_state'[b], b, Len(func[b].insts))
    <3>1. CASE b = blk
      BY <2>1, <2>2, <2>3, <3>1 DEF RecordInv
    <3>2. CASE b # blk
      <4>1. b \in 1 .. blk - 1 /\ b \in Blocks(func) \ {blk}
        BY <2>1, <1>f, <2>5, <3>2
      <4> QED BY <2>1, <2>3, <4>1 DEF RecordInv
    <3> QED BY <3>1, <3>2
  <2>6. CASE blk < Len(func)
    <3>1. /\ phase' = "block" /\ blk' = blk + 1 /\ idx' = 1
          /\ pending' = func[blk'].preds /\ cur_state' = EmptyState
      BY <1>6, <2>1, <1>f, <2>6 DEF SetOutState, EnterBlock
    <3>2. Quiet(cur_state)' /\ Recorded(cur_state, blk, idx - 1)'
      BY <3>1 DEF Quiet, Recorded, EmptyState
    <3>3. blk' \in Blocks(func) /\ 1 .. blk' - 1 = 1 .. blk
      BY <2>1, <1>f, <2>6, <3>1
    <3>4. idx' \in 1 .. Len(func[blk'].insts) + 1
      BY <2>1, <1>f, <3>1, <3>3, FunctionFacts
    <3> QED
      BY <2>1, <1>f, <2>3, <2>4, <2>5, <3>1, <3>2, <3>3, <3>4 DEF RecordInv, Recorded, Blocks
  <2>7. CASE ~ (blk < Len(func))
    <3>1. phase' = "round" /\ Blocks(func) = 1 .. blk
      BY <1>6, <2>1, <1>f, <2>7 DEF SetOutState
    <3> QED
      BY <2>1, <1>f, <2>3, <2>4, <2>5, <3>1 DEF RecordInv, Recorded, Blocks
  <2> QED BY <2>6, <2>7
<1>7. CASE Finish
  BY <1>7 DEF Finish, RecordInv
<1>8. CASE UNCHANGED vars
  BY <1>8 DEF vars, RecordInv, Recorded, Quiet, Blocks
<1> QED
  BY <1>1, <1>2, <1>3, <1>4, <1>5, <1>6, <1>7, <1>8 DEF Next, Stopped

(* In the invariant's states, where the loop has ended, Unused is what no  *)
(* instruction reads.                                                      *)
LEMMA RecordsTellTheUnused ==
  ASSUME \A f \in Functions : WellFormed(f), RecordInv
  PROVE  ErasesTheUnused
<1> SUFFICES ASSUME phase = "round", ~ changed, NEW i \in Insts(func)
             PROVE  Erased(i, bb_state) <=> /\ i.op \notin {"store", "phi", "call", "ret"}
                                            /\ i.name # Unnamed
                                            /\ i.name \notin Mentioned(func)
  BY DEF ErasesTheUnused
<1>1. /\ func \in Functions /\ WellFormed(func)
      /\ DOMAIN bb_state = Blocks(func)
      /\ \A b \in Blocks(func) : Quiet(bb_state[b])
      /\ \A b \in Blocks(func) : Recorded(bb_state[b], b, Len(func[b].insts))
  BY DEF RecordInv
<1>2. ASSUME i.name # Unnamed, i.name \notin Mentioned(func)
      PROVE  IsUnused(i.name, bb_state)
  <2>1. PICK b \in Blocks(func) : \E k \in 1 .. Len(func[b].insts) : i = func[b].insts[k]
    BY <1>1, FunctionFacts
  <2>2. i.name \in DOMAIN bb_state[b]
    BY <1>1, <1>2, <2>1 DEF Recorded
  <2>3. \A e \in KnownAs(i.name, bb_state) : e = Unused
    BY <1>1, <1>2 DEF KnownAs, Quiet
  <2>4. bb_state[b][i.name] \in KnownAs(i.name, bb_state)
    BY <1>1, <2>1, <2>2 DEF KnownAs
  <2> QED BY <2>3, <2>4 DEF IsUnused, Leq, Unused
<1>3. ASSUME i.name # Unnamed, i.name \in Mentioned(func)
      PROVE  ~ IsUnused(i.name, bb_state)
  <2>1. PICK j \in Insts(func) : i.name \in Uses(j)
    BY <1>3 DEF Mentioned, Uses
  <2>2. PICK b \in Blocks(func) : \E k \in 1 .. Len(func[b].insts) : j = func[b].insts[k]
    BY <1>1, FunctionFacts
  <2>3. i.name \in DOMAIN bb_state[b] /\ bb_state[b][i.name] = Used
    BY <1>1, <2>1, <2>2 DEF Recorded
  <2>4. Used \in KnownAs(i.name, bb_state)
    BY <1>1, <2>2, <2>3 DEF KnownAs
  <2> QED BY <2>4 DEF IsUnused, Leq, Used, Unused
<1> QED BY <1>2, <1>3 DEF Erased

(* ai_dce erases an instruction without side effects exactly if its name   *)
(* is no operand of any instruction, in every function.                    *)
THEOREM ErasesExactlyTheUnused ==
  ASSUME \A f \in Functions : WellFormed(f)
  PROVE  Spec => []ErasesTheUnused
<1>1. Init => RecordInv
  BY DEF Init, RecordInv
<1>2. RecordInv => ErasesTheUnused
  BY RecordsTellTheUnused
<1> QED BY <1>1, <1>2, RecordInvInductive, PTL DEF Spec
-----------------------------------------------------------------------------
(* Induction over the naturals, for a set: its least non-member would have *)
(* a member before it.                                                     *)
LEMMA NaturalInduction ==
  ASSUME NEW T, 0 \in T, \A n \in Nat : n \in T => n + 1 \in T
  PROVE  Nat \subseteq T
<1> SUFFICES ASSUME ~ (Nat \subseteq T) PROVE FALSE
  OBVIOUS
<1> DEFINE U == Nat \ T
<1>1. U \subseteq Nat /\ U # {}
  OBVIOUS
<1>2. PICK n \in U : \A m \in U : n <= m
  <2> DEFINE R == OpToRel(<, Nat)
  <2>0. IsWellFoundedOn(R, Nat)
    BY NatLessThanWellFounded
  <2>1. PICK n \in U : \A m \in U : <<m, n>> \notin R
    <3> HIDE DEF R, U
    <3> QED BY <1>1, <2>0, WFMin
  <2>2. \A m \in U : ~ (m < n)
    BY <2>1 DEF OpToRel
  <2> QED BY <2>2
<1>3. n # 0 /\ n - 1 \in Nat
  BY <1>2
<1>4. n - 1 \in T
  BY <1>2, <1>3
<1> QED BY <1>2, <1>3, <1>4

(* What postprocess() leaves of a block, instruction by instruction: that   *)
(* the recursion has a solution.                                           *)
LEMMA RemainingSteps ==
  ASSUME NEW S, NEW s \in Seq(S), NEW out
  PROVE  \E left : /\ left[0] = <<>> /\ Remaining(s, out) = left[Len(s)]
                   /\ \A k \in 1 .. Len(s) :
                        left[k] = IF Erased(s[k], out) THEN left[k - 1]
                                  ELSE Append(left[k - 1], s[k])
<1> DEFINE Step(f, k) == IF k = 0 THEN <<>>
                         ELSE IF Erased(s[k], out) THEN f[k - 1]
                         ELSE Append(f[k - 1], s[k])
           left[k \in 0 .. Len(s)] == IF k = 0 THEN <<>>
                                      ELSE IF Erased(s[k], out) THEN left[k - 1]
                                      ELSE Append(left[k - 1], s[k])
           T == {n \in Nat : \E f : f = [k \in 0 .. n |-> Step(f, k)]}
<1>0. Len(s) \in Nat
  OBVIOUS
<1>1. 0 \in T
  <2>1. [k \in 0 .. 0 |-> <<>>] = [k \in 0 .. 0 |-> Step([k1 \in 0 .. 0 |-> <<>>], k)]
    OBVIOUS
  <2> QED BY <2>1
<1>2. ASSUME NEW n \in Nat, n \in T PROVE n + 1 \in T
  <2>1. PICK f : f = [k \in 0 .. n |-> Step(f, k)]
    BY <1>2
  <2> DEFINE g == [k \in 0 .. n + 1 |-> IF k = n + 1 THEN Step(f, k) ELSE f[k]]
  <2>2. \A k \in 0 .. n + 1 : g[k] = Step(g, k)
    <3>1. \A k \in 0 .. n : f[k] = Step(f, k)
      <4> HIDE DEF Step
      <4> QED BY <2>1
    <3>2. ASSUME NEW k \in 0 .. n + 1, k # 0 PROVE g[k-1] = f[k-1]
      BY <3>2
    <3>3. ASSUME NEW k \in 0 .. n + 1 PROVE g[k] = Step(g, k)
      <4>1. g[k] = Step(f, k)
        <5> HIDE DEF Step
        <5> QED BY <3>1
      <4> HIDE DEF g
      <4> QED BY <3>2, <4>1
    <3> QED BY <3>3
  <2>3. g = [k \in 0 .. n + 1 |-> Step(g, k)]
    <3> HIDE DEF Step
    <3> QED BY <2>2
  <2> HIDE DEF g
  <2> QED BY <2>3
<1>3. Nat \subseteq T
  <2> HIDE DEF T
  <2> QED BY <1>1, <1>2, NaturalInduction
<1>4. \E f : f = [k \in 0 .. Len(s) |-> Step(f, k)]
  BY <1>0, <1>3
<1>5. left = [k \in 0 .. Len(s) |-> Step(left, k)]
  BY <1>4
<1>6. \A k \in 0 .. Len(s) : left[k] = Step(left, k)
  <2> HIDE DEF Step
  <2> QED BY <1>5
<1>7. Remaining(s, out) = left[Len(s)]
  BY DEF Remaining
<1> HIDE DEF left
<1>8. left[0] = <<>> /\ \A k \in 1 .. Len(s) : left[k] = IF Erased(s[k], out) THEN left[k - 1]
                                                     ELSE Append(left[k - 1], s[k])
  BY <1>0, <1>6
<1> QED BY <1>7, <1>8

(* Where what is left of the first n instructions of s, t, was: all that   *)
(* is not erased is there, in its order.                                   *)
LeftAt(s, out, n, t, p) ==
  /\ \A l \in 1 .. Len(t) : p[l] \in 1 .. n /\ t[l] = s[p[l]] /\ ~ Erased(s[p[l]], out)
  /\ \A l, h \in 1 .. Len(t) : l < h => p[l] < p[h]
  /\ \A k \in 1 .. n : ~ Erased(s[k], out) => \E l \in 1 .. Len(t) : p[l] = k

LEMMA RemainingPlaces ==
  ASSUME NEW S, NEW s \in Seq(S), NEW out
  PROVE  \E p : LeftAt(s, out, Len(s), Remaining(s, out), p)
<1>0. Len(s) \in Nat
  OBVIOUS
<1>1. PICK left : /\ left[0] = <<>> /\ Remaining(s, out) = left[Len(s)]
                  /\ \A k \in 1 .. Len(s) :
                       left[k] = IF Erased(s[k], out) THEN left[k - 1]
                                 ELSE Append(left[k - 1], s[k])
  BY RemainingSteps
<1> DEFINE Right(n) == left[n] \in Seq(S) /\ \E p : LeftAt(s, out, n, left[n], p)
           U == {n \in Nat : n <= Len(s) => Right(n)}
<1>2. Right(0)
  <2>1. left[0] = <<>> /\ <<>> \in Seq(S) /\ Len(<<>>) = 0
    BY <1>1
  <2>2. LeftAt(s, out, 0, <<>>, <<>>)
    BY <2>1 DEF LeftAt
  <2> QED BY <2>1, <2>2
<1>3. ASSUME NEW n \in Nat, Right(n), n + 1 <= Len(s) PROVE Right(n + 1)
  <2>1. n + 1 \in 1 .. Len(s) /\ s[n + 1] \in S /\ (n + 1) - 1 = n
    BY <1>0, <1>3
  <2>2. left[n + 1] = IF Erased(s[n + 1], out) THEN left[n] ELSE Append(left[n], s[n + 1])
    BY <1>1, <2>1
  <2>3. PICK p : LeftAt(s, out, n, left[n], p)
    BY <1>3
  <2>s. 1 .. n + 1 = 1 .. n \cup {n + 1}
    OBVIOUS
  <2>4. CASE Erased(s[n + 1], out)
    <3>1. LeftAt(s, out, n + 1, left[n], p)
      BY <2>3, <2>4, <2>s DEF LeftAt
    <3>2. left[n + 1] = left[n]
      BY <2>2, <2>4
    <3> QED BY <1>3, <3>1, <3>2
  <2>5. CASE ~ Erased(s[n + 1], out)
    <3> DEFINE m == Len(left[n])
               t == left[n + 1]
               q == [l \in 1 .. m + 1 |-> IF l = m + 1 THEN n + 1 ELSE p[l]]
    <3>1. left[n] \in Seq(S) /\ left[n + 1] = Append(left[n], s[n + 1])
      BY <1>3, <2>2, <2>5
    <3>2. /\ t \in Seq(S) /\ Len(t) = m + 1 /\ t[m + 1] = s[n + 1]
          /\ \A l \in 1 .. m : t[l] = left[n][l]
          /\ m \in Nat
      BY <2>1, <3>1
    <3>3. 1 .. m + 1 = 1 .. m \cup {m + 1} /\ (\A l \in 1 .. m : l < m + 1 /\ l # m + 1)
      BY <3>2
    <3>4. q[m + 1] = n + 1 /\ \A l \in 1 .. m : q[l] = p[l]
      BY <3>2
    <3>5. \A l \in 1 .. m : p[l] \in 1 .. n /\ left[n][l] = s[p[l]] /\ ~ Erased(s[p[l]], out)
      BY <2>3 DEF LeftAt
    <3>6. \A l, h \in 1 .. m : l < h => p[l] < p[h]
      BY <2>3 DEF LeftAt
    <3>7. \A k \in 1 .. n : ~ Erased(s[k], out) => \E l \in 1 .. m : p[l] = k
      BY <2>3 DEF LeftAt
    <3> HIDE DEF q, t
    <3>8. \A l \in 1 .. m + 1 : q[l] \in 1 .. n + 1 /\ t[l] = s[q[l]] /\ ~ Erased(s[q[l]], out)
      <4> HIDE DEF m
      <4> QED BY <2>5, <3>2, <3>3, <3>4, <3>5
    <3>9. \A l, h \in 1 .. m + 1 : l < h => q[l] < q[h]
      <4> HIDE DEF m
      <4> TAKE l, h \in 1 .. m + 1
      <4>1. CASE h = m + 1
        BY <3>2, <3>3, <3>4, <3>5, <4>1
      <4>2. CASE h \in 1 .. m
        BY <3>2, <3>3, <3>4, <3>6, <4>2
      <4> QED BY <3>3, <4>1, <4>2
    <3>10. \A k \in 1 .. n + 1 : ~ Erased(s[k], out) => \E l \in 1 .. m + 1 : q[l] = k
      <4> HIDE DEF m
      <4> TAKE k \in 1 .. n + 1
      <4>1. CASE k = n + 1
        BY <3>3, <3>4, <4>1
      <4>2. CASE k \in 1 .. n
        BY <3>3, <3>4, <3>7, <4>2
      <4> QED BY <2>s, <4>1, <4>2
    <3>11. LeftAt(s, out, n + 1, t, q)
      <4> HIDE DEF m
      <4> QED BY <3>2, <3>8, <3>9, <3>10 DEF LeftAt
    <3> QED BY <3>2, <3>11 DEF t
  <2> QED BY <2>4, <2>5
<1>4. Nat \subseteq U
  <2>1. 0 \in U
    BY <1>2
  <2>2. ASSUME NEW n \in Nat, n \in U PROVE n + 1 \in U
    <3> HIDE DEF Right
    <3>1. n + 1 <= Len(s) => n <= Len(s)
      BY <1>0
    <3> QED BY <1>3, <2>2, <3>1
  <2> HIDE DEF U
  <2> QED BY <2>1, <2>2, NaturalInduction
<1> QED BY <1>0, <1>1, <1>4

(* It leaves of a block exactly the instructions it does not erase.        *)
LEMMA RemainingFacts ==
  ASSUME NEW S, NEW s \in Seq(S), NEW out
  PROVE  /\ Remaining(s, out) \in Seq(S)
         /\ \A i : (\E k \in 1 .. Len(Remaining(s, out)) : i = Remaining(s, out)[k])
                     <=> (\E k \in 1 .. Len(s) : i = s[k] /\ ~ Erased(i, out))
<1>0. Len(s) \in Nat
  OBVIOUS
<1>1. PICK left : /\ left[0] = <<>> /\ Remaining(s, out) = left[Len(s)]
                  /\ \A k \in 1 .. Len(s) :
                       left[k] = IF Erased(s[k], out) THEN left[k - 1]
                                 ELSE Append(left[k - 1], s[k])
  BY RemainingSteps
<1>7. Remaining(s, out) = left[Len(s)]
  BY <1>1
<1> DEFINE Has(t, i) == \E k \in 1 .. Len(t) : i = t[k]
           Stays(n, i) == \E k \in 1 .. n : i = s[k] /\ ~ Erased(i, out)
           Right(n) == left[n] \in Seq(S) /\ \A i : Has(left[n], i) <=> Stays(n, i)
           U == {n \in Nat : n <= Len(s) => Right(n)}
<1>8. Right(0)
  <2>1. left[0] = <<>>
    BY <1>1
  <2>2. <<>> \in Seq(S) /\ \A i : ~ Has(<<>>, i)
    OBVIOUS
  <2>3. \A i : ~ Stays(0, i)
    OBVIOUS
  <2> HIDE DEF Has, Stays
  <2> QED BY <2>1, <2>2, <2>3
<1>9. ASSUME NEW n \in Nat, Right(n), n + 1 <= Len(s) PROVE Right(n + 1)
  <2>1. n + 1 \in 1 .. Len(s) /\ s[n + 1] \in S /\ (n + 1) - 1 = n
    BY <1>0, <1>9
  <2>2. left[n + 1] = IF Erased(s[n + 1], out) THEN left[n] ELSE Append(left[n], s[n + 1])
    BY <1>1, <2>1
  <2>3. ASSUME NEW i
        PROVE  Stays(n + 1, i) <=> Stays(n, i) \/ (i = s[n + 1] /\ ~ Erased(i, out))
    OBVIOUS
  <2>4. CASE Erased(s[n + 1], out)
    <3> HIDE DEF Has, Stays
    <3> QED BY <1>9, <2>2, <2>3, <2>4
  <2>5. CASE ~ Erased(s[n + 1], out)
    <3>1. left[n] \in Seq(S) /\ left[n + 1] = Append(left[n], s[n + 1])
      BY <1>9, <2>2, <2>5
    <3>2. /\ left[n + 1] \in Seq(S) /\ Len(left[n + 1]) = Len(left[n]) + 1
          /\ left[n + 1][Len(left[n]) + 1] = s[n + 1]
          /\ \A k \in 1 .. Len(left[n]) : left[n + 1][k] = left[n][k]
          /\ Len(left[n]) \in Nat
      BY <2>1, <3>1
    <3>3. ASSUME NEW i PROVE Has(left[n + 1], i) <=> Has(left[n], i) \/ i = s[n + 1]
      <4> DEFINE l == Len(left[n])
      <4>1. 1 .. Len(left[n + 1]) = 1 .. l \cup {l + 1}
        BY <3>2
      <4> HIDE DEF l
      <4> QED BY <3>2, <4>1 DEF l
    <3> HIDE DEF Has, Stays
    <3> QED BY <1>9, <2>3, <2>5, <3>2, <3>3
  <2> QED BY <2>4, <2>5
<1>10. Len(s) \in U
  <2>1. 0 \in U
    BY <1>8
  <2>2. ASSUME NEW n \in Nat, n \in U PROVE n + 1 \in U
    <3> HIDE DEF Right
    <3>1. n + 1 <= Len(s) => n <= Len(s)
      BY <1>0
    <3> QED BY <1>9, <2>2, <3>1
  <2> HIDE DEF U
  <2> QED BY <1>0, <2>1, <2>2, NaturalInduction
<1>11. Right(Len(s))
  <2> HIDE DEF Right
  <2> QED BY <1>0, <1>10
<1> QED BY <1>7, <1>11

(* And of a function those of its blocks.                                  *)
LEMMA PostprocessFacts ==
  ASSUME NEW f, WellFormed(f), NEW out, NEW in
  PROVE  \A i : i \in Insts(Postprocess(f, out, in)) <=> i \in Insts(f) /\ ~ Erased(i, out)
<1> DEFINE g == Postprocess(f, out, in)
           Block == [insts : Seq(Inst) \ {<<>>}, preds : SUBSET (1 .. Len(f))]
<1>1. /\ f \in Seq(Block) /\ Len(f) \in Nat /\ DOMAIN f = 1 .. Len(f)
      /\ \A b \in 1 .. Len(f) : f[b] \in Block
  <2>1. f \in Seq(Block)
    BY DEF WellFormed
  <2> HIDE DEF Block
  <2> QED BY <2>1
<1>2. g = [b \in 1 .. Len(f) |-> [f[b] EXCEPT !.insts = Remaining(@, out)]]
  BY <1>1 DEF Postprocess
<1>3. Len(g) = Len(f)
  <2> DEFINE S == {g[b] : b \in 1 .. Len(f)}
             n == Len(f)
  <2>1. g \in [1 .. n -> S] /\ n \in Nat
    BY <1>1, <1>2
  <2> HIDE DEF g, S, n
  <2>2. g \in Seq(S) /\ Len(g) = n
    BY <2>1
  <2> QED BY <2>2 DEF n
<1>4. ASSUME NEW b \in 1 .. Len(f)
      PROVE  /\ f[b].insts \in Seq(Inst)
             /\ g[b].insts = Remaining(f[b].insts, out)
  <2>1. f[b] \in Block
    BY <1>1
  <2> QED BY <1>2, <2>1
<1> HIDE DEF g
<1>5. ASSUME NEW i
      PROVE  i \in Insts(g) <=>
               \E b \in 1 .. Len(f) : \E k \in 1 .. Len(g[b].insts) : i = g[b].insts[k]
  <2>1. \A b \in 1 .. Len(f) : DOMAIN g[b].insts = 1 .. Len(g[b].insts)
    BY <1>4, RemainingFacts
  <2> DEFINE D(b) == {g[b].insts[k] : k \in DOMAIN g[b].insts}
  <2>2. i \in Insts(g) <=> \E b \in 1 .. Len(f) : i \in D(b)
    BY <1>3 DEF Insts
  <2>3. \A b \in 1 .. Len(f) : i \in D(b) <=> \E k \in 1 .. Len(g[b].insts) : i = g[b].insts[k]
    BY <2>1
  <2> HIDE DEF D
  <2> QED BY <2>2, <2>3
<1>6. ASSUME NEW i
      PROVE  i \in Insts(f) <=>
               \E b \in 1 .. Len(f) : \E k \in 1 .. Len(f[b].insts) : i = f[b].insts[k]
  BY FunctionFacts DEF Blocks
<1>7. ASSUME NEW i, NEW b \in 1 .. Len(f)
      PROVE  (\E k \in 1 .. Len(g[b].insts) : i = g[b].insts[k])
               <=> (\E k \in 1 .. Len(f[b].insts) : i = f[b].insts[k]) /\ ~ Erased(i, out)
  <2> DEFINE t == f[b].insts
  <2>1. t \in Seq(Inst) /\ g[b].insts = Remaining(t, out)
    BY <1>4
  <2> HIDE DEF t
  <2>2. (\E k \in 1 .. Len(Remaining(t, out)) : i = Remaining(t, out)[k])
          <=> (\E k \in 1 .. Len(t) : i = t[k] /\ ~ Erased(i, out))
    BY <2>1, RemainingFacts
  <2> QED BY <2>1, <2>2 DEF t
<1>8. \A i : i \in Insts(g) <=> i \in Insts(f) /\ ~ Erased(i, out)
  BY <1>5, <1>6, <1>7
<1> QED BY <1>8 DEF g

(* Erasing leaves no dangling use: every register that an instruction left *)
(* in the function reads is still computed by one, in every function in    *)
(* which that was so before.  verifyModule() accepts no others: what it    *)
(* lets an instruction read that none computes are constants, arguments,   *)
(* global variables, functions and blocks, none of which are registers.    *)
THEOREM NoDanglingUse ==
  ASSUME \A f \in Functions : WellFormed(f) /\ OperandsComputed(f)
  PROVE  Spec => []OperandsRemain
<1>1. Init => OperandsRemain
  BY DEF Init, OperandsRemain
<1>2. ASSUME RecordInv, OperandsRemain, [Next]_vars
      PROVE  OperandsRemain'
  <2>1. CASE Finish
    <3>1. /\ phase = "round" /\ ~ changed
          /\ func' = Postprocess(func, bb_state, inst_state_in)
          /\ func \in Functions /\ WellFormed(func) /\ OperandsComputed(func)
      BY <1>2, <2>1 DEF Finish, RecordInv
    <3>2. \A i : i \in Insts(func') <=> i \in Insts(func) /\ ~ Erased(i, bb_state)
      BY <3>1, PostprocessFacts
    <3>3. ErasesTheUnused
      BY <1>2, RecordsTellTheUnused
    <3> SUFFICES ASSUME NEW i \in Insts(func'), NEW x \in Operands(i), x.kind = "register"
                 PROVE  \E j \in Insts(func') : j.name = x.name
      BY DEF OperandsRemain, OperandsComputed
    <3>4. i \in Insts(func)
      BY <3>2
    <3>5. PICK j \in Insts(func) : j.name = x.name
      BY <3>1, <3>4 DEF OperandsComputed
    <3>6. x.name \in Mentioned(func)
      BY <3>4 DEF Mentioned
    <3>7. ~ Erased(j, bb_state)
      BY <3>1, <3>3, <3>5, <3>6 DEF ErasesTheUnused
    <3> QED BY <3>2, <3>5, <3>7
  <2>2. CASE phase' = "done" /\ ~ Finish
    <3>1. phase = "done" /\ func' = func
      BY <1>2, <2>2 DEF Next, vars, SetInitialStates, StartRound, MergePredecessorState,
                        InterpretInst, Abort, SetOutState, EnterBlock, Stopped
    <3> QED BY <1>2, <3>1 DEF OperandsRemain, OperandsComputed
  <2>3. CASE phase' # "done"
    BY <2>3 DEF OperandsRemain
  <2> QED BY <2>1, <2>2, <2>3
<1>3. Init => RecordInv
  BY DEF Init, RecordInv
<1>4. RecordInv /\ [Next]_vars => RecordInv'
  BY RecordInvInductive
<1> QED BY <1>1, <1>2, <1>3, <1>4, PTL DEF Spec
-----------------------------------------------------------------------------
\* No state calls a name bottom or top.
KnownStates == UNION {[D -> {Unused, Used}] : D \in SUBSET Name}

Interpreter ==
  INSTANCE AbstractInterpretationTheorems WITH Kept <- KnownStates

LEMMA KnownStateFacts ==
  ASSUME NEW A \in KnownStates
  PROVE  DOMAIN A \subseteq Name /\ \A n \in DOMAIN A : A[n] \in {Unused, Used}
BY DEF KnownStates

LEMMA AnyStateFacts ==
  ASSUME NEW A \in Interpreter!StateOver(Name)
  PROVE  DOMAIN A \subseteq Name /\ \A n \in DOMAIN A : A[n] \in Elem
BY DEF Interpreter!StateOver

(* flowState() only ever adds names of the functions.                      *)
LEMMA NamesOfInst ==
  ASSUME NEW i \in Inst
  PROVE  Uses(i) \subseteq Name /\ Named(i) \subseteq Name
<1>1. PICK f \in Functions : i \in Insts(f)
  BY DEF Inst
<1> QED BY <1>1 DEF Uses, Named, Name, NamesOf

LEMMA FlowKeeps ==
  ASSUME NEW i \in Inst
  PROVE  /\ \A A \in KnownStates : FlowState(i, A) \in KnownStates
         /\ \A A \in Interpreter!StateOver(Name) :
              FlowState(i, A) \in Interpreter!StateOver(Name)
<1>1. ASSUME NEW A \in KnownStates
      PROVE  FlowState(i, A) \in KnownStates
  <2>1. FlowState(i, A) \in [DOMAIN A \cup Named(i) \cup Uses(i) -> {Unused, Used}]
    BY KnownStateFacts DEF FlowState
  <2>2. DOMAIN A \cup Named(i) \cup Uses(i) \in SUBSET Name
    BY KnownStateFacts, NamesOfInst
  <2> QED BY <2>1, <2>2 DEF KnownStates
<1>2. ASSUME NEW A \in Interpreter!StateOver(Name)
      PROVE  FlowState(i, A) \in Interpreter!StateOver(Name)
  <2>1. FlowState(i, A) \in [DOMAIN A \cup Named(i) \cup Uses(i) -> Elem]
    BY AnyStateFacts DEF FlowState, Elem
  <2>2. DOMAIN A \cup Named(i) \cup Uses(i) \in SUBSET Name
    BY AnyStateFacts, NamesOfInst
  <2> QED BY <2>1, <2>2 DEF Interpreter!StateOver
<1> QED BY <1>1, <1>2

(* ai_dce is monotone on the states it keeps to.  It is not on all states: *)
(* a name known as bottom would stay so where one unknown becomes unused.  *)
LEMMA FlowMonotone == Interpreter!Monotone
<1>1. KnownStates \subseteq Interpreter!StateOver(Name)
  BY DEF KnownStates, Interpreter!StateOver, Elem
<1>2. Interpreter!EmptyState \in KnownStates
  BY DEF KnownStates, Interpreter!EmptyState
<1>3. ASSUME NEW A \in KnownStates, NEW B \in KnownStates
      PROVE  Interpreter!MergeStates(A, B) \in KnownStates
  <2>1. Interpreter!MergeStates(A, B) \in [DOMAIN A \cup DOMAIN B -> {Unused, Used}]
    BY KnownStateFacts DEF Interpreter!MergeStates, LeastUpperBound
  <2> QED BY <2>1, KnownStateFacts DEF KnownStates
<1>4. ASSUME NEW i \in Inst, NEW A \in KnownStates, NEW B \in KnownStates,
             Interpreter!StateLeq(A, B)
      PROVE  Interpreter!StateLeq(FlowState(i, A), FlowState(i, B))
  BY <1>4, KnownStateFacts DEF Interpreter!StateLeq, FlowState, Leq, Unused, Used
<1> QED BY <1>1, <1>2, <1>3, <1>4, FlowKeeps DEF Interpreter!Monotone

(* The interpreter the theorem is about is the one ai_dce runs.            *)
LEMMA SameInterpreter ==
  /\ Init => Interpreter!Init
  /\ [Next]_vars => [Interpreter!Next]_(Interpreter!vars)
<1>1. Init => Interpreter!Init
  BY DEF Init, Interpreter!Init, EmptyState, Interpreter!EmptyState
<1>2. SetInitialStates => Interpreter!SetInitialStates
  BY DEF SetInitialStates, Interpreter!SetInitialStates, Blocks, Interpreter!Blocks,
         Points, Interpreter!Points, EmptyState, Interpreter!EmptyState
<1>3. StartRound => Interpreter!StartRound
  BY DEF StartRound, Interpreter!StartRound, EnterBlock, Interpreter!EnterBlock,
         EmptyState, Interpreter!EmptyState
<1>4. \A p : MergePredecessorState(p) => Interpreter!MergePredecessorState(p)
  BY DEF MergePredecessorState, Interpreter!MergePredecessorState,
         MergeStates, Interpreter!MergeStates
<1>5. InterpretInst => Interpreter!InterpretInst
  BY DEF InterpretInst, Interpreter!InterpretInst, Interpreting, Interpreter!Interpreting
<1>6. Abort => Interpreter!Abort
  BY DEF Abort, Interpreter!Abort, Interpreting, Interpreter!Interpreting
<1>7. SetOutState => Interpreter!SetOutState
  BY DEF SetOutState, Interpreter!SetOutState, EnterBlock, Interpreter!EnterBlock,
         EmptyState, Interpreter!EmptyState, RoundChanged, Interpreter!RoundChanged
<1>8. Finish => Interpreter!Finish
  BY DEF Finish, Interpreter!Finish
<1> QED
  BY <1>1, <1>2, <1>3, <1>4, <1>5, <1>6, <1>7, <1>8
  DEF Next, Interpreter!Next, vars, Interpreter!vars, Stopped, Interpreter!Stopped

(* Once ai_dce has seen a register used, or has met it at all, no later    *)
(* round forgets it (MyPasses.cc:879-908), in every function.              *)
THEOREM UsesOnlyRise ==
  ASSUME \A f \in Functions : WellFormed(f)
  PROVE  Spec => OutStatesRise
<1>1. \A f \in Functions : Interpreter!WellFormed(f)
  BY DEF WellFormed, Interpreter!WellFormed
<1>2. \A x, y \in Elem :
        /\ LeastUpperBound(x, y) \in Elem
        /\ Leq(x, LeastUpperBound(x, y))
        /\ Leq(y, LeastUpperBound(x, y))
  BY DEF Elem, Leq, LeastUpperBound, Bottom, Unused, Used, Top
<1>3. \A x, y, u \in Elem : Leq(x, u) /\ Leq(y, u) => Leq(LeastUpperBound(x, y), u)
  BY DEF Elem, Leq, LeastUpperBound, Bottom, Unused, Used, Top
<1>4. /\ \A x \in Elem : Leq(x, x)
      /\ \A x, y, z \in Elem : Leq(x, y) /\ Leq(y, z) => Leq(x, z)
  BY DEF Elem, Leq, Bottom, Unused, Used, Top
<1>5. \A i \in Inst, s \in Interpreter!StateOver(Name) :
        ~ FlowAborts(i, s) => FlowState(i, s) \in Interpreter!StateOver(Name)
  BY FlowKeeps
<1>6. Interpreter!Spec => Interpreter!OutStatesRise
  BY <1>1, <1>2, <1>3, <1>4, <1>5, FlowMonotone, Interpreter!OutStatesOnlyRise
<1>7. [phase = "block" => \A b \in Interpreter!Blocks(func) :
                            Interpreter!StateLeq(bb_state[b], bb_state'[b])]_(Interpreter!vars)
      => [phase = "block" => \A b \in Blocks(func) :
                               StateLeq(bb_state[b], bb_state'[b])]_vars
  BY DEF Interpreter!StateLeq, StateLeq, Interpreter!Blocks, Blocks, Interpreter!vars, vars
<1> QED
  BY <1>6, <1>7, SameInterpreter, PTL
  DEF Spec, Interpreter!Spec, OutStatesRise, Interpreter!OutStatesRise
=============================================================================
