--------------------------- MODULE LatticeTheorems ---------------------------
(***************************************************************************)
(* Merging the out states of the predecessors gives the least upper bound, *)
(* for any number of predecessors; and the rules of flowState() are right  *)
(* and monotone, as far as no result wraps around and no quotient is cut   *)
(* to zero.  Both hold for integers of every width.                        *)
(***************************************************************************)
EXTENDS LatticeMerge, LatticeArithmetic, BasicLatticeTheorems

(* Whatever the predecessors of a block know of a name, and in whatever    *)
(* order they are merged, the in state gets the least upper bound.         *)
THEOREM MergeCorrect == MergeSpec => []MergeIsLeastUpperBound
<1> DEFINE IInv == /\ merged \in Elem
                   /\ seen \subseteq Elem
                   /\ MergeIsLeastUpperBound
<1>1. MergeInit => IInv
  BY LeqFacts, ElementsDiffer DEF MergeInit, MergeIsLeastUpperBound
<1>2. IInv /\ [MergeNext]_mergeVars => IInv'
  <2> SUFFICES ASSUME IInv, [MergeNext]_mergeVars
               PROVE  IInv'
    OBVIOUS
  <2>1. ASSUME NEW x \in Elem, Merge(x)
        PROVE  IInv'
    <3>1. merged' = LeastUpperBound(merged, x) /\ seen' = seen \cup {x}
      BY <2>1 DEF Merge
    <3>2. /\ merged' \in Elem /\ Leq(merged, merged') /\ Leq(x, merged')
          /\ \A z \in Elem : Leq(merged, z) /\ Leq(x, z) => Leq(merged', z)
      BY <3>1, LeastUpperBoundIsLeast
    <3>3. \A y \in seen' : Leq(y, merged')
      BY <3>1, <3>2, LeqIsPartialOrder DEF MergeIsLeastUpperBound
    <3>4. ASSUME NEW u \in Elem, \A y \in seen' : Leq(y, u)
          PROVE  Leq(merged', u)
      BY <3>1, <3>2, <3>4 DEF MergeIsLeastUpperBound
    <3> QED BY <3>1, <3>2, <3>3, <3>4 DEF MergeIsLeastUpperBound
  <2>2. CASE UNCHANGED mergeVars
    BY <2>2 DEF mergeVars, MergeIsLeastUpperBound
  <2> QED BY <2>1, <2>2 DEF MergeNext
<1>3. IInv => MergeIsLeastUpperBound
  OBVIOUS
<1> QED BY <1>1, <1>2, <1>3, PTL DEF MergeSpec

-----------------------------------------------------------------------------
(* The invariant: both elements are of the lattice, describe the int in    *)
(* the register, and are in order.                                         *)
DescribedInv ==
  /\ value \in Value /\ lo \in Elem /\ hi \in Elem
  /\ ValueDescribed
  /\ ArithmeticMonotone

LEMMA DescribedInductive ==
  ASSUME ~ Wraps, ~ Truncates, DescribedInv, [Next]_vars
  PROVE  DescribedInv'
<1> USE DEF DescribedInv, ValueDescribed, ArithmeticMonotone
<1>1. ASSUME NEW op \in ArithOps, NEW w \in Value, NEW f \in Elem, NEW g \in Elem,
             Describes(f, w), Leq(f, g), Arithmetic(op, w, f, g)
      PROVE  DescribedInv'
  <2> DEFINE p == ToSameRank(lo, f)
             q == ToSameRank(hi, g)
             e == Exact(op, value, w)
  <2>1. /\ e \in Value /\ ~ TruncatesToZero(op, value, w)
        /\ op = "sdiv" => w # 0
        /\ op \notin Predicates
        /\ value' = Wrap(e) /\ lo' = Transfer(op, lo, f) /\ hi' = Transfer(op, hi, g)
    BY <1>1 DEF Arithmetic, Defined, ArithOps, Predicates
  <2>2. /\ value' = e
        /\ lo' = Compute(op, p[1], p[2]) /\ hi' = Compute(op, q[1], q[2])
    BY <2>1, WrapKeeps DEF Transfer
  <2>3. /\ OfOneRank(p[1], p[2]) /\ OfOneRank(q[1], q[2])
        /\ Describes(p[1], value) /\ Describes(p[2], w)
        /\ Describes(q[1], value) /\ Describes(q[2], w)
        /\ \/ q[1] = p[1] /\ q[2] = p[2]
           \/ q[1] \in {Any, Top}
           \/ p[1] \in Singles
    BY <1>1, SameRankMonotone
  <2> HIDE DEF p, q, e
  <2>4. /\ lo' \in Elem \ {Bottom, Top} /\ hi' \in Elem \ {Bottom, Top}
        /\ Describes(lo', value') /\ Describes(hi', value')
    BY <2>1, <2>2, <2>3, ComputeSound DEF e
  <2>5. CASE q[1] = p[1] /\ q[2] = p[2]
    BY <2>1, <2>2, <2>4, <2>5, LeqIsPartialOrder
  <2>6. CASE q[1] \in {Any, Top}
    <3>1. hi' = Any
      BY <2>1, <2>2, <2>3, <2>6, ComputeSound DEF e
    <3> QED BY <2>1, <2>2, <2>4, <3>1, LeqFacts
  <2>7. CASE p[1] \in Singles
    <3>1. lo' = SingleValue(value')
      BY <2>1, <2>2, <2>3, <2>7, ComputeSound DEF e
    <3> QED BY <2>1, <2>2, <2>4, <3>1, DescribesIsAbove
  <2> QED BY <2>1, <2>2, <2>3, <2>4, <2>5, <2>6, <2>7
<1>2. ASSUME NEW pred \in Predicates, NEW w \in Value, NEW f \in Elem, NEW g \in Elem,
             Describes(f, w), Leq(f, g), Comparison(pred, w, f, g)
      PROVE  DescribedInv'
  <2> DEFINE p == ToSameRank(lo, f)
             q == ToSameRank(hi, g)
             bit == Bit(Holds(pred, value, w))
  <2>1. /\ value' = bit /\ lo' = Compare(pred, p[1], p[2]) /\ hi' = Compare(pred, q[1], q[2])
    BY <1>2 DEF Comparison, Transfer
  <2>2. bit \in Value
    BY IntRangeAssumption DEF Bit, Value
  <2>3. /\ lo # Bottom /\ hi # Bottom
        /\ OfOneRank(p[1], p[2]) /\ OfOneRank(q[1], q[2])
        /\ Describes(p[1], value) /\ Describes(p[2], w)
        /\ Describes(q[1], value) /\ Describes(q[2], w)
        /\ \/ q[1] = p[1] /\ q[2] = p[2]
           \/ q[1] \in {Any, Top}
           \/ p[1] \in Singles
    BY <1>2, SameRankMonotone
  <2>4. /\ <<p[1], p[2]>> # <<Zero, Zero>>
        /\ <<q[1], q[2]>> # <<Zero, Zero>>
    <3>1. p # <<Zero, Zero>> /\ q # <<Zero, Zero>>
      BY <1>2, <2>3 DEF Comparison, Aborts
    <3>2. p = <<p[1], p[2]>> /\ q = <<q[1], q[2]>>
      BY DEF ToSameRank
    <3> QED BY <3>1, <3>2
  <2> HIDE DEF p, q, bit
  <2>5. /\ lo' \in Elem \ {Bottom, Top} /\ hi' \in Elem \ {Bottom, Top}
        /\ Describes(lo', value') /\ Describes(hi', value')
    BY <2>1, <2>3, <2>4, CompareSound DEF bit
  <2>6. CASE q[1] = p[1] /\ q[2] = p[2]
    BY <2>1, <2>2, <2>5, <2>6, LeqIsPartialOrder
  <2>7. CASE q[1] \in {Any, Top}
    <3>1. hi' = Any
      BY <2>1, <2>3, <2>4, <2>7, CompareSound DEF bit
    <3> QED BY <2>1, <2>2, <2>5, <3>1, LeqFacts
  <2>8. CASE p[1] \in Singles
    <3>1. lo' = SingleValue(value')
      BY <2>1, <2>3, <2>4, <2>8, CompareSound DEF bit
    <3> QED BY <2>1, <2>2, <2>5, <3>1, DescribesIsAbove
  <2> QED BY <2>1, <2>2, <2>3, <2>5, <2>6, <2>7, <2>8
<1>3. ASSUME NEW f \in Elem, NEW g \in Elem, Leq(f, g), Join(f, g)
      PROVE  DescribedInv'
  <2>1. /\ value' = value /\ lo' = LeastUpperBound(lo, f) /\ hi' = LeastUpperBound(hi, g)
    BY <1>3 DEF Join
  <2>2. /\ lo' \in Elem /\ Leq(lo, lo') /\ Leq(f, lo')
        /\ \A z \in Elem : Leq(lo, z) /\ Leq(f, z) => Leq(lo', z)
        /\ hi' \in Elem /\ Leq(hi, hi') /\ Leq(g, hi')
    BY <2>1, LeastUpperBoundIsLeast
  <2>3. Leq(lo, hi') /\ Leq(f, hi')
    BY <1>3, <2>2, LeqIsPartialOrder
  <2> QED BY <2>1, <2>2, <2>3, DescribesIsMonotone
<1>4. CASE UNCHANGED vars
  BY <1>4 DEF vars
<1> QED BY <1>1, <1>2, <1>3, <1>4 DEF Next, Operand

LEMMA DescribedInitially == Init => DescribedInv
<1> SUFFICES ASSUME Init PROVE DescribedInv
  OBVIOUS
<1>1. value \in Value /\ value \in Int /\ SingleValue(value) \in Singles
  BY IntRangeAssumption DEF Init, Value, Singles
<1>2. lo = SingleValue(value) /\ (hi = lo \/ hi = Any)
  BY DEF Init
<1>3. lo \in Elem /\ hi \in Elem
  BY <1>1, <1>2, SingleFacts, ElementsDiffer
<1> QED BY <1>1, <1>2, <1>3, DescribesFacts, LeqFacts, SingleFacts
        DEF DescribedInv, ValueDescribed, ArithmeticMonotone

(* Along every chain of instructions, joins and comparisons that neither   *)
(* wraps around nor cuts a quotient down to zero, the element of a         *)
(* register describes the int in it: the rules of flowState()              *)
(* (MyPasses.cc:551-775) are sound.                                        *)
THEOREM ElementDescribesValue == ASSUME ~ Wraps, ~ Truncates PROVE Spec => []ValueDescribed
BY DescribedInitially, DescribedInductive, PTL DEF Spec, DescribedInv

(* Along every such chain, who knows less of the operands knows no more of *)
(* the result: the rules are monotone.                                     *)
THEOREM RulesAreMonotone == ASSUME ~ Wraps, ~ Truncates PROVE Spec => []ArithmeticMonotone
BY DescribedInitially, DescribedInductive, PTL DEF Spec, DescribedInv
=============================================================================
