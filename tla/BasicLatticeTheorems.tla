------------------------ MODULE BasicLatticeTheorems ------------------------
(***************************************************************************)
(* getParent() draws a tree, and getLeastUpperBound() is the least upper   *)
(* bound of its order, for integers of any width.  The abstract            *)
(* interpreter asks for no more of its lattice (LatticeAssumption and      *)
(* OrderAssumption of AbstractInterpretation).                             *)
(***************************************************************************)
EXTENDS BasicArithmetic, TLAPS

(* The order spelled out, element by element.                              *)
LEMMA LeqFacts ==
  ASSUME NEW x \in Elem, NEW y \in Elem
  PROVE  Leq(x, y) <=> \/ x = y
                       \/ x = Bottom
                       \/ y = Top
                       \/ y = Any /\ x # Top
                       \/ x \in Singles /\ y = Parent(x)
<1>1. CASE x = Bottom
  BY <1>1 DEF Leq
<1>2. CASE x \in Singles
  BY <1>2 DEF Leq, ClimbTo, Rank, Parent, Elem, Singles, Signs, SingleValue,
              Bottom, Negative, Zero, Positive, Any, Top, Value
<1>3. CASE x \in Signs \cup {Any, Top}
  BY <1>3 DEF Leq, ClimbTo, Rank, Parent, Elem, Singles, Signs, SingleValue,
              Bottom, Negative, Zero, Positive, Any, Top, Value
<1> QED BY <1>1, <1>2, <1>3 DEF Elem

(* The signs and the values they stand over.                               *)
LEMMA SingleFacts ==
  ASSUME NEW x \in Singles
  PROVE  /\ Parent(x) \in Signs
         /\ x \notin Signs \cup {Bottom, Any, Top}
         /\ x \in Elem
BY DEF Parent, Singles, Signs, SingleValue, Bottom, Negative, Zero, Positive,
       Any, Top, Elem

LEMMA ElementsDiffer ==
  /\ Bottom \notin Signs \cup {Any, Top}
  /\ Any \notin Signs \cup {Top}
  /\ Top \notin Signs
  /\ {Bottom, Any, Top} \cup Signs \subseteq Elem
BY DEF Signs, Bottom, Negative, Zero, Positive, Any, Top, Elem

(* Leq is a partial order on the elements.                                 *)
THEOREM LeqIsPartialOrder ==
  /\ \A x \in Elem : Leq(x, x)
  /\ \A x, y \in Elem : Leq(x, y) /\ Leq(y, x) => x = y
  /\ \A x, y, z \in Elem : Leq(x, y) /\ Leq(y, z) => Leq(x, z)
<1>1. ASSUME NEW x \in Elem
      PROVE  Leq(x, x)
  BY LeqFacts
<1>2. ASSUME NEW x \in Elem, NEW y \in Elem, Leq(x, y), Leq(y, x)
      PROVE  x = y
  BY <1>2, LeqFacts, SingleFacts, ElementsDiffer
<1>3. ASSUME NEW x \in Elem, NEW y \in Elem, NEW z \in Elem,
             Leq(x, y), Leq(y, z)
      PROVE  Leq(x, z)
  BY <1>3, LeqFacts, SingleFacts, ElementsDiffer
<1> QED BY <1>1, <1>2, <1>3

(* The rank and the parent of each kind of element.                        *)
LEMMA RankFacts ==
  /\ \A x \in Singles : Rank(x) = 1 /\ Parent(x) \in Signs
  /\ \A x \in Signs : Rank(x) = 2 /\ Parent(x) = Any
  /\ Rank(Any) = 3 /\ Parent(Any) = Top
  /\ Rank(Top) = 4
BY DEF Rank, Parent, Singles, Signs, SingleValue, Bottom, Negative, Zero,
       Positive, Any, Top

(* What getLeastUpperBound() returns: the higher of two comparable         *)
(* elements, the sign of two values that share it, and Any of all others.  *)
LEMMA LeastUpperBoundFacts ==
  ASSUME NEW x \in Elem, NEW y \in Elem
  PROVE  LeastUpperBound(x, y) =
           IF Leq(x, y) THEN y
           ELSE IF Leq(y, x) THEN x
           ELSE IF x \in Singles /\ y \in Singles /\ Parent(x) = Parent(y) THEN Parent(x)
           ELSE Any
<1>1. CASE x = Bottom \/ y = Bottom
  BY <1>1 DEF LeastUpperBound, Leq
<1>2. CASE x \in Singles /\ y \in Singles
  BY <1>2, RankFacts, LeqFacts, SingleFacts, ElementsDiffer
  DEF LeastUpperBound, ToSameRank, Meeting, ClimbTo
<1>3. CASE x \in Singles /\ y \in Signs
  BY <1>3, RankFacts, LeqFacts, SingleFacts, ElementsDiffer
  DEF LeastUpperBound, ToSameRank, Meeting, ClimbTo
<1>4. CASE x \in Signs /\ y \in Singles
  BY <1>4, RankFacts, LeqFacts, SingleFacts, ElementsDiffer
  DEF LeastUpperBound, ToSameRank, Meeting, ClimbTo
<1>5. CASE x \in Signs /\ y \in Signs
  BY <1>5, RankFacts, LeqFacts, SingleFacts, ElementsDiffer
  DEF LeastUpperBound, ToSameRank, Meeting, ClimbTo
<1>6. CASE x \in {Any, Top} /\ y \in Singles \cup Signs \cup {Any, Top}
  BY <1>6, RankFacts, LeqFacts, SingleFacts, ElementsDiffer
  DEF LeastUpperBound, ToSameRank, Meeting, ClimbTo
<1>7. CASE x \in Singles \cup Signs /\ y \in {Any, Top}
  BY <1>7, RankFacts, LeqFacts, SingleFacts, ElementsDiffer
  DEF LeastUpperBound, ToSameRank, Meeting, ClimbTo
<1> QED BY <1>1, <1>2, <1>3, <1>4, <1>5, <1>6, <1>7 DEF Elem

(* getLeastUpperBound() returns the least upper bound.                     *)
THEOREM LeastUpperBoundIsLeast ==
  ASSUME NEW x \in Elem, NEW y \in Elem
  PROVE  /\ LeastUpperBound(x, y) \in Elem
         /\ Leq(x, LeastUpperBound(x, y))
         /\ Leq(y, LeastUpperBound(x, y))
         /\ \A z \in Elem : Leq(x, z) /\ Leq(y, z) => Leq(LeastUpperBound(x, y), z)
<1> DEFINE l == LeastUpperBound(x, y)
<1>1. l \in Elem
  BY LeastUpperBoundFacts, SingleFacts, ElementsDiffer
<1>2. Leq(x, l) /\ Leq(y, l)
  BY <1>1, LeastUpperBoundFacts, LeqFacts, SingleFacts, ElementsDiffer
<1>3. ASSUME NEW z \in Elem, Leq(x, z), Leq(y, z)
      PROVE  Leq(l, z)
  BY <1>1, <1>3, LeastUpperBoundFacts, LeqFacts, SingleFacts, ElementsDiffer
<1> QED BY <1>1, <1>2, <1>3

(* Hence the order in which the predecessors of a block are merged does    *)
(* not matter.                                                             *)
THEOREM LeastUpperBoundCommutes ==
  /\ \A x, y \in Elem : LeastUpperBound(x, y) = LeastUpperBound(y, x)
  /\ \A x, y, z \in Elem :
       LeastUpperBound(LeastUpperBound(x, y), z) = LeastUpperBound(LeastUpperBound(x, z), y)
<1>1. ASSUME NEW x \in Elem, NEW y \in Elem
      PROVE  LeastUpperBound(x, y) = LeastUpperBound(y, x)
  BY LeastUpperBoundIsLeast, LeqIsPartialOrder
<1>2. ASSUME NEW x \in Elem, NEW y \in Elem, NEW z \in Elem
      PROVE  LeastUpperBound(LeastUpperBound(x, y), z) = LeastUpperBound(LeastUpperBound(x, z), y)
  <2> DEFINE l == LeastUpperBound(LeastUpperBound(x, y), z)
             r == LeastUpperBound(LeastUpperBound(x, z), y)
  <2>1. ASSUME NEW a \in Elem, NEW b \in Elem, NEW u \in Elem,
               Leq(x, u), Leq(a, u), Leq(b, u)
        PROVE  Leq(LeastUpperBound(LeastUpperBound(x, a), b), u)
    BY <2>1, LeastUpperBoundIsLeast
  <2>2. ASSUME NEW a \in Elem, NEW b \in Elem
        PROVE  LET m == LeastUpperBound(LeastUpperBound(x, a), b)
               IN  m \in Elem /\ Leq(x, m) /\ Leq(a, m) /\ Leq(b, m)
    <3>1. LeastUpperBound(x, a) \in Elem
      BY LeastUpperBoundIsLeast
    <3> QED BY <3>1, LeastUpperBoundIsLeast, LeqIsPartialOrder
  <2>3. Leq(l, r) /\ Leq(r, l) /\ l \in Elem /\ r \in Elem
    BY <2>1, <2>2
  <2> QED BY <2>3, LeqIsPartialOrder
<1> QED BY <1>1, <1>2
-----------------------------------------------------------------------------
(* getLeastUpperBound() is recursive in the source (MyPasses.cc:212-227).  *)
(* Whatever solves its equation is the closed form of BasicLattice.        *)
THEOREM RecursionUnrolled ==
  ASSUME NEW Bound(_, _),
         \A a, b \in Elem :
           Bound(a, b) = IF a = Bottom THEN b
                         ELSE IF b = Bottom THEN a
                         ELSE IF a = b THEN a
                         ELSE IF Rank(a) < Rank(b) THEN Bound(Parent(a), b)
                         ELSE IF Rank(b) < Rank(a) THEN Bound(a, Parent(b))
                         ELSE Bound(Parent(a), Parent(b))
  PROVE  \A a, b \in Elem : Bound(a, b) = LeastUpperBound(a, b)
<1>1. /\ \A a \in Elem : Bound(Bottom, a) = a /\ Bound(a, Bottom) = a
      /\ Bound(Any, Any) = Any /\ Bound(Top, Top) = Top
      /\ Bound(Any, Top) = Top /\ Bound(Top, Any) = Top
  BY RankFacts, ElementsDiffer
<1>2. ASSUME NEW a \in Signs
      PROVE  /\ Bound(a, Any) = Any /\ Bound(Any, a) = Any
             /\ Bound(a, Top) = Top /\ Bound(Top, a) = Top
             /\ \A b \in Signs : Bound(a, b) = IF a = b THEN a ELSE Any
  BY <1>1, RankFacts, ElementsDiffer
<1>3. ASSUME NEW a \in Singles
      PROVE  /\ Bound(a, Any) = Any /\ Bound(Any, a) = Any
             /\ Bound(a, Top) = Top /\ Bound(Top, a) = Top
             /\ \A b \in Signs : /\ Bound(a, b) = IF Parent(a) = b THEN b ELSE Any
                                 /\ Bound(b, a) = IF Parent(a) = b THEN b ELSE Any
             /\ \A b \in Singles :
                  Bound(a, b) = IF a = b THEN a
                                ELSE IF Parent(a) = Parent(b) THEN Parent(a) ELSE Any
  BY <1>1, <1>2, RankFacts, SingleFacts, ElementsDiffer
<1>4. ASSUME NEW a \in Elem, NEW b \in Elem
      PROVE  Bound(a, b) = IF Leq(a, b) THEN b
                           ELSE IF Leq(b, a) THEN a
                           ELSE IF a \in Singles /\ b \in Singles /\ Parent(a) = Parent(b)
                                THEN Parent(a) ELSE Any
  <2>1. CASE a \in {Bottom, Any, Top}
    BY <1>1, <1>2, <1>3, <2>1, LeqFacts, SingleFacts, ElementsDiffer DEF Elem
  <2>2. CASE a \in Signs
    BY <1>1, <1>2, <1>3, <2>2, LeqFacts, SingleFacts, ElementsDiffer DEF Elem
  <2>3. CASE a \in Singles
    BY <1>1, <1>2, <1>3, <2>3, LeqFacts, SingleFacts, ElementsDiffer DEF Elem
  <2> QED BY <2>1, <2>2, <2>3 DEF Elem
<1> QED BY <1>4, LeastUpperBoundFacts
-----------------------------------------------------------------------------
(* What flowState() makes of the elements of two operands. *)

LEMMA DivisionFacts ==
  ASSUME NEW u \in Nat, NEW v \in Nat \ {0}
  PROVE  u \div v \in 0 .. u
OBVIOUS

(* A quotient has the sign of the operands, if it is not zero.             *)
LEMMA QuotientSign ==
  ASSUME NEW u \in Int, NEW v \in Int, v # 0
  PROVE  /\ Quotient(u, v) \in Int
         /\ u = 0 => Quotient(u, v) = 0
         /\ (u > 0 /\ v > 0) \/ (u < 0 /\ v < 0) => Quotient(u, v) >= 0
         /\ (u > 0 /\ v < 0) \/ (u < 0 /\ v > 0) => Quotient(u, v) <= 0
<1> DEFINE a == IF u < 0 THEN -u ELSE u
           b == IF v < 0 THEN -v ELSE v
<1>1. a \in Nat /\ b \in Nat \ {0} /\ (u = 0 => a = 0)
  OBVIOUS
<1> HIDE DEF a, b
<1>2. a \div b \in 0 .. a
  BY <1>1, DivisionFacts
<1>3. Quotient(u, v) = IF (u < 0) = (v < 0) THEN a \div b ELSE -(a \div b)
  BY DEF Quotient, a, b
<1> QED BY <1>1, <1>2, <1>3

(* An int that does not wrap around is kept.                               *)
LEMMA WrapKeeps ==
  ASSUME NEW n \in Value
  PROVE  Wrap(n) = n
<1>1. n \in Int /\ MinInt \in Int /\ MaxInt \in Int /\ 0 <= n - MinInt /\ n - MinInt <= MaxInt - MinInt
  BY IntRangeAssumption DEF Value
<1>2. (n - MinInt) % (MaxInt - MinInt + 1) = n - MinInt
  BY <1>1
<1> QED BY <1>1, <1>2 DEF Wrap

(* toSameRank(): both elements climb to the rank of the higher one.        *)
LEMMA SameRankFacts ==
  ASSUME NEW x \in Elem \ {Bottom}, NEW y \in Elem \ {Bottom}
  PROVE  LET p == ToSameRank(x, y) IN
         /\ p = <<p[1], p[2]>>
         /\ p[1] \in Elem \ {Bottom} /\ p[2] \in Elem \ {Bottom}
         /\ Leq(x, p[1]) /\ Leq(y, p[2])
         /\ \/ x \in Singles /\ y \in Singles /\ p[1] = x /\ p[2] = y
            \/ /\ x \notin {Any, Top} /\ y \notin {Any, Top}
               /\ x \in Signs \/ y \in Signs
               /\ p[1] \in Signs /\ p[2] \in Signs
            \/ /\ x = Any \/ y = Any
               /\ x # Top /\ y # Top
               /\ p[1] = Any /\ p[2] = Any
            \/ /\ x = Top \/ y = Top
               /\ p[1] = Top /\ p[2] = Top
<1> DEFINE p == ToSameRank(x, y)
<1>1. CASE x \in Singles /\ y \in Singles
  BY <1>1, RankFacts, LeqFacts, SingleFacts, ElementsDiffer DEF ToSameRank, ClimbTo
<1>2. CASE x \in Singles /\ y \in Signs
  BY <1>2, RankFacts, LeqFacts, SingleFacts, ElementsDiffer DEF ToSameRank, ClimbTo
<1>3. CASE x \in Signs /\ y \in Singles
  BY <1>3, RankFacts, LeqFacts, SingleFacts, ElementsDiffer DEF ToSameRank, ClimbTo
<1>4. CASE x \in Signs /\ y \in Signs
  BY <1>4, RankFacts, LeqFacts, SingleFacts, ElementsDiffer DEF ToSameRank, ClimbTo
<1>5. CASE x \in {Any, Top}
  BY <1>5, RankFacts, LeqFacts, SingleFacts, ElementsDiffer DEF ToSameRank, ClimbTo, Elem
<1>6. CASE x \in Singles \cup Signs /\ y \in {Any, Top}
  BY <1>6, RankFacts, LeqFacts, SingleFacts, ElementsDiffer DEF ToSameRank, ClimbTo
<1> QED BY <1>1, <1>2, <1>3, <1>4, <1>5, <1>6 DEF Elem

(* Two elements of one rank, as toSameRank() returns them.                 *)
OfOneRank(a, b) ==
  \/ a \in Singles /\ b \in Singles
  \/ a \in Signs /\ b \in Signs
  \/ a = Any /\ b = Any
  \/ a = Top /\ b = Top

LEMMA WrapStays ==
  ASSUME NEW n \in Int
  PROVE  Wrap(n) \in Value
<1> DEFINE w == MaxInt - MinInt + 1
<1>1. w \in Nat \ {0} /\ n - MinInt \in Int /\ MinInt \in Int /\ MaxInt \in Int
  BY IntRangeAssumption
<1>2. (n - MinInt) % w \in 0 .. w - 1
  <2> HIDE DEF w
  <2> QED BY <1>1
<1>3. Wrap(n) = ((n - MinInt) % w) + MinInt
  BY DEF Wrap
<1> QED BY <1>1, <1>2, <1>3 DEF Value

(* The elements an analysis of ints meets: neither Bottom nor Top.         *)
Informed == Elem \ {Bottom, Top}

(* Of operands with such elements flowState() has a rule, and gives the    *)
(* result such an element again, but where it divides by a known zero or   *)
(* where two zeros meet.                                                   *)
LEMMA TransferStays ==
  ASSUME NEW op \in ArithOps \cup Predicates, NEW x \in Informed, NEW y \in Informed
  PROVE  /\ ~ Aborts(op, x, y) => Transfer(op, x, y) \in Informed
         /\ Aborts(op, x, y) => \/ op = "sdiv" /\ y \in {SingleValue(0), Zero}
                                \/ {x, y} \in {{Zero}, {Zero, SingleValue(0)}}
<1> DEFINE p == ToSameRank(x, y)
<1>1. /\ x \in Elem \ {Bottom, Top} /\ y \in Elem \ {Bottom, Top}
      /\ Transfer(op, x, y) = IF op \in Predicates THEN Compare(op, p[1], p[2])
                              ELSE Compute(op, p[1], p[2])
  BY DEF Informed, Transfer
<1>2. /\ p = <<p[1], p[2]>>
      /\ Leq(x, p[1]) /\ Leq(y, p[2])
      /\ \/ x \in Singles /\ y \in Singles /\ p[1] = x /\ p[2] = y
         \/ /\ x \in Singles \cup Signs /\ y \in Singles \cup Signs
            /\ x \in Signs \/ y \in Signs
            /\ p[1] \in Signs /\ p[2] \in Signs
         \/ p[1] = Any /\ p[2] = Any
  BY <1>1, SameRankFacts DEF Elem
<1>3. Aborts(op, x, y) <=> \/ p = <<Zero, Zero>>
                           \/ op \notin Predicates /\ p[1] = Top
                           \/ op = "sdiv" /\ (p[2] = Zero \/ p[2] = SingleValue(0))
  BY <1>1 DEF Aborts
<1> HIDE DEF p
<1>4. Any \in Informed /\ Signs \subseteq Informed /\ Singles \subseteq Informed
  BY SingleFacts, ElementsDiffer DEF Informed, Elem
<1>5. \A v \in Value : SingleValue(v) \in Singles
  BY DEF Singles
<1>6. 0 \in Value /\ 1 \in Value
  BY IntRangeAssumption DEF Value
<1>7. Zero \in Signs /\ SingleValue(0) \in Singles /\ Any \notin Singles \cup Signs \cup {Top}
  BY <1>5, <1>6, SingleFacts, ElementsDiffer DEF Signs
<1>8. ASSUME ~ Aborts(op, x, y)
      PROVE  Transfer(op, x, y) \in Informed
  <2>1. CASE p[1] = Any
    <3>1. Any.type # "SingleValue" /\ Any \notin Signs
      BY DEF Any, Signs, Negative, Zero, Positive
    <3> QED BY <1>1, <1>4, <2>1, <3>1 DEF Compare, Compute
  <2>2. CASE x \in Singles /\ y \in Singles /\ p[1] = x /\ p[2] = y
    <3>1. PICK u \in Value, v \in Value : x = SingleValue(u) /\ y = SingleValue(v)
      BY <2>2 DEF Singles
    <3>2. x.type = "SingleValue" /\ x.value = u /\ y.value = v
      BY <3>1 DEF SingleValue
    <3>3. CASE op \in Predicates
      BY <1>1, <1>4, <1>5, <1>6, <2>2, <3>2, <3>3 DEF Compare, Bit
    <3>4. CASE op \notin Predicates
      <4>1. op \in ArithOps /\ u \in Int /\ v \in Int
        BY <3>4, IntRangeAssumption DEF Value
      <4>2. op = "sdiv" => v # 0
        BY <1>3, <1>8, <2>2, <3>1
      <4>3. Exact(op, u, v) \in Int
        BY <4>1, <4>2, QuotientSign DEF Exact, ArithOps
      <4>4. Transfer(op, x, y) = SingleValue(Wrap(Exact(op, u, v)))
        BY <1>1, <2>2, <3>2, <3>4 DEF Compute
      <4> QED BY <1>4, <1>5, <4>3, <4>4, WrapStays
    <3> QED BY <3>3, <3>4
  <2>3. CASE p[1] \in Signs /\ p[2] \in Signs
    <3>1. p[1].type # "SingleValue" /\ SignOf(p[1]) \in -1 .. 1 /\ SignOf(p[2]) \in -1 .. 1
      BY <2>3 DEF Signs, Negative, Zero, Positive, SignOf
    <3>2. CASE op \in Predicates
      <4>1. Transfer(op, x, y) = Compare(op, p[1], p[2])
        BY <1>1, <3>2
      <4>2. IsGreaterThan(p[1], p[2]) \in {-1, 0, 1}
        BY DEF IsGreaterThan
      <4>3. Compare(op, p[1], p[2]) \in {Any, SingleValue(0), SingleValue(1)}
        BY <2>3, <3>1, <3>2, <4>2 DEF Compare, Predicates
      <4> QED BY <1>4, <1>5, <1>6, <4>1, <4>3
    <3>3. CASE op \notin Predicates
      <4>1. op \in ArithOps /\ Transfer(op, x, y) = SignRule(op, p[1], p[2])
        BY <1>1, <2>3, <3>1, <3>3 DEF Compute
      <4>2. \A n : OfSign(n) \in Signs
        BY DEF OfSign, Signs
      <4>3. SignRule(op, p[1], p[2]) \in {Any, SingleValue(0)} \cup Signs
        BY <4>1, <4>2 DEF SignRule, ArithOps
      <4> QED BY <1>4, <1>5, <1>6, <4>1, <4>3
    <3> QED BY <3>2, <3>3
  <2> QED BY <1>2, <2>1, <2>2, <2>3
<1>9. ASSUME Aborts(op, x, y)
      PROVE  \/ op = "sdiv" /\ y \in {SingleValue(0), Zero}
             \/ {x, y} \in {{Zero}, {Zero, SingleValue(0)}}
  <2>1. ASSUME NEW z \in Singles \cup Signs, Leq(z, Zero)
        PROVE  z \in {Zero, SingleValue(0)}
    <3>1. CASE z \in Singles
      <4>1. PICK v \in Value : z = SingleValue(v)
        BY <3>1 DEF Singles
      <4>2. Parent(z) = Zero
        BY <1>7, <2>1, <3>1, LeqFacts, SingleFacts, ElementsDiffer
      <4>3. Parent(z) = IF v > 0 THEN Positive ELSE IF v < 0 THEN Negative ELSE Zero
        BY <4>1 DEF Parent, SingleValue
      <4>4. v = 0
        BY <4>2, <4>3, IntRangeAssumption DEF Positive, Negative, Zero, Value
      <4> QED BY <4>1, <4>4
    <3>2. CASE z \in Signs
      BY <1>7, <2>1, <3>2, LeqFacts, SingleFacts, ElementsDiffer
    <3> QED BY <3>1, <3>2
  <2>2. p[1] # Top
    BY <1>2, <1>7, SingleFacts, ElementsDiffer
  <2>3. CASE p = <<Zero, Zero>>
    <3>1. p[1] = Zero /\ p[2] = Zero
      BY <2>3
    <3>2. x \in {Zero, SingleValue(0)} /\ y \in {Zero, SingleValue(0)}
      BY <1>2, <1>7, <2>1, <3>1, SingleFacts, ElementsDiffer
    <3>3. ~ (x = SingleValue(0) /\ y = SingleValue(0))
      BY <1>2, <1>7, <3>1, SingleFacts, ElementsDiffer
    <3> QED BY <3>2, <3>3
  <2>4. CASE op = "sdiv" /\ (p[2] = Zero \/ p[2] = SingleValue(0))
    <3>1. CASE p[2] = SingleValue(0)
      BY <1>2, <1>7, <2>4, <3>1, SingleFacts, ElementsDiffer
    <3>2. CASE p[2] = Zero
      <4>1. y \in Singles \cup Signs
        BY <1>2, <1>7, <3>2, SingleFacts, ElementsDiffer
      <4> QED BY <1>2, <2>1, <2>4, <3>2, <4>1
    <3> QED BY <2>4, <3>1, <3>2
  <2> QED BY <1>3, <1>9, <2>2, <2>3, <2>4
<1> QED BY <1>8, <1>9

-----------------------------------------------------------------------------
(* What the elements say of an int.                                        *)
LEMMA DescribesFacts ==
  ASSUME NEW v \in Int
  PROVE  /\ \A w : Describes(SingleValue(w), v) <=> v = w
         /\ Describes(Positive, v) <=> v > 0
         /\ Describes(Zero, v) <=> v = 0
         /\ Describes(Negative, v) <=> v < 0
         /\ Describes(Any, v) /\ Describes(Top, v) /\ ~ Describes(Bottom, v)
BY DEF Describes, SingleValue, Bottom, Negative, Zero, Positive, Any, Top

(* An element describes an int if the int is below it.                     *)
LEMMA DescribesIsAbove ==
  ASSUME NEW v \in Value, NEW x \in Elem
  PROVE  Describes(x, v) <=> Leq(SingleValue(v), x)
<1>1. SingleValue(v) \in Singles /\ SingleValue(v) \in Elem /\ v \in Int
  BY IntRangeAssumption DEF Singles, Elem, Value
<1>2. Parent(SingleValue(v)) = IF v > 0 THEN Positive ELSE IF v < 0 THEN Negative ELSE Zero
  BY DEF Parent, SingleValue
<1>3. CASE x \in {Bottom, Any, Top}
  BY <1>1, <1>3, LeqFacts, DescribesFacts, SingleFacts, ElementsDiffer
<1>4. CASE x \in Signs
  <2>1. Leq(SingleValue(v), x) <=> x = Parent(SingleValue(v))
    BY <1>1, <1>4, LeqFacts, SingleFacts, ElementsDiffer
  <2>2. Positive # Zero /\ Positive # Negative /\ Zero # Negative
    BY DEF Positive, Zero, Negative
  <2> QED BY <1>1, <1>2, <1>4, <2>1, <2>2, DescribesFacts DEF Signs
<1>5. CASE x \in Singles
  <2>1. PICK w \in Value : x = SingleValue(w)
    BY <1>5 DEF Singles
  <2>2. SingleValue(v) = x <=> v = w
    BY <2>1 DEF SingleValue
  <2> QED BY <1>1, <1>5, <2>1, <2>2, LeqFacts, DescribesFacts, SingleFacts, ElementsDiffer
<1> QED BY <1>3, <1>4, <1>5 DEF Elem

(* Signs of products, which are beyond the linear arithmetic of the prover *)
(* if left to it among other facts.                                        *)
LEMMA ProductOfPositives ==
  ASSUME NEW u \in Int, NEW v \in Int, u > 0, v > 0
  PROVE  u * v > 0
OBVIOUS

LEMMA ProductSign ==
  ASSUME NEW u \in Int, NEW v \in Int
  PROVE  /\ u * v \in Int
         /\ u > 0 /\ v > 0 => u * v > 0
         /\ u < 0 /\ v < 0 => u * v > 0
         /\ u < 0 /\ v > 0 => u * v < 0
         /\ u > 0 /\ v < 0 => u * v < 0
         /\ u = 0 \/ v = 0 => u * v = 0
<1>1. u * v = (-u) * (-v) /\ u * v = -((-u) * v) /\ u * v = -(u * (-v)) /\ u * v \in Int
  OBVIOUS
<1> QED BY <1>1, ProductOfPositives

-----------------------------------------------------------------------------
LEMMA SignFacts ==
  ASSUME NEW a \in Signs, NEW v \in Int, Describes(a, v)
  PROVE  /\ SignOf(a) = IF v > 0 THEN 1 ELSE IF v < 0 THEN -1 ELSE 0
         /\ a = IF v > 0 THEN Positive ELSE IF v < 0 THEN Negative ELSE Zero
<1>1. SignOf(Positive) = 1 /\ SignOf(Negative) = -1 /\ SignOf(Zero) = 0
  BY DEF SignOf, Positive, Negative, Zero
<1> QED BY <1>1, DescribesFacts DEF Signs

LEMMA SignElementFacts ==
  ASSUME NEW n \in Int, NEW v \in Int, v > 0 <=> n > 0, v < 0 <=> n < 0
  PROVE  OfSign(n) \in Signs /\ Describes(OfSign(n), v)
BY DescribesFacts DEF OfSign, Signs

(* The sign rules of the arithmetic instructions describe the result.      *)
LEMMA SignRuleSound ==
  ASSUME NEW op \in ArithOps, NEW a \in Signs, NEW b \in Signs,
         NEW u \in Int, NEW w \in Int, Describes(a, u), Describes(b, w),
         op = "sdiv" => w # 0, ~ TruncatesToZero(op, u, w)
  PROVE  /\ SignRule(op, a, b) \in Elem \ {Bottom, Top}
         /\ Describes(SignRule(op, a, b), Exact(op, u, w))
<1> DEFINE s == SignOf(a)
           t == SignOf(b)
           r == SignRule(op, a, b)
           e == Exact(op, u, w)
<1>1. /\ s = IF u > 0 THEN 1 ELSE IF u < 0 THEN -1 ELSE 0
      /\ t = IF w > 0 THEN 1 ELSE IF w < 0 THEN -1 ELSE 0
      /\ a = Zero <=> u = 0
      /\ s = t <=> a = b
  <2>1. Positive # Zero /\ Negative # Zero /\ Positive # Negative
    BY DEF Positive, Zero, Negative
  <2> QED BY <2>1, SignFacts
<1>2. Signs \subseteq Elem \ {Bottom, Top} /\ Any \in Elem \ {Bottom, Top}
  BY ElementsDiffer
<1>3. CASE op = "add"
  <2>1. r = (IF s + t = 0 THEN Any ELSE OfSign(s + t)) /\ e = u + w
    BY <1>3 DEF SignRule, Exact
  <2>2. CASE s + t = 0
    BY <1>2, <2>1, <2>2, DescribesFacts
  <2>3. CASE s + t # 0
    <3>1. s + t \in Int /\ u + w \in Int /\ (u + w > 0 <=> s + t > 0) /\ (u + w < 0 <=> s + t < 0)
      BY <1>1, <2>3
    <3> HIDE DEF s, t
    <3> QED BY <1>2, <2>1, <2>3, <3>1, SignElementFacts
  <2> QED BY <2>2, <2>3
<1>4. CASE op = "sub"
  <2>1. r = (IF s = t THEN Any ELSE OfSign(s - t)) /\ e = u - w
    BY <1>4 DEF SignRule, Exact
  <2>2. CASE s = t
    BY <1>2, <2>1, <2>2, DescribesFacts
  <2>3. CASE s # t
    <3>1. s - t \in Int /\ u - w \in Int /\ (u - w > 0 <=> s - t > 0) /\ (u - w < 0 <=> s - t < 0)
      BY <1>1, <2>3
    <3> HIDE DEF s, t
    <3> QED BY <1>2, <2>1, <2>3, <3>1, SignElementFacts
  <2> QED BY <2>2, <2>3
<1>5. CASE op = "mul"
  <2>1. r = OfSign(s * t) /\ e = u * w
    BY <1>5 DEF SignRule, Exact
  <2>2. s * t \in Int /\ e \in Int /\ (e > 0 <=> s * t > 0) /\ (e < 0 <=> s * t < 0)
    BY <1>1, <2>1, ProductSign
  <2> HIDE DEF s, t, e
  <2> QED BY <1>2, <2>1, <2>2, SignElementFacts DEF r, e
<1>6. CASE op = "sdiv"
  <2>1. r = (IF a = Zero THEN SingleValue(0) ELSE OfSign(s * t)) /\ e = Quotient(u, w)
    BY <1>6 DEF SignRule, Exact
  <2>2. CASE u = 0
    <3>1. SingleValue(0) \in Singles /\ 0 \in Int
      BY IntRangeAssumption DEF Singles, Value
    <3>2. e = 0
      BY <1>6, <2>1, <2>2, QuotientSign
    <3>3. r = SingleValue(0)
      BY <1>1, <2>1, <2>2
    <3> HIDE DEF r, e
    <3>4. r \in Elem \ {Bottom, Top}
      BY <3>1, <3>3, SingleFacts
    <3>5. Describes(r, e)
      BY <3>1, <3>2, <3>3, DescribesFacts
    <3> QED BY <3>4, <3>5 DEF r, e
  <2>3. CASE u # 0
    <3>1. e \in Int /\ e # 0
      BY <1>6, <2>1, <2>3, QuotientSign DEF TruncatesToZero
    <3>2. s * t \in Int /\ (e > 0 <=> s * t > 0) /\ (e < 0 <=> s * t < 0)
      <4>1. /\ (u > 0 /\ w > 0) \/ (u < 0 /\ w < 0) => e >= 0
            /\ (u > 0 /\ w < 0) \/ (u < 0 /\ w > 0) => e <= 0
        BY <1>6, <2>1, QuotientSign
      <4>2. /\ (u > 0 /\ w > 0) \/ (u < 0 /\ w < 0) => s * t = 1
            /\ (u > 0 /\ w < 0) \/ (u < 0 /\ w > 0) => s * t = -1
        BY <1>1
      <4>3. w # 0
        BY <1>6
      <4> HIDE DEF s, t, e
      <4> QED BY <2>3, <3>1, <4>1, <4>2, <4>3
    <3> HIDE DEF s, t, e
    <3> QED BY <1>1, <1>2, <2>1, <2>3, <3>1, <3>2, SignElementFacts DEF r, e
  <2> QED BY <2>2, <2>3
<1> QED BY <1>3, <1>4, <1>5, <1>6 DEF ArithOps

(* So does the arithmetic of two elements of one rank.                     *)
LEMMA ComputeSound ==
  ASSUME NEW op \in ArithOps, NEW a, NEW b, OfOneRank(a, b),
         NEW u \in Value, NEW w \in Value, Describes(a, u), Describes(b, w),
         op = "sdiv" => w # 0, ~ TruncatesToZero(op, u, w), Exact(op, u, w) \in Value
  PROVE  /\ Compute(op, a, b) \in Elem \ {Bottom, Top}
         /\ Describes(Compute(op, a, b), Exact(op, u, w))
         /\ a \in Singles => Compute(op, a, b) = SingleValue(Exact(op, u, w))
         /\ a \in Signs => Compute(op, a, b) = SignRule(op, a, b)
         /\ a \in {Any, Top} => Compute(op, a, b) = Any
<1>1. u \in Int /\ w \in Int /\ Exact(op, u, w) \in Int
  BY IntRangeAssumption DEF Value
<1>2. CASE a \in Singles /\ b \in Singles
  <2>1. a = SingleValue(u) /\ b = SingleValue(w)
    BY <1>1, <1>2, DescribesFacts DEF Singles
  <2>2. Compute(op, a, b) = SingleValue(Exact(op, u, w))
    BY <2>1, WrapKeeps DEF Compute, SingleValue
  <2>3. SingleValue(Exact(op, u, w)) \in Singles
    BY DEF Singles
  <2> QED BY <1>1, <1>2, <2>2, <2>3, DescribesFacts, SingleFacts
<1>3. CASE a \in Signs /\ b \in Signs
  <2>1. Compute(op, a, b) = SignRule(op, a, b)
    BY <1>3 DEF Compute, Signs, Positive, Negative, Zero
  <2> QED BY <1>1, <1>3, <2>1, SignRuleSound, SingleFacts, ElementsDiffer
<1>4. CASE a \in {Any, Top}
  <2>1. Compute(op, a, b) = Any
    BY <1>4, ElementsDiffer DEF Compute, Any, Top
  <2> QED BY <1>1, <1>4, <2>1, DescribesFacts, SingleFacts, ElementsDiffer
<1> QED BY <1>2, <1>3, <1>4 DEF OfOneRank

(* And the comparison of two elements of one rank, but of two zeros.       *)
LEMMA CompareSound ==
  ASSUME NEW pred \in Predicates, NEW a, NEW b, OfOneRank(a, b), <<a, b>> # <<Zero, Zero>>,
         NEW u \in Value, NEW w \in Value, Describes(a, u), Describes(b, w)
  PROVE  /\ Compare(pred, a, b) \in Elem \ {Bottom, Top}
         /\ Describes(Compare(pred, a, b), Bit(Holds(pred, u, w)))
         /\ a \in Singles => Compare(pred, a, b) = SingleValue(Bit(Holds(pred, u, w)))
         /\ a \in {Any, Top} => Compare(pred, a, b) = Any
<1> DEFINE bit == Bit(Holds(pred, u, w))
           r == Compare(pred, a, b)
<1>1. u \in Int /\ w \in Int
  BY IntRangeAssumption DEF Value
<1>2. 0 \in Value /\ 1 \in Value
  BY IntRangeAssumption DEF Value
<1>3. bit \in {0, 1} /\ bit \in Int
  BY DEF Bit
<1>4. \A n \in {0, 1} : SingleValue(n) \in Elem \ {Bottom, Top}
  BY <1>2, SingleFacts DEF Singles
<1>5. Any \in Elem \ {Bottom, Top} /\ Describes(Any, bit)
  BY <1>3, ElementsDiffer, DescribesFacts
<1>6. CASE a \in Singles /\ b \in Singles
  <2>1. a = SingleValue(u) /\ b = SingleValue(w)
    BY <1>1, <1>6, DescribesFacts DEF Singles
  <2>2. r = SingleValue(bit)
    BY <2>1 DEF Compare, SingleValue
  <2> QED BY <1>3, <1>4, <1>6, <2>2, DescribesFacts, SingleFacts
<1>7. CASE a \in Signs /\ b \in Signs
  <2> DEFINE s == SignOf(a)
             t == SignOf(b)
             g == IsGreaterThan(a, b)
  <2>1. /\ s = IF u > 0 THEN 1 ELSE IF u < 0 THEN -1 ELSE 0
        /\ t = IF w > 0 THEN 1 ELSE IF w < 0 THEN -1 ELSE 0
        /\ ~ (u = 0 /\ w = 0)
        /\ a # b => s # t
    <3>1. Positive # Zero /\ Negative # Zero /\ Positive # Negative
      BY DEF Positive, Zero, Negative
    <3> QED BY <1>1, <1>7, <3>1, SignFacts
  <2>2. g = IF s > t THEN 1 ELSE IF s <= 0 /\ t >= 0 THEN 0 ELSE -1
    BY DEF IsGreaterThan
  <2>3. g = 1 => u > w
    <3>1. g = 1 => s > t
      BY <2>2
    <3>2. u <= w => s <= t
      BY <1>1, <2>1
    <3>3. s \in Int /\ t \in Int
      BY <2>1
    <3> HIDE DEF s, t, g
    <3> QED BY <1>1, <3>1, <3>2, <3>3
  <2>4. g = 0 => u < w
    <3>1. g = 0 => s <= 0 /\ t >= 0
      BY <2>2
    <3>2. s <= 0 => u <= 0
      BY <1>1, <2>1
    <3>3. t >= 0 => w >= 0
      BY <1>1, <2>1
    <3>4. ~ (u = 0 /\ w = 0)
      BY <2>1
    <3> HIDE DEF s, t, g
    <3> QED BY <1>1, <3>1, <3>2, <3>3, <3>4
  <2>5. g \in {1, 0, -1}
    <3> HIDE DEF s, t
    <3> QED BY <2>2
  <2>6. a.type # "SingleValue" /\ a \in Signs
    BY <1>7 DEF Signs, Positive, Negative, Zero
  <2>7. /\ pred = "eq" => r = Any
        /\ pred = "ne" => r = IF a # b THEN SingleValue(1) ELSE Any
        /\ pred \in {"sgt", "sge"} => r = IF g = -1 THEN Any ELSE SingleValue(g)
        /\ pred \in {"slt", "sle"} => r = IF g = -1 THEN Any ELSE SingleValue(1 - g)
    BY <2>6 DEF Compare
  <2> HIDE DEF r, g
  <2>8. CASE pred = "eq"
    BY <1>5, <1>7, <2>7, <2>8, SingleFacts, ElementsDiffer DEF r
  <2>9. CASE pred = "ne"
    <3>1. a # b => u # w
      BY <1>1, <2>1
    <3>2. a # b => bit = 1
      BY <2>9, <3>1 DEF Bit, Holds
    <3>3. r = IF a # b THEN SingleValue(1) ELSE Any
      BY <2>7, <2>9
    <3>4. Describes(SingleValue(1), 1)
      BY DescribesFacts
    <3> HIDE DEF bit
    <3>5. r \in Elem \ {Bottom, Top} /\ Describes(r, bit)
      BY <1>4, <1>5, <3>2, <3>3, <3>4
    <3> QED BY <1>7, <3>5, SingleFacts, ElementsDiffer DEF r, bit
  <2>10. CASE pred \in {"sgt", "sge"}
    <3>0. Holds(pred, u, w) <=> IF pred = "sgt" THEN u > w ELSE u >= w
      BY <2>10 DEF Holds
    <3>1. g = 1 => bit = 1
      BY <1>1, <2>3, <3>0 DEF Bit
    <3>2. g = 0 => bit = 0
      BY <1>1, <2>4, <3>0 DEF Bit
    <3>3. r = IF g = -1 THEN Any ELSE SingleValue(g)
      BY <2>7, <2>10
    <3>4. \A n \in {0, 1} : Describes(SingleValue(n), n)
      BY DescribesFacts
    <3> HIDE DEF bit
    <3>5. r \in Elem \ {Bottom, Top} /\ Describes(r, bit)
      BY <1>4, <1>5, <2>5, <3>1, <3>2, <3>3, <3>4
    <3> QED BY <1>7, <3>5, SingleFacts, ElementsDiffer DEF r, bit
  <2>11. CASE pred \in {"slt", "sle"}
    <3>0. Holds(pred, u, w) <=> IF pred = "slt" THEN u < w ELSE u <= w
      BY <2>11 DEF Holds
    <3>1. g = 1 => bit = 0
      BY <1>1, <2>3, <3>0 DEF Bit
    <3>2. g = 0 => bit = 1
      BY <1>1, <2>4, <3>0 DEF Bit
    <3>3. r = IF g = -1 THEN Any ELSE SingleValue(1 - g)
      BY <2>7, <2>11
    <3>4. \A n \in {0, 1} : Describes(SingleValue(n), n)
      BY DescribesFacts
    <3> HIDE DEF bit
    <3>5. r \in Elem \ {Bottom, Top} /\ Describes(r, bit)
      BY <1>4, <1>5, <2>5, <3>1, <3>2, <3>3, <3>4
    <3> QED BY <1>7, <3>5, SingleFacts, ElementsDiffer DEF r, bit
  <2> QED BY <2>8, <2>9, <2>10, <2>11 DEF Predicates
<1>8. CASE a \in {Any, Top}
  <2>1. r = Any
    BY <1>8, ElementsDiffer DEF Compare, Any, Top
  <2> QED BY <1>5, <1>8, <2>1, SingleFacts, ElementsDiffer
<1> QED BY <1>6, <1>7, <1>8 DEF OfOneRank
-----------------------------------------------------------------------------
(* An element that is above another describes what the other does.         *)
LEMMA DescribesIsMonotone ==
  ASSUME NEW x \in Elem, NEW y \in Elem, NEW v \in Value, Leq(x, y), Describes(x, v)
  PROVE  Describes(y, v)
<1>1. SingleValue(v) \in Elem
  BY DEF Elem, Singles
<1> QED BY <1>1, DescribesIsAbove, LeqIsPartialOrder

(* The elements two rounds compute for an instruction, of operands that    *)
(* both describe: either the second does not know the values any more, or  *)
(* it knows the same of them.                                              *)
LEMMA SameRankMonotone ==
  ASSUME NEW x \in Elem, NEW y \in Elem, NEW f \in Elem, NEW g \in Elem,
         NEW u \in Value, NEW w \in Value,
         Describes(x, u), Describes(f, w), Leq(x, y), Leq(f, g)
  PROVE  LET p == ToSameRank(x, f)
             q == ToSameRank(y, g)
         IN  /\ x # Bottom /\ y # Bottom /\ f # Bottom /\ g # Bottom
             /\ OfOneRank(p[1], p[2]) /\ OfOneRank(q[1], q[2])
             /\ Describes(p[1], u) /\ Describes(p[2], w)
             /\ Describes(q[1], u) /\ Describes(q[2], w)
             /\ \/ q[1] = p[1] /\ q[2] = p[2]
                \/ q[1] \in {Any, Top}
                \/ p[1] \in Singles
<1> DEFINE p == ToSameRank(x, f)
           q == ToSameRank(y, g)
<1>1. u \in Int /\ w \in Int
  BY IntRangeAssumption DEF Value
<1>2. Describes(y, u) /\ Describes(g, w)
  BY DescribesIsMonotone
<1>3. x # Bottom /\ y # Bottom /\ f # Bottom /\ g # Bottom
  BY <1>1, <1>2, DescribesFacts
<1> DEFINE Raised(a, b, r) ==
             /\ r[1] \in Elem \ {Bottom} /\ r[2] \in Elem \ {Bottom}
             /\ Leq(a, r[1]) /\ Leq(b, r[2])
             /\ \/ a \in Singles /\ b \in Singles /\ r[1] = a /\ r[2] = b
                \/ /\ a \notin {Any, Top} /\ b \notin {Any, Top}
                   /\ a \in Signs \/ b \in Signs
                   /\ r[1] \in Signs /\ r[2] \in Signs
                \/ /\ a = Any \/ b = Any
                   /\ r[1] = Any /\ r[2] = Any
                \/ /\ a = Top \/ b = Top
                   /\ r[1] = Top /\ r[2] = Top
<1>a. Raised(x, f, p)
  BY <1>3, SameRankFacts
<1>b. Raised(y, g, q)
  BY <1>3, SameRankFacts
<1> HIDE DEF p, q
<1>4. /\ p[1] \in Elem /\ p[2] \in Elem /\ q[1] \in Elem /\ q[2] \in Elem
      /\ OfOneRank(p[1], p[2]) /\ OfOneRank(q[1], q[2])
      /\ Leq(x, p[1]) /\ Leq(f, p[2]) /\ Leq(y, q[1]) /\ Leq(g, q[2])
  BY <1>a, <1>b DEF OfOneRank
<1>5. /\ Describes(p[1], u) /\ Describes(p[2], w)
      /\ Describes(q[1], u) /\ Describes(q[2], w)
  BY <1>2, <1>4, DescribesIsMonotone
<1>6. \/ q[1] = p[1] /\ q[2] = p[2]
      \/ q[1] \in {Any, Top}
      \/ p[1] \in Singles
  <2>1. CASE q[1] \in Signs
    <3>1. y \notin {Any, Top} /\ g \notin {Any, Top} /\ q[2] \in Signs
      BY <2>1, <1>b, SingleFacts, ElementsDiffer
    <3>2. x \notin {Any, Top} /\ f \notin {Any, Top}
      <4>1. x \notin {Any, Top}
        BY <3>1, <1>3, LeqFacts, SingleFacts, ElementsDiffer
      <4>2. f \notin {Any, Top}
        BY <3>1, <1>3, LeqFacts, SingleFacts, ElementsDiffer
      <4> QED BY <4>1, <4>2
    <3>3. p[1] \in Singles \/ (p[1] \in Signs /\ p[2] \in Signs)
      BY <1>a, <3>2
    <3>4. p[1] \in Signs /\ p[2] \in Signs => p[1] = q[1] /\ p[2] = q[2]
      BY <1>1, <1>5, <2>1, <3>1, SignFacts
    <3> QED BY <3>3, <3>4
  <2>2. CASE q[1] \in Singles
    <3>1. y \in Singles /\ g \in Singles
      BY <2>2, <1>b, SingleFacts, ElementsDiffer
    <3>2. x \in Singles /\ f \in Singles
      <4>1. x \in Singles
        BY <3>1, <1>3, LeqFacts, SingleFacts, ElementsDiffer
      <4>2. f \in Singles
        BY <3>1, <1>3, LeqFacts, SingleFacts, ElementsDiffer
      <4> QED BY <4>1, <4>2
    <3>3. p[1] \in Singles
      BY <3>2, <1>a, SingleFacts, ElementsDiffer
    <3> QED BY <3>3
  <2>3. CASE q[1] \in {Any, Top}
    BY <2>3
  <2> QED BY <1>4, <2>1, <2>2, <2>3 DEF OfOneRank
<1> QED BY <1>3, <1>4, <1>5, <1>6 DEF p, q
=============================================================================
