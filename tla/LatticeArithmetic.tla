------------------------- MODULE LatticeArithmetic -------------------------
(***************************************************************************)
(* A register of a compiled program, its int next to the elements constant *)
(* propagation computes for it, as instructions with two operands, joins   *)
(* at the head of a block and comparisons follow one another.  Two         *)
(* elements are carried along, as left by two rounds of the analysis of    *)
(* which one knew more: lo is below hi.                                    *)
(*                                                                         *)
(* The sign rules disregard that an i32 wraps around and that a division   *)
(* truncates.  Wraps and Truncates say whether the run contains such       *)
(* instructions; only without them is the element right.                   *)
(***************************************************************************)
EXTENDS BasicArithmetic

CONSTANTS Wraps, Truncates

ASSUME GapsAssumption == Wraps \in BOOLEAN /\ Truncates \in BOOLEAN

VARIABLES
  value,     \* the int in the register
  lo, hi     \* its elements

vars == <<value, lo, hi>>

\* flowState() gives a ConstantInt its value and an operand it has no entry
\* for Any.
Init ==
  /\ value \in Value
  /\ lo = SingleValue(value)
  /\ hi \in {SingleValue(value), Any}

\* The executions the program itself is defined on: no division by zero and
\* no MinInt / -1.
Defined(op, u, w) == op = "sdiv" => w # 0 /\ ~ (u = MinInt /\ w = -1)

Arithmetic(op, w, f, g) ==
  /\ Defined(op, value, w)
  /\ Exact(op, value, w) \in Value \/ Wraps
  /\ TruncatesToZero(op, value, w) => Truncates
  /\ ~ Aborts(op, lo, f) /\ ~ Aborts(op, hi, g)
  /\ value' = Wrap(Exact(op, value, w))
  /\ lo' = Transfer(op, lo, f)
  /\ hi' = Transfer(op, hi, g)

\* The operands may be either way round; a comparison whose operand is the
\* register covers the other order by the opposite predicate.
Comparison(pred, w, f, g) ==
  /\ ~ Aborts(pred, lo, f) /\ ~ Aborts(pred, hi, g)
  /\ value' = Bit(Holds(pred, value, w))
  /\ lo' = Transfer(pred, lo, f)
  /\ hi' = Transfer(pred, hi, g)

\* mergePredecessorStates() joins what another path has for the register.
Join(f, g) ==
  /\ lo' = LeastUpperBound(lo, f)
  /\ hi' = LeastUpperBound(hi, g)
  /\ UNCHANGED value

\* The elements an operand of value w may have in the two rounds.
Operand(w) == {p \in Elem \X Elem : Describes(p[1], w) /\ Leq(p[1], p[2])}

Next ==
  \/ \E op \in ArithOps, w \in Value : \E p \in Operand(w) :
        Arithmetic(op, w, p[1], p[2])
  \/ \E pred \in Predicates, w \in Value : \E p \in Operand(w) :
        Comparison(pred, w, p[1], p[2])
  \/ \E w \in Value : \E p \in Operand(w) : Join(p[1], p[2])

Spec == Init /\ [][Next]_vars

-----------------------------------------------------------------------------
(* The register's int is one of those its element stands for, however the  *)
(* register got there: what postprocess() (MyPasses.cc:288-297) relies on  *)
(* when it puts a SingleValue in place of the register.                    *)
ValueDescribed == Describes(lo, value) /\ Describes(hi, value)

(* Knowing more of the operands never makes the result less known: the     *)
(* abstract arithmetic is monotone, so that a round of                     *)
(* AbstractInterpretation.h:76-97 that starts from lower out states ends   *)
(* with lower ones.                                                        *)
ArithmeticMonotone == Leq(lo, hi)
=============================================================================
