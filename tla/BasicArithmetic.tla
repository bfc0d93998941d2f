-------------------------- MODULE BasicArithmetic --------------------------
(***************************************************************************)
(* The abstract arithmetic of constant propagation: what                   *)
(* ConstantPropagation::flowState() (passes/src/MyPasses.cc) computes for  *)
(* an instruction with two operands from the elements of its operands, and *)
(* the inputs on which it does not return.  Next to it, what the compiled  *)
(* instruction itself computes (LLVM, external).                           *)
(***************************************************************************)
EXTENDS BasicLattice

ArithOps   == {"add", "sub", "mul", "sdiv"}
Predicates == {"eq", "ne", "sgt", "sge", "slt", "sle"}

-----------------------------------------------------------------------------
(* Concrete: LLVM's i32 instructions *)

\* Division truncates towards zero.
Quotient(u, v) ==
  LET q == (IF u < 0 THEN -u ELSE u) \div (IF v < 0 THEN -v ELSE v)
  IN  IF (u < 0) = (v < 0) THEN q ELSE -q

\* The exact result, before it is cut to the width of an int.
Exact(op, u, v) ==
  CASE op = "add"  -> u + v
    [] op = "sub"  -> u - v
    [] op = "mul"  -> u * v
    [] op = "sdiv" -> Quotient(u, v)

\* The quotient is zero though the dividend is not.
TruncatesToZero(op, u, w) == op = "sdiv" /\ u # 0 /\ Quotient(u, w) = 0

Holds(pred, u, v) ==
  CASE pred = "eq"  -> u = v
    [] pred = "ne"  -> u # v
    [] pred = "sgt" -> u > v
    [] pred = "sge" -> u >= v
    [] pred = "slt" -> u < v
    [] pred = "sle" -> u <= v

Bit(b) == IF b THEN 1 ELSE 0

-----------------------------------------------------------------------------
(* Abstract *)

SignOf(x) ==
  CASE x.type = "Negative" -> -1
    [] x.type = "Zero"     -> 0
    [] x.type = "Positive" -> 1

OfSign(n) == IF n > 0 THEN Positive ELSE IF n < 0 THEN Negative ELSE Zero

\* A bug: equal signs count as "not greater".
IsGreaterThanGuesses(a, b) == IF SignOf(a) > SignOf(b) THEN 1 ELSE 0

\* BasicLattice::isGreaterThan() on two signs: 1 yes, 0 no, -1 unknown.
IsGreaterThan(a, b) ==
  IF SignOf(a) > SignOf(b) THEN 1
  ELSE IF SignOf(a) <= 0 /\ SignOf(b) >= 0 THEN 0
  ELSE -1

\* The comparison of two elements of one rank.
Compare(pred, a, b) ==
  IF a.type = "SingleValue" THEN SingleValue(Bit(Holds(pred, a.value, b.value)))
  ELSE IF a \in Signs THEN
    LET g == IsGreaterThan(a, b) IN
    CASE pred = "eq" -> Any
      [] pred = "ne" -> IF a # b THEN SingleValue(1) ELSE Any
      [] pred \in {"sgt", "sge"} -> IF g = -1 THEN Any ELSE SingleValue(g)
      [] pred \in {"slt", "sle"} -> IF g = -1 THEN Any ELSE SingleValue(1 - g)
  ELSE Any

\* The sign rules; a quotient with a zero dividend is the value 0.
SignRule(op, a, b) ==
  CASE op = "add"  -> IF SignOf(a) + SignOf(b) = 0 THEN Any
                      ELSE OfSign(SignOf(a) + SignOf(b))
    [] op = "sub"  -> IF SignOf(a) = SignOf(b) THEN Any
                      ELSE OfSign(SignOf(a) - SignOf(b))
    [] op = "mul"  -> OfSign(SignOf(a) * SignOf(b))
    [] op = "sdiv" -> IF a = Zero THEN SingleValue(0)
                      ELSE OfSign(SignOf(a) * SignOf(b))

\* The arithmetic of two elements of one rank.
Compute(op, a, b) ==
  IF a.type = "SingleValue" THEN SingleValue(Wrap(Exact(op, a.value, b.value)))
  ELSE IF a \in Signs THEN SignRule(op, a, b)
  ELSE Any

\* The element flowState() stores for "x op y"; op may be a predicate, the
\* instruction then being the icmp.
Transfer(op, x, y) ==
  LET p == ToSameRank(x, y) IN
  IF op \in Predicates THEN Compare(op, p[1], p[2]) ELSE Compute(op, p[1], p[2])

\* The operands on which flowState() does not return: getParent() asserts on
\* a lone Bottom, two operands of which nothing but the sign 0 is known are
\* asserted away, no rule covers two Bottoms or two Tops outside icmp, and
\* dividing by the value 0 traps while dividing by the sign 0 asserts.
Aborts(op, x, y) ==
  \/ (x = Bottom) # (y = Bottom)
  \/ /\ x # Bottom
     /\ LET p == ToSameRank(x, y) IN
        \/ p = <<Zero, Zero>>
        \/ op \notin Predicates /\ p[1] = Top
        \/ op = "sdiv" /\ (p[2] = Zero \/ p[2] = SingleValue(0))
  \/ op \notin Predicates /\ x = Bottom
=============================================================================
