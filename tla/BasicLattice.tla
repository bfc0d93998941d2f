---------------------------- MODULE BasicLattice ----------------------------
(***************************************************************************)
(* The value lattice of the constant propagation pass, my_passes::         *)
(* BasicLattice in passes/src/MyPasses.cc: its elements, the tree order    *)
(* getParent() draws on them, getLeastUpperBound() and toSameRank().       *)
(*                                                                         *)
(*                     Top                      rank 4                     *)
(*                     Any                      rank 3                     *)
(*        Negative     Zero     Positive        rank 2                     *)
(*      ... -2 -1       0        1 2 ...        rank 1  (SingleValue)      *)
(*                    Bottom                    rank 0                     *)
(***************************************************************************)
EXTENDS Integers

CONSTANTS MinInt, MaxInt      \* the range of an int (two's complement)

ASSUME IntRangeAssumption ==
  /\ MinInt \in Int
  /\ MaxInt \in Int
  /\ MaxInt > 0
  /\ MinInt = -MaxInt - 1

Value == MinInt .. MaxInt

\* What storing n in an int keeps of it.
Wrap(n) == ((n - MinInt) % (MaxInt - MinInt + 1)) + MinInt
-----------------------------------------------------------------------------

Bottom        == [type |-> "Bottom",   value |-> 0]
Negative      == [type |-> "Negative", value |-> 0]
Zero          == [type |-> "Zero",     value |-> 0]
Positive      == [type |-> "Positive", value |-> 0]
Any           == [type |-> "Any",      value |-> 0]
Top           == [type |-> "Top",      value |-> 0]
SingleValue(v) == [type |-> "SingleValue", value |-> v]

Signs   == {Negative, Zero, Positive}
Singles == {SingleValue(v) : v \in Value}
Elem    == {Bottom, Any, Top} \cup Signs \cup Singles

Rank(x) ==
  CASE x.type = "Bottom"      -> 0
    [] x.type = "SingleValue" -> 1
    [] x.type \in {"Positive", "Zero", "Negative"} -> 2
    [] x.type = "Any"         -> 3
    [] x.type = "Top"         -> 4

\* getParent() asserts that it is asked neither of Bottom nor of Top.
Parent(x) ==
  CASE x.type = "SingleValue" -> IF x.value > 0 THEN Positive
                                 ELSE IF x.value < 0 THEN Negative ELSE Zero
    [] x.type \in {"Positive", "Zero", "Negative"} -> Any
    [] x.type = "Any"         -> Top

\* The ancestor of x of rank r, for 1 <= Rank(x) <= r: getParent() applied
\* until the ranks agree, at most three times.
ClimbTo(x, r) ==
  IF Rank(x) = r THEN x
  ELSE IF Rank(Parent(x)) = r THEN Parent(x)
  ELSE IF Rank(Parent(Parent(x))) = r THEN Parent(Parent(x))
  ELSE Parent(Parent(Parent(x)))

\* toSameRank(): the lower of the two climbs to the rank of the other.
ToSameRank(a, b) ==
  IF Rank(a) < Rank(b) THEN <<ClimbTo(a, Rank(b)), b>>
                       ELSE <<a, ClimbTo(b, Rank(a))>>

\* A bug: two values climb past their sign at once.
MeetingSkipsSign(a, b) == IF a = b THEN a ELSE Parent(Parent(a))

\* Two elements of one rank climb together until they meet; two ranks up
\* every path of the tree has reached Any.
Meeting(a, b) ==
  IF a = b THEN a
  ELSE IF Parent(a) = Parent(b) THEN Parent(a)
  ELSE Parent(Parent(a))

\* A bug: the Bottom case is handled for the first argument only, and a
\* Bottom second argument is answered with Bottom.
LeastUpperBoundForgets(a, b) ==
  IF a = Bottom THEN b
  ELSE IF b = Bottom THEN b
  ELSE LET p == ToSameRank(a, b) IN Meeting(p[1], p[2])

\* getLeastUpperBound(): Bottom has no single parent and is handled apart.
LeastUpperBound(a, b) ==
  IF a = Bottom THEN b
  ELSE IF b = Bottom THEN a
  ELSE LET p == ToSameRank(a, b) IN Meeting(p[1], p[2])
-----------------------------------------------------------------------------
(* What the pass means by its elements; not code, used to state properties. *)

\* a is b or lies below it in the tree.
Leq(a, b) ==
  \/ a = Bottom
  \/ b # Bottom /\ Rank(a) <= Rank(b) /\ ClimbTo(a, Rank(b)) = b

\* The int v is one of those the element x stands for.
Describes(x, v) ==
  CASE x.type = "Bottom"      -> FALSE
    [] x.type = "SingleValue" -> v = x.value
    [] x.type = "Positive"    -> v > 0
    [] x.type = "Zero"        -> v = 0
    [] x.type = "Negative"    -> v < 0
    [] x.type \in {"Any", "Top"} -> TRUE
=============================================================================
