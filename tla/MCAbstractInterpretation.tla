----------------------- MODULE MCAbstractInterpretation -----------------------
(* AbstractInterpretation with a small analysis of two variables: what the *)
(* largest of the values 1 and 2 is that may have reached each of them.    *)
(* The functions are all flow graphs of three blocks, with some bodies.    *)
EXTENDS AbstractInterpretationRefinement

MCName == {"x", "y"}
MCElem == 0 .. 2
MCLeq(a, b) == a <= b
MCLeastUpperBound(a, b) == IF a >= b THEN a ELSE b

\* x := 1, x := 2, y := x, x := y, and one that rejects that y may be 2.
MCInst == {"x1", "x2", "yx", "xy", "check"}

Copy(dst, src, s) ==
  [n \in (DOMAIN s \ {dst}) \cup (IF src \in DOMAIN s THEN {dst} ELSE {}) |->
     IF n = dst THEN s[src] ELSE s[n]]

MCFlowState(i, s) ==
  CASE i = "x1" -> [n \in DOMAIN s \cup {"x"} |-> IF n = "x" THEN 1 ELSE s[n]]
    [] i = "x2" -> [n \in DOMAIN s \cup {"x"} |-> IF n = "x" THEN 2 ELSE s[n]]
    [] i = "yx" -> Copy("y", "x", s)
    [] i = "xy" -> Copy("x", "y", s)
    [] OTHER    -> s

MCFlowAborts(i, s) == i = "check" /\ "y" \in DOMAIN s /\ s["y"] = 2

MCPostprocess(f, out, in) == f

Body == {<<"x1">>, <<"yx", "x2">>, <<"xy">>, <<"check">>}

MCFunctions ==
  {<<[insts |-> b1, preds |-> {}], [insts |-> b2, preds |-> p2],
     [insts |-> b3, preds |-> p3]>> :
       b1 \in {<<"x1">>, <<"yx", "x2">>}, b2, b3 \in Body, p2, p3 \in SUBSET (1 .. 3)}
=============================================================================
