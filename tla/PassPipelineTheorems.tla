------------------------ MODULE PassPipelineTheorems ------------------------
(***************************************************************************)
(* What holds of the passes on every function, for ints of every width and *)
(* whatever passes ran before.  One is only ever stopped for the causes    *)
(* AbortsForACause names: the states of ai_cp know no name as Bottom or    *)
(* Top, and those of ai_dce none as Bottom.  And they keep what the        *)
(* function does until it comes by something ai_cp misjudges               *)
(* (DiffersOnlyMisjudged), in four steps:                                  *)
(*   - the states ai_cp ends with are right wherever the function gets to  *)
(*     that has not misjudged anything on its way (ReachedSound);          *)
(*   - so what a pass leaves agrees with the function opt was given: the   *)
(*     instructions left, in their order, each but for operands replaced   *)
(*     by the values they have (Agree);                                    *)
(*   - at the same instruction the two functions do the same (AtSame);     *)
(*   - and they get from one such instruction to the next (TrackInv).      *)
(***************************************************************************)
EXTENDS PassPipeline, BasicLatticeTheorems, WellFoundedInduction

IsInformed(state) == \A n \in DOMAIN state : state[n] \in Informed

IsRanked(state) == \A n \in DOMAIN state : state[n] # DCE!Bottom

(* The invariant: functions stay functions from pass to pass, ai_cp knows  *)
(* names by elements it has rules for, and ai_dce knows none as Bottom.    *)
PipeInv ==
  /\ IsFunction(func)
  /\ Head(passes) = "ai_cp" /\ phase \in {"round", "block"} =>
       /\ DOMAIN bb_state = 1 .. Len(func)
       /\ \A b \in 1 .. Len(func) : IsInformed(bb_state[b])
       /\ DOMAIN inst_state_in = CP!Points(func)
       /\ \A p \in CP!Points(func) : IsInformed(inst_state_in[p])
  /\ Head(passes) = "ai_cp" /\ phase = "block" =>
       /\ blk \in 1 .. Len(func) /\ idx \in Nat \ {0}
       /\ pending \subseteq func[blk].preds
       /\ IsInformed(cur_state)
  /\ Head(passes) = "ai_dce" /\ phase \in {"round", "block"} =>
       DOMAIN bb_state = 1 .. Len(func) /\ \A b \in 1 .. Len(func) : IsRanked(bb_state[b])
  /\ Head(passes) = "ai_dce" /\ phase = "block" =>
       /\ blk \in 1 .. Len(func)
       /\ pending \subseteq func[blk].preds
       /\ IsRanked(cur_state)
  /\ AbortsForACause

(* ai_cp has the lattice and the rules of this module.                     *)
LEMMA SameElements ==
  /\ CP!Bottom = Bottom /\ CP!Negative = Negative /\ CP!Zero = Zero
  /\ CP!Positive = Positive /\ CP!Any = Any /\ CP!Top = Top
  /\ CP!Signs = Signs
  /\ \A v : CP!SingleValue(v) = SingleValue(v)
  /\ \A x : CP!Rank(x) = Rank(x) /\ CP!Parent(x) = Parent(x) /\ CP!SignOf(x) = SignOf(x)
BY DEF CP!Bottom, Bottom, CP!Negative, Negative, CP!Zero, Zero, CP!Positive, Positive,
       CP!Any, Any, CP!Top, Top, CP!Signs, Signs, CP!SingleValue, SingleValue,
       CP!Rank, Rank, CP!Parent, Parent, CP!SignOf, SignOf

LEMMA SameRules ==
  /\ \A x, y : CP!ToSameRank(x, y) = ToSameRank(x, y)
  /\ \A x, y : CP!LeastUpperBound(x, y) = LeastUpperBound(x, y)
  /\ \A op, x, y : CP!Transfer(op, x, y) = Transfer(op, x, y)
  /\ \A op, x, y : CP!Aborts(op, x, y) <=> Aborts(op, x, y)
<1>1. \A x, r : CP!ClimbTo(x, r) = ClimbTo(x, r)
  BY SameElements DEF CP!ClimbTo, ClimbTo
<1>2. \A x, y : CP!ToSameRank(x, y) = ToSameRank(x, y)
  BY <1>1, SameElements DEF CP!ToSameRank, ToSameRank
<1>3. \A x, y : CP!Meeting(x, y) = Meeting(x, y)
  BY SameElements DEF CP!Meeting, Meeting
<1>4. \A x, y : CP!LeastUpperBound(x, y) = LeastUpperBound(x, y)
  BY <1>2, <1>3, SameElements DEF CP!LeastUpperBound, LeastUpperBound
<1>5. \A op, x, y : CP!Aborts(op, x, y) <=> Aborts(op, x, y)
  BY <1>2, SameElements DEF CP!Aborts, Aborts, CP!Predicates, Predicates
<1>6. \A op, x, y : CP!Compare(op, x, y) = Compare(op, x, y)
  BY DEF CP!Compare, Compare, CP!IsGreaterThan, IsGreaterThan, CP!SignOf, SignOf, CP!Holds, Holds,
         CP!Bit, Bit, CP!SingleValue, SingleValue, CP!Any, Any, CP!Signs, Signs,
         CP!Negative, Negative, CP!Zero, Zero, CP!Positive, Positive
<1>7. \A op, x, y : CP!Compute(op, x, y) = Compute(op, x, y)
  BY DEF CP!Compute, Compute, CP!Wrap, Wrap, CP!Exact, Exact, CP!Quotient, Quotient,
         CP!SignRule, SignRule, CP!OfSign, OfSign, CP!SignOf, SignOf,
         CP!SingleValue, SingleValue, CP!Any, Any, CP!Signs, Signs,
         CP!Negative, Negative, CP!Zero, Zero, CP!Positive, Positive
<1>8. \A op, x, y : CP!Transfer(op, x, y) = Transfer(op, x, y)
  BY <1>2, <1>6, <1>7 DEF CP!Transfer, Transfer, CP!Predicates, Predicates
<1> QED BY <1>2, <1>4, <1>5, <1>8

(* Induction over the naturals, for a set: its least non-member would have *)
(* a member before it.                                                     *)
LEMMA NaturalInduction ==
  ASSUME NEW T, 0 \in T, \A n \in Nat : n \in T => n + 1 \in T
  PROVE  Nat \subseteq T
<1> SUFFICES ASSUME ~ (Nat \subseteq T) PROVE FALSE
  OBVIOUS
<1> DEFINE U == Nat \ T
<1>1. U \subseteq Nat /\ U # {}
  OBVIOUS
<1>2. PICK n \in U : \A m \in U : n <= m
  <2> DEFINE R == OpToRel(<, Nat)
  <2>0. IsWellFoundedOn(R, Nat)
    BY Zenon, NatLessThanWellFounded
  <2>1. PICK n \in U : \A m \in U : <<m, n>> \notin R
    <3> HIDE DEF R, U
    <3> QED BY <1>1, <2>0, WFMin
  <2>2. \A m \in U : ~ (m < n)
    BY <2>1 DEF OpToRel
  <2> QED BY <2>2
<1>3. n # 0 /\ n - 1 \in Nat
  BY <1>2
<1>4. n - 1 \in T
  BY <1>2, <1>3
<1> QED BY <1>2, <1>3, <1>4

-----------------------------------------------------------------------------
(* ai_cp: the states it has rules for. *)

LEMMA InstructionFacts ==
  ASSUME NEW i \in Instructions
  PROVE  /\ i \in [op : Opcodes, name : Names, args : Seq(Operand), from : Seq(Nat)]
         /\ i.args \in Seq(Operand) /\ Len(i.args) \in Nat /\ DOMAIN i.args = 1 .. Len(i.args)
         /\ \A k \in 1 .. Len(i.args) : i.args[k].kind = "const" => i.args[k].value \in Value
         /\ i.op \in Opcodes
         /\ i.op = "phi" => Len(i.args) > 0
         /\ i.op \in {"load", "sext", "alloca"} => Len(i.args) = 1
         /\ i.op \in BinaryOps \cup ICmps \cup {"store"} => Len(i.args) = 2
<1>1. /\ i \in [op : Opcodes, name : Names, args : Seq(Operand), from : Seq(Nat)]
      /\ \A x \in Operands(i) : x.kind = "const" => x.value \in Value
      /\ i.op = "phi" => i.args # <<>>
      /\ i.op \in {"load", "sext", "alloca"} => Len(i.args) = 1
      /\ i.op \in BinaryOps \cup ICmps \cup {"store"} => Len(i.args) = 2
  BY DEF Instructions
<1>2. i.args \in Seq(Operand) /\ i.op \in Opcodes
  BY <1>1
<1>3. Len(i.args) \in Nat /\ DOMAIN i.args = 1 .. Len(i.args)
  BY <1>2
<1>4. i.op = "phi" => Len(i.args) > 0
  BY <1>1, <1>2, <1>3
<1>5. ASSUME NEW k \in 1 .. Len(i.args)
      PROVE  i.args[k].kind = "const" => i.args[k].value \in Value
  BY <1>1, <1>3 DEF Operands
<1> QED BY <1>1, <1>2, <1>3, <1>4, <1>5

LEMMA ElementStays ==
  ASSUME NEW x, x.kind = "const" => x.value \in Value, NEW state, IsInformed(state)
  PROVE  CP!ElementOf(x, state) \in Informed /\ CP!Known(x, state) \in Informed
<1>1. Any \in Informed
  BY ElementsDiffer DEF Informed
<1>2. \A v \in Value : SingleValue(v) \in Informed
  BY SingleFacts DEF Singles, Informed
<1> QED BY <1>1, <1>2, SameElements DEF CP!ElementOf, CP!Known, IsInformed

LEMMA BoundStays ==
  ASSUME NEW x \in Informed \cup {Bottom}, NEW y \in Informed
  PROVE  LeastUpperBound(x, y) \in Informed /\ (x # Bottom => LeastUpperBound(y, x) \in Informed)
<1>1. Any \in Informed /\ Signs \subseteq Informed
  BY ElementsDiffer DEF Informed
<1>2. x \in Elem /\ y \in Elem /\ x # Top /\ y # Bottom
  BY ElementsDiffer DEF Informed
<1>3. CASE x = Bottom
  BY <1>3 DEF LeastUpperBound
<1>4. CASE x \in Informed
  BY <1>1, <1>2, <1>4, LeastUpperBoundFacts, SingleFacts
<1> QED BY <1>3, <1>4

LEMMA MergeStays ==
  ASSUME NEW A, NEW B, IsInformed(A), IsInformed(B)
  PROVE  IsInformed(CP!MergeStates(A, B))
BY BoundStays, SameRules DEF IsInformed, CP!MergeStates

LEMMA UpdateStays ==
  ASSUME NEW state, IsInformed(state), NEW n, NEW x \in Informed
  PROVE  IsInformed(CP!Update(state, n, x))
BY DEF IsInformed, CP!Update

(* The bound of the operands of a phi: that the recursion has a solution,  *)
(* and that every step of it stays.                                        *)
LEMMA PhiStays ==
  ASSUME NEW i \in Instructions, i.op = "phi", NEW state, IsInformed(state)
  PROVE  /\ CP!PhiBound(i, state) \in Informed
         /\ \A k \in 1 .. Len(i.args) : Leq(CP!ElementOf(i.args[k], state), CP!PhiBound(i, state))
<1> DEFINE n == Len(i.args)
           E(k) == CP!ElementOf(i.args[k], state)
           Step(f, k) == IF k = 0 THEN CP!Bottom ELSE CP!LeastUpperBound(f[k - 1], E(k))
           bound[k \in 0 .. n] == IF k = 0 THEN CP!Bottom ELSE CP!LeastUpperBound(bound[k - 1], E(k))
           T == {m \in Nat : \E f : f = [k \in 0 .. m |-> Step(f, k)]}
<1>0. n \in Nat \ {0} /\ \A k \in 1 .. n : E(k) \in Informed
  BY InstructionFacts, ElementStays
<1>1. 0 \in T
  <2>1. [k \in 0 .. 0 |-> CP!Bottom] = [k \in 0 .. 0 |-> Step([k1 \in 0 .. 0 |-> CP!Bottom], k)]
    <3> HIDE DEF E
    <3> QED OBVIOUS
  <2> QED BY <2>1
<1>2. ASSUME NEW m \in Nat, m \in T PROVE m + 1 \in T
  <2>1. PICK f : f = [k \in 0 .. m |-> Step(f, k)]
    BY <1>2
  <2> DEFINE g == [k \in 0 .. m + 1 |-> IF k = m + 1 THEN Step(f, k) ELSE f[k]]
  <2>2. \A k \in 0 .. m + 1 : g[k] = Step(g, k)
    <3>1. \A k \in 0 .. m : f[k] = Step(f, k)
      <4> HIDE DEF Step
      <4> QED BY <2>1
    <3>2. ASSUME NEW k \in 0 .. m + 1, k # 0 PROVE g[k - 1] = f[k - 1]
      <4> HIDE DEF Step
      <4> QED BY <3>2
    <3>3. ASSUME NEW k \in 0 .. m + 1 PROVE g[k] = Step(g, k)
      <4>1. g[k] = Step(f, k)
        <5> HIDE DEF Step
        <5> QED BY <3>1
      <4> HIDE DEF g, E
      <4> QED BY <3>2, <4>1
    <3> QED BY <3>3
  <2>3. g = [k \in 0 .. m + 1 |-> Step(g, k)]
    <3> HIDE DEF Step
    <3> QED BY <2>2
  <2> HIDE DEF g, E, Step
  <2> QED BY <2>3
<1>3. Nat \subseteq T
  <2> HIDE DEF T
  <2> QED BY <1>1, <1>2, NaturalInduction
<1>4. bound = [k \in 0 .. n |-> Step(bound, k)]
  <2>1. \E f : f = [k \in 0 .. n |-> Step(f, k)]
    <3> HIDE DEF n, Step
    <3> QED BY <1>0, <1>3
  <2> HIDE DEF n, E
  <2> QED BY <2>1
<1>5. \A k \in 0 .. n : bound[k] = Step(bound, k)
  <2> HIDE DEF Step, n
  <2> QED BY <1>4
<1>6. CP!PhiBound(i, state) = bound[n]
  BY DEF CP!PhiBound
<1> HIDE DEF bound, n, E
<1> DEFINE Above(m) == bound[m] \in Informed /\ \A k \in 1 .. m : Leq(E(k), bound[m])
           U == {m \in Nat : m + 1 <= n => Above(m + 1)}
<1>7. 0 \in U
  <2>1. 1 \in 0 .. n /\ 0 \in 0 .. n /\ 1 \in 1 .. n
    BY <1>0
  <2>2. bound[0] = CP!Bottom /\ bound[1] = CP!LeastUpperBound(bound[0], E(1))
    BY <1>5, <2>1
  <2>3. E(1) \in Informed /\ LeastUpperBound(Bottom, E(1)) \in Informed
    BY <1>0, <2>1, BoundStays
  <2>4. bound[1] = LeastUpperBound(Bottom, E(1))
    BY <2>2, SameElements, SameRules
  <2>5. Leq(E(1), bound[1])
    BY <2>3, <2>4, LeastUpperBoundIsLeast, ElementsDiffer DEF Informed
  <2>6. Above(1)
    BY <2>3, <2>4, <2>5
  <2> HIDE DEF Above
  <2> QED BY <2>6
<1>8. ASSUME NEW m \in Nat, m \in U PROVE m + 1 \in U
  <2> SUFFICES ASSUME (m + 1) + 1 <= n PROVE Above((m + 1) + 1)
    OBVIOUS
  <2>1. (m + 1) + 1 \in 0 .. n /\ (m + 1) + 1 \in 1 .. n /\ (m + 1) + 1 # 0 /\ ((m + 1) + 1) - 1 = m + 1
    BY <1>0
  <2>2. bound[m + 1] \in Informed /\ \A k \in 1 .. m + 1 : Leq(E(k), bound[m + 1])
    BY <1>0, <1>8
  <2> DEFINE new == bound[(m + 1) + 1]
  <2>3. new = LeastUpperBound(bound[m + 1], E((m + 1) + 1))
    BY <1>5, <2>1, SameRules
  <2>4. new \in Informed /\ E((m + 1) + 1) \in Informed
    BY <1>0, <2>1, <2>2, <2>3, BoundStays
  <2>5. Leq(bound[m + 1], new) /\ Leq(E((m + 1) + 1), new)
    BY <2>2, <2>3, <2>4, LeastUpperBoundIsLeast DEF Informed
  <2> HIDE DEF new
  <2>6. \A k \in 1 .. m + 1 : E(k) \in Elem
    BY <1>0, <2>1 DEF Informed
  <2>7. \A k \in 1 .. m + 1 : Leq(E(k), new)
    BY <2>2, <2>4, <2>5, <2>6, LeqIsPartialOrder DEF Informed
  <2>8. \A k \in 1 .. (m + 1) + 1 : k \in 1 .. m + 1 \/ k = (m + 1) + 1
    OBVIOUS
  <2> QED BY <2>4, <2>5, <2>7, <2>8 DEF new
<1>9. n - 1 \in U
  <2> HIDE DEF U
  <2>1. Nat \subseteq U
    BY <1>7, <1>8, NaturalInduction
  <2> QED BY <1>0, <2>1
<1>10. Above((n - 1) + 1) /\ (n - 1) + 1 = n
  <2> HIDE DEF Above
  <2> QED BY <1>0, <1>9
<1> QED BY <1>6, <1>10 DEF n, E

(* flowState() keeps to the states it has rules for.                       *)
LEMMA FlowStays ==
  ASSUME NEW i \in Instructions, NEW state, IsInformed(state), ~ CP!FlowAborts(i, state)
  PROVE  IsInformed(CP!FlowState(i, state))
<1> DEFINE E(k) == CP!ElementOf(i.args[k], state)
<1>0. \A k \in 1 .. Len(i.args) : E(k) \in Informed
  BY InstructionFacts, ElementStays
<1>1. Any \in Informed
  BY ElementsDiffer DEF Informed
<1>2. CASE i.op = "store"
  <2>1. CP!FlowState(i, state) = CP!Update(state, i.args[2].name, E(1))
    BY <1>2 DEF CP!FlowState
  <2>2. E(1) \in Informed
    BY <1>0, <1>2, InstructionFacts
  <2> HIDE DEF E
  <2> QED BY <2>1, <2>2, UpdateStays
<1>3. CASE i.op = "phi"
  <2>1. CP!FlowState(i, state) = CP!Update(state, i.name, CP!PhiBound(i, state))
    BY <1>3 DEF CP!FlowState
  <2> QED BY <1>3, <2>1, PhiStays, UpdateStays
<1>4. CASE i.op \in {"load", "sext"}
  <2>1. CP!FlowState(i, state) = CP!Update(state, i.name, CP!Known(i.args[1], state))
    BY <1>4 DEF CP!FlowState
  <2>2. CP!Known(i.args[1], state) \in Informed
    BY <1>4, InstructionFacts, ElementStays
  <2> QED BY <2>1, <2>2, UpdateStays
<1>5. CASE i.op \in {"call", "ret", "br"}
  <2>1. CP!FlowState(i, state) \in {state, CP!Update(state, i.name, Any)}
    BY <1>5, SameElements DEF CP!FlowState
  <2> QED BY <1>1, <2>1, UpdateStays
<1>6. CASE i.op \in BinaryOps \cup ICmps
  <2>1. i.op \notin {"store", "phi", "load", "sext", "call", "ret", "br"} /\ i.op \in ArithOps \cup Predicates
    BY <1>6 DEF BinaryOps, ICmps, ArithOps, Predicates
  <2>2. /\ ~ Aborts(i.op, E(1), E(2))
        /\ E(1) \in Informed /\ E(2) \in Informed
    <3>1. Len(i.args) = 2
      BY <1>6, InstructionFacts
    <3> QED BY <1>0, <2>1, <3>1, SameRules DEF CP!FlowAborts
  <2>3. CP!FlowState(i, state) = CP!Update(state, i.name, Transfer(i.op, E(1), E(2)))
    BY <2>1, SameRules DEF CP!FlowState
  <2> HIDE DEF E
  <2>4. Transfer(i.op, E(1), E(2)) \in Informed
    BY <2>1, <2>2, TransferStays
  <2> QED BY <2>3, <2>4, UpdateStays
<1>7. CASE i.op = "alloca"
  BY <1>7, InstructionFacts DEF CP!FlowAborts
<1> QED BY <1>2, <1>3, <1>4, <1>5, <1>6, <1>7, InstructionFacts DEF Opcodes

(* The causes for which it does not return.                                *)
LEMMA AbortHasACause ==
  ASSUME NEW i \in Instructions, NEW state, IsInformed(state), CP!FlowAborts(i, state)
  PROVE  LET Element(k) == CP!ElementOf(i.args[k], state) IN
         \/ Len(i.args) > 3
         \/ \E x \in Operands(i) : x.kind = "undef"
         \/ i.op = "alloca"
         \/ i.op = "sdiv" /\ Element(2) \in {SingleValue(0), Zero}
         \/ {Element(1), Element(2)} \in {{Zero}, {Zero, SingleValue(0)}}
<1> DEFINE E(k) == CP!ElementOf(i.args[k], state)
<1>1. CASE i.op = "store" /\ CP!NoElement(i.args[1])
  <2>1. i.args[1] \in Operands(i)
    BY <1>1, InstructionFacts DEF Operands
  <2> QED BY <1>1, <2>1 DEF CP!NoElement
<1>2. CASE \E x \in CP!Operands(i) : CP!NoElement(x)
  BY <1>2 DEF CP!NoElement, CP!Operands, Operands
<1>3. CASE /\ i.op \notin {"store", "phi", "load", "sext", "call", "ret", "br", "alloca"}
           /\ Len(i.args) # 2 \/ CP!Aborts(i.op, E(1), E(2))
  <2>1. i.op \in BinaryOps \cup ICmps
    BY <1>3, InstructionFacts DEF Opcodes
  <2>2. i.op \in ArithOps \cup Predicates
    BY <2>1 DEF BinaryOps, ICmps, ArithOps, Predicates
  <2>3. Len(i.args) = 2 /\ E(1) \in Informed /\ E(2) \in Informed
    BY <2>1, InstructionFacts, ElementStays
  <2>4. Aborts(i.op, E(1), E(2))
    BY <1>3, <2>3, SameRules
  <2> HIDE DEF E
  <2>5. \/ i.op = "sdiv" /\ E(2) \in {SingleValue(0), Zero}
        \/ {E(1), E(2)} \in {{Zero}, {Zero, SingleValue(0)}}
    BY <2>2, <2>3, <2>4, TransferStays
  <2> QED BY <2>5 DEF E
<1> QED BY <1>1, <1>2, <1>3 DEF CP!FlowAborts

-----------------------------------------------------------------------------
(* The functions. *)

LEMMA FunctionFacts ==
  ASSUME NEW f, IsFunction(f)
  PROVE  /\ f \in Seq([insts : Seq(Instructions), preds : SUBSET (1 .. Len(f))])
         /\ Len(f) \in Nat \ {0} /\ DOMAIN f = 1 .. Len(f)
         /\ \A b \in 1 .. Len(f) :
              /\ f[b] \in [insts : Seq(Instructions), preds : SUBSET (1 .. Len(f))]
              /\ f[b].insts \in Seq(Instructions) /\ f[b].preds \subseteq 1 .. Len(f)
              /\ Len(f[b].insts) \in Nat /\ DOMAIN f[b].insts = 1 .. Len(f[b].insts)
              /\ \A k \in 1 .. Len(f[b].insts) : f[b].insts[k] \in Instructions
<1> DEFINE Block == [insts : Seq(Instructions), preds : SUBSET (1 .. Len(f))]
<1>1. f \in Seq(Block) /\ f # <<>>
  BY DEF IsFunction
<1>2. Len(f) \in Nat \ {0} /\ DOMAIN f = 1 .. Len(f) /\ \A b \in 1 .. Len(f) : f[b] \in Block
  <2> HIDE DEF Block
  <2> QED BY <1>1
<1>3. ASSUME NEW b \in 1 .. Len(f)
      PROVE  f[b].insts \in Seq(Instructions) /\ f[b].preds \subseteq 1 .. Len(f)
  BY <1>2
<1>4. ASSUME NEW b \in 1 .. Len(f)
      PROVE  /\ Len(f[b].insts) \in Nat /\ DOMAIN f[b].insts = 1 .. Len(f[b].insts)
             /\ \A k \in 1 .. Len(f[b].insts) : f[b].insts[k] \in Instructions
  BY <1>3
<1> QED BY <1>1, <1>2, <1>3, <1>4

-----------------------------------------------------------------------------
(* The function before the passes, run alone.  A configuration is its      *)
(* machine with the variables whose value it has itself stored last.       *)

\* Where the runs start.
Starts(f) == {[m |-> StartMachine(arg), own |-> {}] : arg \in [Parameters(f) -> Value]}

\* Where it gets by one step.
StepOf(f, c, input, effect) ==
  LET i == Current(f, c.m) IN
  [m   |-> After(f, c.m, input, effect),
   own |-> (IF i.op = "store" THEN c.own \cup {i.args[2].name} ELSE c.own) \ DOMAIN effect]

\* ai_cp takes the instruction f is at for what it is.
Understood(f, c) ==
  LET i == Current(f, c.m) IN Defined(i, c.m) /\ ~Misjudges(f, c.own, i, c.m)

\* A step of f, with any input and any effect of the functions called, from
\* where ai_cp understands it.
Steps(f, c, d) ==
  /\ Understood(f, c) /\ Current(f, c.m).op # "ret"
  /\ \E input \in Value, effect \in Effects :
       /\ Current(f, c.m).op # "call" => effect = EmptyState
       /\ d = StepOf(f, c, input, effect)

\* r are the configurations of a run of n steps.
RunsTo(f, r, n) == r[0] \in Starts(f) /\ \A k \in 0 .. n - 1 : Steps(f, r[k], r[k + 1])

\* f gets to c without doing anything that ai_cp misjudges.
Reached(f, c) == \E n \in Nat : \E r : RunsTo(f, r, n) /\ r[n] = c

(* f gets to where it starts.                                              *)
LEMMA StartReached ==
  ASSUME NEW f, NEW c \in Starts(f)
  PROVE  Reached(f, c)
<1> DEFINE r == [k \in {0} |-> c]
<1>1. RunsTo(f, r, 0) /\ r[0] = c
  BY DEF RunsTo
<1> HIDE DEF r
<1> QED BY <1>1 DEF Reached

(* From where f gets to it gets on, by a step ai_cp understands.           *)
LEMMA StepReached ==
  ASSUME NEW f, NEW c, NEW d, Reached(f, c), Steps(f, c, d)
  PROVE  Reached(f, d)
<1>1. PICK n \in Nat : \E r : RunsTo(f, r, n) /\ r[n] = c
  BY DEF Reached
<1>2. PICK r : RunsTo(f, r, n) /\ r[n] = c
  BY <1>1
<1> DEFINE s == [k \in 0 .. n + 1 |-> IF k = n + 1 THEN d ELSE r[k]]
<1>3. s[0] = r[0] /\ s[n + 1] = d /\ \A k \in 0 .. n : s[k] = r[k]
  OBVIOUS
<1> HIDE DEF s
<1>4. \A k \in 0 .. (n + 1) - 1 : Steps(f, s[k], s[k + 1])
  <2> TAKE k \in 0 .. (n + 1) - 1
  <2>1. CASE k = n
    <3>1. s[k] = c /\ s[k + 1] = d
      BY <1>2, <1>3, <2>1
    <3> QED BY <3>1
  <2>2. CASE k # n
    <3>1. k \in 0 .. n - 1 /\ k \in 0 .. n /\ k + 1 \in 0 .. n
      BY <2>2
    <3>2. s[k] = r[k] /\ s[k + 1] = r[k + 1] /\ Steps(f, r[k], r[k + 1])
      BY <1>2, <1>3, <3>1 DEF RunsTo
    <3> QED BY <3>2
  <2> QED BY <2>1, <2>2
<1>5. RunsTo(f, s, n + 1) /\ n + 1 \in Nat
  BY <1>2, <1>3, <1>4 DEF RunsTo
<1> QED BY <1>3, <1>5 DEF Reached

-----------------------------------------------------------------------------
(* What IsVerified says of an instruction. *)

(* The instructions of a block are instructions of the function.           *)
LEMMA PlaceFacts ==
  ASSUME NEW f, IsFunction(f), NEW b \in 1 .. Len(f), NEW k \in 1 .. Len(f[b].insts)
  PROVE  /\ f[b].insts[k] \in Instructions /\ f[b].insts[k] \in Insts(f)
         /\ b \in Nat /\ k \in Nat /\ Len(f[b].insts) \in Nat
<1>1. /\ f[b].insts[k] \in Instructions /\ DOMAIN f[b].insts = 1 .. Len(f[b].insts)
      /\ Len(f[b].insts) \in Nat /\ Len(f) \in Nat
  BY Zenon, FunctionFacts
<1> QED BY <1>1 DEF Insts

(* What IsVerified says of the instruction at one place.                   *)
LEMMA VerifiedFacts ==
  ASSUME NEW f, IsVerified(f), NEW b \in 1 .. Len(f), NEW k \in 1 .. Len(f[b].insts)
  PROVE  LET i == f[b].insts[k]
             n == Len(i.args)
         IN  /\ f[b].insts # <<>>
             /\ i.op \in {"br", "ret"} <=> k = Len(f[b].insts)
             /\ i.op \in {"store", "br", "ret"} => i.name = Unnamed
             /\ i.op \notin {"store", "br", "ret", "call"} => i.name # Unnamed
             /\ i.op = "phi" => Len(i.from) = Len(i.args)
             /\ i.op = "load" => IsPointer(f, i.args[1])
             /\ i.op = "store" => IsValue(i.args[1]) /\ IsPointer(f, i.args[2])
             /\ i.op = "br" => \/ n = 1 /\ IsLabel(f, b, i.args[1])
                               \/ /\ n = 3 /\ IsValue(i.args[1])
                                  /\ IsLabel(f, b, i.args[2]) /\ IsLabel(f, b, i.args[3])
             /\ i.op = "call" => /\ n > 0 /\ i.args[n].kind = "function" /\ i.args[n].name \notin GlobalsOf(f)
                                 /\ \A j \in 1 .. n - 1 : IsValue(i.args[j])
             /\ i.op = "sext" => /\ IsValue(i.args[1]) /\ i.args[1].kind = "register"
                                 /\ \A j \in Insts(f) : j.name = i.args[1].name => j.op \in ICmps
             /\ i.op \notin {"load", "store", "br", "call", "sext"} =>
                  n > 0 /\ \A j \in 1 .. n : IsValue(i.args[j])
<1> DEFINE i == f[b].insts[k]
           n == Len(i.args)
<1>1. /\ f[b].insts # <<>>
      /\ i.op \in {"br", "ret"} <=> k = Len(f[b].insts)
      /\ i.op \in {"store", "br", "ret"} => i.name = Unnamed
      /\ i.op \notin {"store", "br", "ret", "call"} => i.name # Unnamed
      /\ i.op = "phi" => Len(i.from) = Len(i.args)
      /\ OperandsFit(f, b, i)
  BY DEF IsVerified
<1> HIDE DEF i
<1>2. CASE i.op = "br"
  <2>1. /\ n \in {1, 3} /\ (n = 3 => IsValue(i.args[1]))
        /\ \A j \in {1, 2, 3} : j <= n /\ (n = 3 => j # 1) => IsLabel(f, b, i.args[j])
    BY <1>1, <1>2 DEF OperandsFit
  <2>2. n = 1 => IsLabel(f, b, i.args[1])
    BY <2>1
  <2>3. n = 3 => IsLabel(f, b, i.args[2]) /\ IsLabel(f, b, i.args[3])
    BY <2>1
  <2> QED BY <1>1, <1>2, <2>1, <2>2, <2>3 DEF i
<1>3. CASE i.op = "load"
  BY <1>1, <1>3 DEF OperandsFit, i
<1>4. CASE i.op = "store"
  BY <1>1, <1>4 DEF OperandsFit, i
<1>5. CASE i.op = "call"
  BY <1>1, <1>5 DEF OperandsFit, i
<1>6. CASE i.op = "sext"
  BY <1>1, <1>6 DEF OperandsFit, i
<1>7. CASE i.op \notin {"load", "store", "br", "call", "sext"}
  BY Zenon, <1>1, <1>7 DEF OperandsFit, i
<1> QED BY Zenon, <1>2, <1>3, <1>4, <1>5, <1>6, <1>7

(* What the step of a machine changes of it.                               *)
Fields == {"blk", "idx", "from", "arg", "reg", "old", "mem"}

(* What After says, field by field.                                        *)
LEMMA AfterFacts ==
  ASSUME NEW f, NEW m, DOMAIN m = Fields, NEW input, NEW effect
  PROVE  LET i == Current(f, m)
             d == After(f, m, input, effect)
         IN  /\ DOMAIN d = Fields /\ d.arg = m.arg
             /\ i.op = "br" => /\ d.blk = TargetOf(i, m) /\ d.idx = 1 /\ d.from = m.blk
                               /\ d.reg = m.reg /\ d.old = m.reg /\ d.mem = m.mem
             /\ i.op # "br" => d.blk = m.blk /\ d.idx = m.idx + 1 /\ d.from = m.from /\ d.old = m.old
             /\ i.op = "store" => /\ d.reg = m.reg
                                  /\ d.mem = Assign(m.mem, i.args[2].name, ValueOf(i.args[1], m))
             /\ i.op \notin {"br", "store"} =>
                  /\ d.reg = IF i.name = Unnamed THEN m.reg
                             ELSE Assign(m.reg, i.name, Result(i, m, input))
                  /\ d.mem = Overlay(m.mem, effect)
<1> DEFINE i == Current(f, m)
           d == After(f, m, input, effect)
<1> HIDE DEF i
<1>1. CASE i.op = "br"
  <2>1. d = [m EXCEPT !.blk = TargetOf(i, m), !.idx = 1, !.from = m.blk, !.old = m.reg]
    BY <1>1 DEF After, i
  <2> QED BY <1>1, <2>1 DEF Fields, i
<1>2. CASE i.op = "store"
  <2>1. d = [m EXCEPT !.idx = @ + 1,
                      !.mem = Assign(@, i.args[2].name, ValueOf(i.args[1], m))]
    BY <1>2 DEF After, i
  <2> QED BY <1>2, <2>1 DEF Fields, i
<1>3. CASE i.op \notin {"br", "store"}
  <2>1. d = [m EXCEPT !.idx = @ + 1,
                      !.reg = IF i.name = Unnamed THEN @ ELSE Assign(@, i.name, Result(i, m, input)),
                      !.mem = Overlay(@, effect)]
    BY <1>3 DEF After, i
  <2> QED BY <1>3, <2>1 DEF Fields, i
<1> QED BY <1>1, <1>2, <1>3

(* An assignment changes one entry.                                        *)
LEMMA AssignFacts ==
  ASSUME NEW map, NEW n, NEW v
  PROVE  /\ DOMAIN Assign(map, n, v) = DOMAIN map \cup {n}
         /\ Assign(map, n, v)[n] = v
         /\ \A x \in DOMAIN map \ {n} : Assign(map, n, v)[x] = map[x]
BY DEF Assign

(* An overlay changes the entries of the map put over.                     *)
LEMMA OverlayFacts ==
  ASSUME NEW map, NEW more
  PROVE  /\ DOMAIN Overlay(map, more) = DOMAIN map \cup DOMAIN more
         /\ \A x \in DOMAIN more : Overlay(map, more)[x] = more[x]
         /\ \A x \in DOMAIN map \ DOMAIN more : Overlay(map, more)[x] = map[x]
BY DEF Overlay

-----------------------------------------------------------------------------
(* What holds wherever f gets to: registers and variables hold ints, and   *)
(* what only comparisons compute is a bit.                                 *)

\* Register n only ever holds the result of a comparison.
IsBit(f, n) == \A j \in Insts(f) : j.name = n => j.op \in ICmps

Good(f, c) ==
  /\ DOMAIN c.m = Fields
  /\ c.m.blk \in 1 .. Len(f)
  /\ c.m.idx \in 1 .. Len(f[c.m.blk].insts)
  /\ \A n \in DOMAIN c.m.reg :
       /\ c.m.reg[n] \in Value /\ n \in Registers(f)
       /\ IsBit(f, n) => c.m.reg[n] \in {0, 1}
  /\ \A n \in DOMAIN c.m.old :
       /\ c.m.old[n] \in Value /\ n \in Registers(f)
       /\ IsBit(f, n) => c.m.old[n] \in {0, 1}
  /\ c.m.arg \in [Parameters(f) -> Value]
  /\ \A n \in DOMAIN c.m.mem : c.m.mem[n] \in Value
  /\ c.own \subseteq Stored(f) /\ c.own \subseteq DOMAIN c.m.mem

(* Every width of int holds these.                                         *)
LEMMA SmallInts == 0 \in Value /\ 1 \in Value /\ -1 \in Value
BY IntRangeAssumption DEF Value

(* The operand of a phi that is read.                                      *)
LEMMA IncomingFacts ==
  ASSUME NEW i \in Instructions, i.op = "phi", Len(i.from) = Len(i.args), NEW m, Defined(i, m)
  PROVE  /\ \E k \in 1 .. Len(i.args) : IncomingOf(i, m) = i.args[k]
         /\ IncomingOf(i, m) \in Reads(i, m)
<1>1. i.from \in Seq(Nat) /\ DOMAIN i.from = 1 .. Len(i.args)
  <2>1. i.from \in Seq(Nat)
    BY InstructionFacts
  <2> QED BY <2>1
<1>2. Reads(i, m) = {i.args[k] : k \in {j \in DOMAIN i.from : i.from[j] = m.from}} /\ Reads(i, m) # {}
  BY DEF Reads, Defined
<1>3. PICK j \in DOMAIN i.from : i.from[j] = m.from
  BY <1>2
<1> DEFINE k == CHOOSE k \in DOMAIN i.from : i.from[k] = m.from
<1>4. k \in DOMAIN i.from /\ i.from[k] = m.from
  BY <1>3
<1>5. IncomingOf(i, m) = i.args[k]
  BY DEF IncomingOf
<1> QED BY <1>1, <1>2, <1>4, <1>5

(* What an instruction reads: the registers, or those at the entry of the  *)
(* block.                                                                  *)
LEMMA ReadingFacts ==
  ASSUME NEW i, NEW m, DOMAIN m = Fields
  PROVE  /\ DOMAIN Reading(i, m) = Fields
         /\ Reading(i, m).arg = m.arg
         /\ Reading(i, m).reg = IF i.op = "phi" THEN m.old ELSE m.reg
         /\ i.op # "phi" => Reading(i, m) = m
<1>1. CASE i.op = "phi"
  <2>1. Reading(i, m) = [m EXCEPT !.reg = m.old]
    BY <1>1 DEF Reading
  <2> QED BY <1>1, <2>1 DEF Fields
<1>2. CASE i.op # "phi"
  BY <1>2 DEF Reading
<1> QED BY <1>1, <1>2

\* Operand x is an int, in a register that has been computed if it is no constant
\* and no argument.
HasValue(x, m) ==
  /\ ValueOf(x, m) \in Value
  /\ x.kind = "register" =>
       /\ x.name \in DOMAIN m.reg /\ ValueOf(x, m) = m.reg[x.name]
       /\ x = Reg(x.name) /\ x.name # Unnamed
  /\ x.kind # "register" => \/ x.kind = "const" /\ x.name = Unnamed
                            \/ x = Arg(x.name) /\ x.kind = "argument"

(* An operand that is read has.                                            *)
LEMMA OperandValue ==
  ASSUME NEW f, NEW c, Good(f, c), NEW i \in Instructions, i \in Insts(f), Defined(i, c.m),
         NEW k \in 1 .. Len(i.args), i.args[k] \in Reads(i, c.m), IsValue(i.args[k])
  PROVE  HasValue(i.args[k], Reading(i, c.m))
<1> DEFINE x == i.args[k]
           m == Reading(i, c.m)
<1>0. IsValue(x)
  OBVIOUS
<1>1. x.kind # "undef" /\ (x.kind = "register" => x.name \in DOMAIN m.reg)
  BY DEF Defined
<1>2. x.kind = "const" => x.value \in Value
  BY InstructionFacts
<1>3. \/ x.kind = "const" /\ x.name = Unnamed
      \/ x.kind = "register" /\ x = Reg(x.name) /\ x.name # Unnamed
      \/ x.kind = "argument" /\ x = Arg(x.name)
  <2>1. \A n : Reg(n).kind = "register" /\ Arg(n).kind = "argument"
    BY DEF Reg, Arg
  <2> HIDE DEF x
  <2> QED BY <1>0, <1>1, <2>1 DEF IsValue
<1>a. x.kind = "argument" => x.name \in Parameters(f)
  <2>1. x \in Operands(i)
    BY InstructionFacts DEF Operands
  <2> HIDE DEF x
  <2> QED BY <2>1 DEF Parameters
<1>r. m.arg = c.m.arg /\ (m.reg = c.m.reg \/ m.reg = c.m.old)
  BY ReadingFacts DEF Good
<1> HIDE DEF x, m
<1>4. /\ x.kind = "register" => m.reg[x.name] \in Value
      /\ x.kind = "argument" => m.arg[x.name] \in Value
  BY <1>1, <1>a, <1>r DEF Good
<1>5. "const" # "register" /\ "const" # "argument" /\ "argument" # "register"
  OBVIOUS
<1>6. ASSUME x.kind = "const" PROVE HasValue(x, m)
  BY <1>2, <1>3, <1>5, <1>6 DEF ValueOf, HasValue
<1>7. ASSUME x.kind = "register" PROVE HasValue(x, m)
  BY <1>1, <1>3, <1>4, <1>5, <1>7 DEF ValueOf, HasValue
<1>8. ASSUME x.kind = "argument" PROVE HasValue(x, m)
  BY <1>3, <1>4, <1>5, <1>8 DEF ValueOf, HasValue
<1>9. HasValue(x, m)
  BY <1>3, <1>6, <1>7, <1>8
<1> QED BY <1>9 DEF x, m

(* All operands of an instruction that is no phi are read.                 *)
LEMMA AllRead ==
  ASSUME NEW i \in Instructions, i.op # "phi", NEW m, NEW k \in 1 .. Len(i.args)
  PROVE  i.args[k] \in Reads(i, m)
BY InstructionFacts DEF Reads, Operands

(* Wherever f gets to, and in an instruction which ai_cp understands.      *)
LEMMA CurrentFacts ==
  ASSUME NEW f, IsFunction(f), NEW c, Good(f, c)
  PROVE  LET i == Current(f, c.m) IN
         /\ i = f[c.m.blk].insts[c.m.idx] /\ i \in Instructions /\ i \in Insts(f)
         /\ c.m.blk \in Nat /\ c.m.idx \in Nat
BY SMTT(30), PlaceFacts DEF Good, Current

(* The value an instruction gives its register.                            *)
LEMMA ResultFacts ==
  ASSUME NEW f, IsFunction(f), IsVerified(f), NEW c, Good(f, c), Understood(f, c),
         NEW input \in Value
  PROVE  LET i == Current(f, c.m)
             v == Result(i, c.m, input)
         IN  /\ i.op \in BinaryOps =>
                  /\ ValueOf(i.args[1], c.m) \in Value /\ ValueOf(i.args[2], c.m) \in Value
                  /\ v = Exact(i.op, ValueOf(i.args[1], c.m), ValueOf(i.args[2], c.m))
                  /\ v \in Value /\ (i.op = "sdiv" => ValueOf(i.args[2], c.m) # 0)
                  /\ ~TruncatesToZero(i.op, ValueOf(i.args[1], c.m), ValueOf(i.args[2], c.m))
             /\ i.op \in ICmps =>
                  /\ ValueOf(i.args[1], c.m) \in Value /\ ValueOf(i.args[2], c.m) \in Value
                  /\ v = Bit(Holds(i.op, ValueOf(i.args[1], c.m), ValueOf(i.args[2], c.m)))
                  /\ v \in {0, 1}
             /\ i.op = "sext" =>
                  /\ i.args[1].name \in DOMAIN c.m.reg
                  /\ \/ c.m.reg[i.args[1].name] = 1 /\ v = -1 /\ Truth(i.args[1], c.m)
                     \/ c.m.reg[i.args[1].name] = 0 /\ v = 0
             /\ i.op = "load" => v = LoadFrom(i.args[1], c.m) /\ v \in Value
             /\ i.op = "phi" =>
                  \E k \in 1 .. Len(i.args) :
                    i.args[k] \in Reads(i, c.m) /\ v = ValueOf(i.args[k], Reading(i, c.m)) /\ v \in Value
             /\ i.op = "call" => v = input
             /\ i.op = "alloca" => v = 0
             /\ i.op \notin {"store", "br", "ret"} => v \in Value
<1> DEFINE i == Current(f, c.m)
           v == Result(i, c.m, input)
           u(k) == ValueOf(i.args[k], c.m)
<1>1. /\ i = f[c.m.blk].insts[c.m.idx] /\ i \in Instructions /\ i \in Insts(f)
      /\ c.m.blk \in 1 .. Len(f) /\ c.m.idx \in 1 .. Len(f[c.m.blk].insts)
  BY CurrentFacts DEF Good
<1>d. Defined(i, c.m) /\ ~Misjudges(f, c.own, i, c.m)
  BY SMTT(30) DEF Understood
<1>0. \A b \in 1 .. Len(f) : \A k \in 1 .. Len(f[b].insts) :
        LET j == f[b].insts[k] IN
        /\ j.op = "phi" => Len(j.from) = Len(j.args)
        /\ j.op = "sext" => /\ IsValue(j.args[1]) /\ j.args[1].kind = "register"
                            /\ \A o \in Insts(f) : o.name = j.args[1].name => o.op \in ICmps
        /\ j.op \notin {"load", "store", "br", "call", "sext"} =>
                  \A n \in 1 .. Len(j.args) : IsValue(j.args[n])
  BY SMTT(30), VerifiedFacts
<1>v. /\ i.op = "phi" => Len(i.from) = Len(i.args)
      /\ i.op = "sext" => /\ IsValue(i.args[1]) /\ i.args[1].kind = "register"
                          /\ \A j \in Insts(f) : j.name = i.args[1].name => j.op \in ICmps
      /\ i.op \notin {"load", "store", "br", "call", "sext"} =>
                  \A j \in 1 .. Len(i.args) : IsValue(i.args[j])
  <2> HIDE DEF i
  <2> QED BY Zenon, <1>0, <1>1
<1>i. /\ i.op \in Opcodes
      /\ i.op \in {"load", "sext", "alloca"} => Len(i.args) = 1
      /\ i.op \in BinaryOps \cup ICmps \cup {"store"} => Len(i.args) = 2
  BY <1>1, InstructionFacts
<1> HIDE DEF i
<1>b. /\ i.op \in BinaryOps \cup ICmps => i.op \notin {"load", "store", "br", "call", "sext", "phi", "alloca", "ret"}
      /\ i.op \in BinaryOps => i.op \notin ICmps
  BY DEF BinaryOps, ICmps
<1>w. \A k \in 1 .. Len(i.args) :
        i.args[k] \in Reads(i, c.m) /\ IsValue(i.args[k]) => HasValue(i.args[k], Reading(i, c.m))
  BY <1>1, <1>d, OperandValue, Zenon
<1>m. i.op # "phi" => Reading(i, c.m) = c.m
  BY DEF Reading
<1>u. \A k \in 1 .. Len(i.args) :
        i.op # "phi" /\ i.args[k] \in Reads(i, c.m) /\ IsValue(i.args[k]) =>
          /\ u(k) \in Value
          /\ i.args[k].kind = "register" =>
               i.args[k].name \in DOMAIN c.m.reg /\ u(k) = c.m.reg[i.args[k].name]
  BY <1>w, <1>m DEF HasValue
<1> HIDE DEF u
<1>2. ASSUME i.op \in BinaryOps \cup ICmps PROVE u(1) \in Value /\ u(2) \in Value
  <2>1. 1 \in 1 .. Len(i.args) /\ 2 \in 1 .. Len(i.args)
    BY SMTT(30), <1>2, <1>i
  <2>2. \A k \in 1 .. Len(i.args) : i.args[k] \in Reads(i, c.m) /\ IsValue(i.args[k])
    BY Zenon, <1>1, <1>2, <1>b, <1>v, AllRead
  <2> QED BY <1>2, <1>b, <1>u, <2>1, <2>2
<1>3. CASE i.op \in BinaryOps
  <2>1. v = Wrap(Exact(i.op, u(1), u(2)))
    BY <1>3 DEF u, Result, BinaryOps, ICmps
  <2>2. Exactly(i, c.m)
    BY <1>3, <1>d DEF Misjudges
  <2>3. Exact(i.op, u(1), u(2)) \in Value /\ (i.op = "sdiv" => u(2) # 0) /\ ~TruncatesToZero(i.op, u(1), u(2))
    BY <2>2 DEF u, Exactly
  <2>4. v = Exact(i.op, u(1), u(2))
    BY <2>1, <2>3, WrapKeeps
  <2> HIDE DEF v
  <2> QED BY <1>2, <1>3, <1>b, <2>3, <2>4 DEF u, v, i
<1>4. CASE i.op \in ICmps
  <2>1. v = Bit(Holds(i.op, u(1), u(2)))
    <3>1. i.op \notin BinaryOps
      BY <1>4, <1>b
    <3> QED BY <1>4, <3>1 DEF u, Result, BinaryOps, ICmps
  <2>2. v \in {0, 1} /\ v \in Value
    BY <2>1, SmallInts DEF Bit
  <2> HIDE DEF v
  <2> QED BY <1>2, <1>4, <1>b, <2>1, <2>2 DEF u, v, i
<1>5. CASE i.op = "sext"
  <2>1. v = IF Truth(i.args[1], c.m) THEN -1 ELSE 0
    BY <1>5 DEF Result, BinaryOps, ICmps
  <2>a. 1 \in 1 .. Len(i.args) /\ i.op # "phi"
    BY <1>5, <1>i
  <2>2. i.args[1] \in Reads(i, c.m)
    BY <1>1, <2>a, AllRead
  <2>b. IsValue(i.args[1]) /\ i.args[1].kind = "register"
    BY <1>5, <1>v
  <2>3. /\ i.args[1].name \in DOMAIN c.m.reg
        /\ u(1) = c.m.reg[i.args[1].name]
    BY <1>u, <2>a, <2>b, <2>2
  <2>4. u(1) \in {0, 1}
    <3>1. IsBit(f, i.args[1].name)
      BY <1>5, <1>v DEF IsBit
    <3> QED BY <2>3, <3>1 DEF Good
  <2>5. \/ u(1) = 1 /\ v = -1 /\ Truth(i.args[1], c.m)
        \/ u(1) = 0 /\ v = 0
    BY <2>1, <2>4 DEF u, Truth
  <2> HIDE DEF v
  <2>6. v \in Value
    BY <2>5, SmallInts
  <2> QED BY <1>5, <1>b, <2>3, <2>5, <2>6 DEF u, v, i
<1>6. CASE i.op = "load"
  <2>1. v = LoadFrom(i.args[1], c.m)
    BY <1>6 DEF Result, BinaryOps, ICmps
  <2>2. v \in Value
    BY <2>1, SmallInts DEF LoadFrom, Good
  <2> HIDE DEF v
  <2> QED BY <1>6, <1>b, <2>1, <2>2 DEF u, v, i
<1>7. CASE i.op = "phi"
  <2>1. v = ValueOf(IncomingOf(i, c.m), Reading(i, c.m))
    BY <1>7 DEF Result, BinaryOps, ICmps
  <2>2. PICK k \in 1 .. Len(i.args) : IncomingOf(i, c.m) = i.args[k] /\ i.args[k] \in Reads(i, c.m)
    BY Zenon, <1>1, <1>7, <1>v, <1>d, IncomingFacts
  <2>3. ValueOf(i.args[k], Reading(i, c.m)) \in Value
    BY <1>7, <1>v, <1>w, <2>2 DEF HasValue
  <2>4. v = ValueOf(i.args[k], Reading(i, c.m))
    BY <2>1, <2>2
  <2> HIDE DEF v
  <2> QED BY <1>7, <1>b, <2>2, <2>3, <2>4 DEF u, v, i
<1>8. CASE i.op = "call"
  <2>1. v = input
    BY <1>8 DEF Result, BinaryOps, ICmps
  <2> HIDE DEF v
  <2> QED BY <1>8, <1>b, <2>1 DEF u, v, i
<1>9. CASE i.op = "alloca"
  <2>1. v = 0
    BY <1>9 DEF Result, BinaryOps, ICmps
  <2> HIDE DEF v
  <2> QED BY <1>9, <1>b, <2>1, SmallInts DEF u, v, i
<1>10. CASE i.op \in {"store", "br", "ret"}
  <2> HIDE DEF v
  <2> QED BY <1>10, <1>b DEF u, v, i
<1> HIDE DEF v
<1> QED BY Zenon, <1>3, <1>4, <1>5, <1>6, <1>7, <1>8, <1>9, <1>10, <1>i DEF Opcodes

(* A branch leads to a block that has the one it ends in as predecessor.   *)
LEMMA TargetFacts ==
  ASSUME NEW f, IsFunction(f), IsVerified(f), NEW c, Good(f, c), Current(f, c.m).op = "br"
  PROVE  LET t == TargetOf(Current(f, c.m), c.m) IN
         /\ t \in 2 .. Len(f) /\ t \in 1 .. Len(f) /\ t # 1
         /\ c.m.blk \in f[t].preds
         /\ Len(f[t].insts) \in Nat \ {0}
<1> DEFINE i == Current(f, c.m)
           t == TargetOf(i, c.m)
<1>1. /\ i = f[c.m.blk].insts[c.m.idx]
      /\ c.m.blk \in 1 .. Len(f) /\ c.m.idx \in 1 .. Len(f[c.m.blk].insts)
  BY SMTT(30), CurrentFacts DEF Good
<1>2. \A b \in 1 .. Len(f) : \A k \in 1 .. Len(f[b].insts) :
        LET j == f[b].insts[k]
            n == Len(j.args)
        IN  j.op = "br" => \/ n = 1 /\ IsLabel(f, b, j.args[1])
                           \/ /\ n = 3 /\ IsValue(j.args[1])
                              /\ IsLabel(f, b, j.args[2]) /\ IsLabel(f, b, j.args[3])
  BY VerifiedFacts
<1> HIDE DEF i
<1>3. \/ Len(i.args) = 1 /\ IsLabel(f, c.m.blk, i.args[1])
      \/ Len(i.args) = 3 /\ IsLabel(f, c.m.blk, i.args[2]) /\ IsLabel(f, c.m.blk, i.args[3])
  BY Zenon, <1>1, <1>2 DEF i
<1>4. t \in 2 .. Len(f) /\ c.m.blk \in f[t].preds
  BY <1>3 DEF TargetOf, IsLabel
<1> HIDE DEF t
<1>5. t \in 1 .. Len(f) /\ t # 1
  BY <1>4
<1>6. Len(f[t].insts) \in Nat /\ f[t].insts \in Seq(Instructions) /\ f[t].insts # <<>>
  BY <1>5, FunctionFacts DEF IsVerified
<1>7. Len(f[t].insts) \in Nat \ {0}
  BY <1>6
<1> QED BY <1>4, <1>5, <1>7 DEF t, i

(* An instruction that is no terminator is followed by one.                *)
LEMMA PlaceOfNext ==
  ASSUME NEW f, IsFunction(f), IsVerified(f), NEW c, Good(f, c),
         Current(f, c.m).op \notin {"br", "ret"}
  PROVE  c.m.idx + 1 \in 1 .. Len(f[c.m.blk].insts)
<1>1. /\ Current(f, c.m) = f[c.m.blk].insts[c.m.idx]
      /\ c.m.blk \in 1 .. Len(f) /\ c.m.idx \in 1 .. Len(f[c.m.blk].insts)
  BY CurrentFacts DEF Good
<1>2. c.m.idx # Len(f[c.m.blk].insts)
  BY <1>1 DEF IsVerified
<1>3. Len(f[c.m.blk].insts) \in Nat
  BY <1>1, FunctionFacts
<1> QED BY <1>1, <1>2, <1>3

(* The start is good.                                                      *)
LEMMA GoodStart ==
  ASSUME NEW f, IsFunction(f), IsVerified(f), NEW c \in Starts(f)
  PROVE  Good(f, c)
<1>a. PICK arg \in [Parameters(f) -> Value] : c = [m |-> StartMachine(arg), own |-> {}]
  BY DEF Starts
<1>1. /\ c.m = StartMachine(arg) /\ c.own = {}
      /\ DOMAIN c.m = Fields
      /\ c.m.blk = 1 /\ c.m.idx = 1 /\ c.m.arg = arg
      /\ DOMAIN c.m.reg = {} /\ DOMAIN c.m.old = {} /\ DOMAIN c.m.mem = {}
  BY <1>a DEF StartMachine, EmptyMap, Fields
<1>0. Len(f) \in Nat /\ f # <<>> /\ f \in Seq([insts : Seq(Instructions), preds : SUBSET (1 .. Len(f))])
  BY DEF IsFunction
<1>2. 1 \in 1 .. Len(f)
  BY <1>0
<1>3. Len(f[1].insts) \in Nat /\ f[1].insts # <<>> /\ f[1].insts \in Seq(Instructions)
  BY <1>2, FunctionFacts DEF IsVerified
<1>4. 1 \in 1 .. Len(f[1].insts)
  BY <1>3
<1> QED BY <1>1, <1>2, <1>4 DEF Good

(* A step ai_cp understands keeps a configuration good.                    *)
LEMMA GoodStep ==
  ASSUME NEW f, IsFunction(f), IsVerified(f), NEW c, Good(f, c), NEW d, Steps(f, c, d)
  PROVE  Good(f, d)
<1> DEFINE i == Current(f, c.m)
<1>1. PICK input \in Value, effect \in Effects :
        (i.op # "call" => effect = EmptyState) /\ d = StepOf(f, c, input, effect)
  BY DEF Steps
<1> DEFINE v == Result(i, c.m, input)
<1>2. /\ d.m = After(f, c.m, input, effect)
      /\ d.own = (IF i.op = "store" THEN c.own \cup {i.args[2].name} ELSE c.own) \ DOMAIN effect
  BY <1>1 DEF StepOf
<1>u. Understood(f, c) /\ i.op # "ret"
  BY DEF Steps
<1>g. /\ DOMAIN c.m = Fields
      /\ c.m.blk \in 1 .. Len(f)
      /\ c.m.idx \in 1 .. Len(f[c.m.blk].insts)
  BY DEF Good
<1>r. \A n \in DOMAIN c.m.reg :
       /\ c.m.reg[n] \in Value /\ n \in Registers(f)
       /\ IsBit(f, n) => c.m.reg[n] \in {0, 1}
  BY DEF Good
<1>q. /\ c.m.arg \in [Parameters(f) -> Value]
      /\ \A n \in DOMAIN c.m.old :
           /\ c.m.old[n] \in Value /\ n \in Registers(f)
           /\ IsBit(f, n) => c.m.old[n] \in {0, 1}
  BY DEF Good
<1>m. \A n \in DOMAIN c.m.mem : c.m.mem[n] \in Value
  BY DEF Good
<1>o. c.own \subseteq Stored(f) /\ c.own \subseteq DOMAIN c.m.mem
  BY DEF Good
<1>i. i \in Instructions /\ i \in Insts(f) /\ i = f[c.m.blk].insts[c.m.idx]
  BY CurrentFacts
<1>e. \A n \in DOMAIN effect : effect[n] \in Value
  BY EffectsAssumption
<1>p. i.op # "br" => c.m.idx + 1 \in 1 .. Len(f[c.m.blk].insts)
  BY <1>u, PlaceOfNext
<1>3. CASE i.op = "br"
  <2>1. /\ DOMAIN d.m = Fields /\ d.m.blk = TargetOf(i, c.m) /\ d.m.idx = 1 /\ d.m.arg = c.m.arg
        /\ d.m.reg = c.m.reg /\ d.m.old = c.m.reg /\ d.m.mem = c.m.mem
    BY <1>2, <1>3, <1>g, AfterFacts
  <2>2. TargetOf(i, c.m) \in 1 .. Len(f) /\ Len(f[TargetOf(i, c.m)].insts) \in Nat \ {0}
    BY <1>3, TargetFacts
  <2>3. d.own \subseteq c.own
    BY <1>2, <1>3
  <2> HIDE DEF i
  <2>4. d.m.idx \in 1 .. Len(f[d.m.blk].insts)
    BY <2>1, <2>2
  <2> QED BY <2>1, <2>2, <2>3, <2>4, <1>r, <1>q, <1>m, <1>o DEF Good
<1>4. CASE i.op = "store"
  <2>1. /\ DOMAIN d.m = Fields /\ d.m.blk = c.m.blk /\ d.m.idx = c.m.idx + 1 /\ d.m.arg = c.m.arg
        /\ d.m.reg = c.m.reg /\ d.m.old = c.m.old
        /\ d.m.mem = Assign(c.m.mem, i.args[2].name, ValueOf(i.args[1], c.m))
    BY <1>2, <1>4, <1>g, AfterFacts
  <2>2. ValueOf(i.args[1], c.m) \in Value
    <3>1. 1 \in 1 .. Len(i.args) /\ i.op # "phi"
      BY <1>4, <1>i, InstructionFacts
    <3>2. i.args[1] \in Reads(i, c.m)
      BY <1>i, <3>1, AllRead
    <3>3. IsValue(i.args[1])
      BY SMTT(30), <1>4, <1>g, <1>i, VerifiedFacts
    <3>4. Defined(i, c.m)
      BY <1>u DEF Understood
    <3>5. HasValue(i.args[1], Reading(i, c.m))
      BY <1>i, <3>1, <3>2, <3>3, <3>4, OperandValue, Zenon
    <3>6. Reading(i, c.m) = c.m
      BY <3>1 DEF Reading
    <3> QED BY <3>5, <3>6 DEF HasValue
  <2>3. i.args[2].name \in Stored(f)
    BY Zenon, <1>4, <1>i DEF Stored
  <2>4. d.own \subseteq c.own \cup {i.args[2].name}
    BY <1>2, <1>4
  <2> HIDE DEF i
  <2>5. /\ DOMAIN d.m.mem = DOMAIN c.m.mem \cup {i.args[2].name}
        /\ \A n \in DOMAIN d.m.mem : d.m.mem[n] \in Value
    BY <2>1, <2>2, <1>m DEF Assign
  <2> QED BY <2>1, <2>3, <2>4, <2>5, <1>g, <1>r, <1>q, <1>o, <1>p, <1>4 DEF Good
<1>5. CASE i.op \notin {"br", "store"}
  <2>1. /\ DOMAIN d.m = Fields /\ d.m.blk = c.m.blk /\ d.m.idx = c.m.idx + 1
        /\ d.m.arg = c.m.arg /\ d.m.old = c.m.old
        /\ d.m.reg = IF i.name = Unnamed THEN c.m.reg ELSE Assign(c.m.reg, i.name, v)
        /\ d.m.mem = Overlay(c.m.mem, effect)
    BY <1>2, <1>5, <1>g, AfterFacts
  <2>2. /\ DOMAIN d.m.mem = DOMAIN c.m.mem \cup DOMAIN effect
        /\ \A n \in DOMAIN d.m.mem : d.m.mem[n] \in Value
    <3> HIDE DEF i, v
    <3>1. /\ DOMAIN d.m.mem = DOMAIN c.m.mem \cup DOMAIN effect
          /\ \A x \in DOMAIN effect : d.m.mem[x] = effect[x]
          /\ \A x \in DOMAIN c.m.mem \ DOMAIN effect : d.m.mem[x] = c.m.mem[x]
      BY <2>1 DEF Overlay
    <3> QED BY <3>1, <1>m, <1>e
  <2>3. d.own = c.own \ DOMAIN effect
    BY <1>2, <1>5
  <2>4. /\ v \in Value
        /\ i.op \in ICmps => v \in {0, 1}
    BY <1>5, <1>u, ResultFacts
  <2>5. \A n \in DOMAIN d.m.reg :
       /\ d.m.reg[n] \in Value /\ n \in Registers(f)
       /\ IsBit(f, n) => d.m.reg[n] \in {0, 1}
    <3>1. CASE i.name = Unnamed
      <4>1. d.m.reg = c.m.reg
        BY <2>1, <3>1
      <4> QED BY <4>1, <1>r
    <3>2. CASE i.name # Unnamed
      <4>1. d.m.reg = Assign(c.m.reg, i.name, v)
        BY <2>1, <3>2
      <4>2. i.name \in Registers(f)
        BY <3>2, <1>i DEF Registers
      <4>3. IsBit(f, i.name) => v \in {0, 1}
        BY <1>i, <2>4 DEF IsBit
      <4> HIDE DEF i, v
      <4>4. /\ DOMAIN d.m.reg = DOMAIN c.m.reg \cup {i.name}
            /\ d.m.reg[i.name] = v
            /\ \A x \in DOMAIN c.m.reg \ {i.name} : d.m.reg[x] = c.m.reg[x]
        BY <4>1 DEF Assign
      <4> QED BY <4>2, <4>3, <4>4, <2>4, <1>r
    <3> QED BY <3>1, <3>2
  <2> HIDE DEF i, v
  <2> QED BY <2>1, <2>2, <2>3, <2>5, <1>g, <1>q, <1>o, <1>p, <1>5 DEF Good
<1> QED BY <1>3, <1>4, <1>5

(* And so wherever it gets to.                                             *)
LEMMA ReachedGood ==
  ASSUME NEW f, IsFunction(f), IsVerified(f), NEW c, Reached(f, c)
  PROVE  Good(f, c)
<1> DEFINE U == {n \in Nat : \A r : RunsTo(f, r, n) => Good(f, r[n])}
<1>1. 0 \in U
  BY GoodStart DEF RunsTo
<1>2. ASSUME NEW n \in Nat, n \in U PROVE n + 1 \in U
  <2> SUFFICES ASSUME NEW r, RunsTo(f, r, n + 1) PROVE Good(f, r[n + 1])
    OBVIOUS
  <2>1. RunsTo(f, r, n) /\ n \in 0 .. (n + 1) - 1
    BY DEF RunsTo
  <2>2. Good(f, r[n]) /\ Steps(f, r[n], r[n + 1])
    BY <1>2, <2>1 DEF RunsTo
  <2> QED BY <2>2, GoodStep
<1>3. Nat \subseteq U
  <2> HIDE DEF U
  <2> QED BY <1>1, <1>2, NaturalInduction
<1> QED BY <1>3 DEF Reached

-----------------------------------------------------------------------------
(* The function the passes have left, beside the one they were given.      *)

\* To put the constant w where instruction i reads v as its operand j makes no
\* difference: they are the same, or i only asks whether it is 0.
Stands(i, j, w, v) ==
  \/ w = v
  \/ i.op = "ne" /\ j = 1 /\ i.args[2] = Const(0) /\ (w = 0 <=> v = 0)

\* f gets to instruction k of block b, which ai_cp understands.
ReachedAt(f, b, k, c) ==
  Reached(f, c) /\ Understood(f, c) /\ c.m.blk = b /\ c.m.idx = k

\* y may take the place of operand j of instruction k of block b: it is the value
\* that is read there, or it takes the name of a function for that of a register.
Replaces(f, b, k, j, y) ==
  LET i == f[b].insts[k]
      x == i.args[j]
  IN  /\ \E w \in Value : y = Const(w)
      /\ i.op \notin {"load", "store", "phi", "alloca"}
      /\ i.op \in {"br", "sext"} => j = 1
      /\ \/ /\ x.kind = "register"
            /\ \A c : ReachedAt(f, b, k, c) => Stands(i, j, y.value, ValueOf(x, c.m))
         \/ x.kind = "function" /\ \E o \in Insts(f) : o.op # "call" /\ o.name = x.name

\* i is instruction k of block b, some of whose operands may have been replaced.
Matches(f, b, k, i) ==
  LET i0 == f[b].insts[k] IN
  /\ i.op = i0.op /\ i.name = i0.name /\ i.from = i0.from
  /\ Len(i.args) = Len(i0.args)
  /\ \A j \in 1 .. Len(i0.args) :
       i.args[j] = i0.args[j] \/ Replaces(f, b, k, j, i.args[j])

\* Instruction k of block b of f has been erased.
Dropped(g, e, b, k) == \A l \in 1 .. Len(g[b].insts) : e[b][l] # k

\* g is f without the instructions that compute some of the registers in E, which
\* no instruction left reads: e tells where those left were in f.
Agree(f, g, e, E) ==
  /\ Len(g) = Len(f)
  /\ \A b \in 1 .. Len(f) :
       /\ g[b].preds = f[b].preds
       /\ \A l \in 1 .. Len(g[b].insts) :
            /\ e[b][l] \in 1 .. Len(f[b].insts)
            /\ Matches(f, b, e[b][l], g[b].insts[l])
            /\ \A j \in 1 .. Len(g[b].insts[l].args) :
                 g[b].insts[l].args[j].kind = "register" => g[b].insts[l].args[j].name \notin E
       /\ \A l, h \in 1 .. Len(g[b].insts) : l < h => e[b][l] < e[b][h]
       /\ \A k \in 1 .. Len(f[b].insts) : Dropped(g, e, b, k) =>
            /\ f[b].insts[k].op \notin {"store", "phi", "call"}
            /\ f[b].insts[k].name \in E \ {Unnamed}

-----------------------------------------------------------------------------
(* What the states of ai_cp say of a configuration of f. *)

\* Nothing but whether it is 0 is asked of register n.
OnlyAsked(f, n) == \A j \in Insts(f) : ~UsesNumber(j, n)

\* x is right of register n, which holds v, as far as it is asked: a sext has got
\* the element of the comparison it extends.
Tells(f, x, n, v) ==
  Describes(x, v) \/ (OnlyAsked(f, n) /\ v = -1 /\ Describes(x, 1))

\* The state s is right of configuration c, but for the registers in E.
Fits(f, E, c, s) ==
  /\ \A n \in DOMAIN c.m.reg \ E : n \in DOMAIN s /\ Tells(f, s[n], n, c.m.reg[n])
  /\ \A n \in DOMAIN c.m.old \ E : n \in DOMAIN s /\ Tells(f, s[n], n, c.m.old[n])
  /\ \A p \in c.own : p \in DOMAIN s /\ Describes(s[p], c.m.mem[p])

\* x describes the value instruction i reads as its operand j, or one as good.
Tell(i, j, x, m) ==
  /\ ValueOf(i.args[j], m) \in Value
  /\ \E w \in Value : Stands(i, j, w, ValueOf(i.args[j], m)) /\ Describes(x, w)

\* What is known in state s, if anything, is known of a variable that f stores to
\* or of a register that is not only that of a call.
Suits(f, s) ==
  \A n \in DOMAIN s :
    /\ n # Unnamed
    /\ \/ s[n] = Any
       \/ n \in Stored(f)
       \/ \E o \in Insts(f) : o.op # "call" /\ o.name = n

(* The instructions of a function, by their places.                        *)
LEMMA PlacesOfInsts ==
  ASSUME NEW f, IsFunction(f), NEW i
  PROVE  i \in Insts(f) <=> \E b \in 1 .. Len(f) : \E k \in 1 .. Len(f[b].insts) : i = f[b].insts[k]
<1>1. \A b \in 1 .. Len(f) : DOMAIN f[b].insts = 1 .. Len(f[b].insts)
  BY FunctionFacts
<1> QED BY <1>1 DEF Insts

(* What is stored to has the name of a global variable or of a register.   *)
LEMMA StoredNames ==
  ASSUME NEW f, IsFunction(f), IsVerified(f)
  PROVE  Stored(f) \subseteq Registers(f) \cup GlobalsOf(f)
<1> SUFFICES ASSUME NEW i \in Insts(f), i.op = "store"
             PROVE  i.args[2].name \in Registers(f) \cup GlobalsOf(f)
  BY DEF Stored
<1>1. PICK b \in 1 .. Len(f) : \E k \in 1 .. Len(f[b].insts) : i = f[b].insts[k]
  BY PlacesOfInsts
<1>2. PICK k \in 1 .. Len(f[b].insts) : i = f[b].insts[k]
  BY <1>1
<1>3. IsPointer(f, i.args[2])
  BY <1>2, VerifiedFacts
<1>4. i \in Instructions
  BY <1>2, PlaceFacts
<1>5. Len(i.args) = 2 /\ DOMAIN i.args = 1 .. Len(i.args)
  BY <1>4, InstructionFacts
<1>6. i.args[2] \in Operands(i)
  BY <1>5 DEF Operands
<1>7. CASE i.args[2] = Global(i.args[2].name)
  <2>1. i.args[2].kind = "global"
    BY <1>7 DEF Global
  <2> QED BY <1>6, <2>1 DEF GlobalsOf
<1>8. CASE \E o \in Insts(f) : o.op = "alloca" /\ o.name = i.args[2].name
  <2>1. PICK o \in Insts(f) : o.op = "alloca" /\ o.name = i.args[2].name
    BY <1>8
  <2>2. o.name # Unnamed
    <3>1. PICK a \in 1 .. Len(f) : \E h \in 1 .. Len(f[a].insts) : o = f[a].insts[h]
      BY PlacesOfInsts
    <3>2. PICK h \in 1 .. Len(f[a].insts) : o = f[a].insts[h]
      BY <3>1
    <3> QED BY Zenon, <2>1, <3>2, VerifiedFacts
  <2> QED BY <2>1, <2>2 DEF Registers
<1> QED BY <1>3, <1>7, <1>8 DEF IsPointer

(* Of an argument nothing is known: no state has its name.                 *)
LEMMA ArgumentUnknown ==
  ASSUME NEW f, IsFunction(f), IsVerified(f), NEW s, Suits(f, s),
         NEW i \in Insts(f), NEW x \in Operands(i), x.kind = "argument"
  PROVE  x.name \in DOMAIN s => s[x.name] = Any
<1>1. x.name \in Parameters(f)
  BY DEF Parameters
<1>2. x.name \notin Registers(f) \cup GlobalsOf(f)
  BY <1>1 DEF IsVerified, NamesAreUnique
<1>3. x.name \notin Stored(f)
  BY <1>2, StoredNames
<1>4. ASSUME x.name # Unnamed PROVE ~ \E o \in Insts(f) : o.name = x.name
  BY <1>2, <1>4 DEF Registers
<1> QED BY <1>3, <1>4 DEF Suits

(* What ai_cp knows of the operands of an instruction.                     *)
LEMMA OperandTold ==
  ASSUME NEW f, IsFunction(f), IsVerified(f), NEW c, Good(f, c),
         NEW b, NEW k, ReachedAt(f, b, k, c),
         NEW E, NEW s, Fits(f, E, c, s), Suits(f, s),
         NEW i0, i0 = f[b].insts[k], i0 \in Instructions, i0 \in Insts(f),
         NEW j \in 1 .. Len(i0.args), IsValue(i0.args[j]), i0.args[j] \in Reads(i0, c.m),
         NEW y, y = i0.args[j] \/ Replaces(f, b, k, j, y),
         y.kind = "register" => y.name \notin E
  PROVE  Tell(i0, j, CP!ElementOf(y, s), Reading(i0, c.m))
<1> DEFINE m == Reading(i0, c.m)
           x == i0.args[j]
           v == ValueOf(x, m)
<1>1. Current(f, c.m) = i0 /\ Defined(i0, c.m)
  BY DEF ReachedAt, Understood, Current
<1>2. HasValue(x, m)
  BY <1>1, OperandValue, Zenon
<1>r. /\ m.reg = c.m.reg \/ m.reg = c.m.old
      /\ i0.op # "phi" => m = c.m
  BY SMTT(30), ReadingFacts DEF Good
<1> HIDE DEF m
<1> SUFFICES Tell(i0, j, CP!ElementOf(y, s), m)
  BY DEF m
<1>3. v \in Value /\ v \in Int
  BY SMTT(30), <1>2, IntRangeAssumption DEF HasValue, Value
<1>4. CASE y = x /\ x.kind = "const"
  <2>1. CP!ElementOf(y, s) = SingleValue(v)
    BY <1>4, SameElements DEF CP!ElementOf, ValueOf
  <2> QED BY <1>3, <2>1, DescribesFacts DEF Tell, Stands
<1>5. CASE y = x /\ x.kind = "register"
  <2>1. x.name \in DOMAIN m.reg /\ v = m.reg[x.name] /\ x = Reg(x.name)
    BY SMTT(30), <1>2, <1>5 DEF HasValue
  <2>2. x.name \in DOMAIN s /\ Tells(f, s[x.name], x.name, v)
    BY Zenon, <1>5, <1>r, <2>1 DEF Fits
  <2>3. CP!ElementOf(y, s) = s[x.name]
    BY Zenon, <1>5, <2>2 DEF CP!ElementOf
  <2>4. CASE Describes(s[x.name], v)
    BY Zenon, <1>3, <2>3, <2>4 DEF Tell, Stands
  <2>5. CASE OnlyAsked(f, x.name) /\ v = -1 /\ Describes(s[x.name], 1)
    <3>1. Reg(x.name) \in Operands(i0)
      BY Zenon, <2>1, InstructionFacts DEF Operands
    <3>2. i0.op = "ne" /\ i0.args[2] = Const(0)
      BY Zenon, <2>5, <3>1 DEF OnlyAsked, UsesNumber
    <3>3. Len(i0.args) = 2
      BY <3>2, InstructionFacts DEF ICmps
    <3>4. j # 2
      BY <1>5, <3>2 DEF Const
    <3>5. j = 1
      BY SMTT(30), <3>3, <3>4
    <3>6. Stands(i0, j, 1, v)
      BY SMTT(30), <2>5, <3>2, <3>5 DEF Stands
    <3>7. 1 \in Value /\ Describes(CP!ElementOf(y, s), 1)
      BY Zenon, <2>3, <2>5, SmallInts
    <3> HIDE DEF v
    <3>8. \E w \in Value : Stands(i0, j, w, v) /\ Describes(CP!ElementOf(y, s), w)
      BY <3>6, <3>7
    <3> QED BY <1>3, <3>8 DEF Tell, v
  <2> QED BY SMTT(30), <2>2, <2>4, <2>5 DEF Tells
<1>6. CASE Replaces(f, b, k, j, y)
  <2>1. PICK w \in Value : y = Const(w)
    BY Zenon, <1>6 DEF Replaces
  <2>2. x.kind # "function"
    BY Zenon, <1>2 DEF HasValue
  <2>3. Stands(i0, j, y.value, v)
    BY Zenon, <1>6, <1>r, <2>2 DEF Replaces
  <2>4. CP!ElementOf(y, s) = SingleValue(w) /\ y.value = w
    BY <2>1, SameElements DEF CP!ElementOf, Const
  <2>5. w \in Int
    BY IntRangeAssumption DEF Value
  <2> QED BY <1>3, <2>3, <2>4, <2>5, DescribesFacts DEF Tell
<1>a. CASE y = x /\ x.kind = "argument"
  <2>1. x \in Operands(i0)
    BY Zenon, InstructionFacts DEF Operands
  <2>2. x.name \in DOMAIN s => s[x.name] = Any
    BY Zenon, <1>a, <2>1, ArgumentUnknown
  <2>3. CP!ElementOf(y, s) = Any
    BY <1>a, <2>2, SameElements DEF CP!ElementOf
  <2>4. Stands(i0, j, v, v) /\ Describes(Any, v)
    BY DEF Stands, Describes, Any
  <2> HIDE DEF v
  <2>5. \E w \in Value : Stands(i0, j, w, v) /\ Describes(Any, w)
    BY <1>3, <2>4
  <2> QED BY <1>3, <2>3, <2>5 DEF Tell, v
<1>7. x.kind \in {"const", "register", "argument"}
  BY Zenon, <1>2 DEF HasValue
<1> QED BY <1>4, <1>5, <1>6, <1>7, <1>a

(* Where it is not only asked whether the operand is 0, it is described.   *)
LEMMA ToldExactly ==
  ASSUME NEW i, NEW j, NEW x, NEW m, Tell(i, j, x, m),
         i.op # "ne" \/ j # 1 \/ i.args[2] # Const(0)
  PROVE  ValueOf(i.args[j], m) \in Value /\ Describes(x, ValueOf(i.args[j], m))
BY DEF Tell, Stands

-----------------------------------------------------------------------------
(* flowState() is right of what an instruction does. *)

(* Of an instruction with two operands, whose ints they describe.          *)
LEMMA TransferSound ==
  ASSUME NEW op \in ArithOps \cup Predicates, NEW x \in Informed, NEW y \in Informed,
         ~Aborts(op, x, y),
         NEW u \in Value, NEW w \in Value, Describes(x, u), Describes(y, w)
  PROVE  /\ op \in Predicates => Describes(Transfer(op, x, y), Bit(Holds(op, u, w)))
         /\ /\ op \in ArithOps /\ (op = "sdiv" => w # 0)
            /\ ~TruncatesToZero(op, u, w) /\ Exact(op, u, w) \in Value
            => Describes(Transfer(op, x, y), Exact(op, u, w))
<1> DEFINE p == ToSameRank(x, y)
<1>1. x \in Elem /\ y \in Elem /\ Leq(x, x) /\ Leq(y, y) /\ x # Bottom
  BY LeqIsPartialOrder DEF Informed
<1>2. OfOneRank(p[1], p[2]) /\ Describes(p[1], u) /\ Describes(p[2], w)
  BY <1>1, SameRankMonotone
<1>3. p # <<Zero, Zero>> /\ p = <<p[1], p[2]>>
  BY <1>1 DEF Aborts, ToSameRank
<1>4. Transfer(op, x, y) = IF op \in Predicates THEN Compare(op, p[1], p[2])
                           ELSE Compute(op, p[1], p[2])
  BY DEF Transfer
<1> HIDE DEF p
<1>5. CASE op \in Predicates
  <2>1. op \notin ArithOps
    BY <1>5 DEF ArithOps, Predicates
  <2>2. Describes(Compare(op, p[1], p[2]), Bit(Holds(op, u, w)))
    BY <1>2, <1>3, <1>5, CompareSound
  <2> QED BY <1>4, <1>5, <2>1, <2>2
<1>6. CASE op \notin Predicates
  BY <1>2, <1>4, <1>6, ComputeSound
<1> QED BY <1>5, <1>6

(* A comparison with 0 does not tell an int from one that stands for it.   *)
LEMMA StandsInNe ==
  ASSUME NEW u, NEW v, u = 0 <=> v = 0
  PROVE  Holds("ne", u, 0) <=> Holds("ne", v, 0)
BY DEF Holds

(* The elements of the operands of an instruction that is compared or      *)
(* computed describe its result.                                           *)
LEMMA ResultTold ==
  ASSUME NEW i \in Instructions, i.op \in BinaryOps \cup ICmps,
         NEW m, NEW x \in Informed, NEW y \in Informed, ~Aborts(i.op, x, y),
         Tell(i, 1, x, m), Tell(i, 2, y, m), NEW v,
         LET u == ValueOf(i.args[1], m)
             w == ValueOf(i.args[2], m)
         IN  /\ i.op \in BinaryOps => /\ v = Exact(i.op, u, w) /\ v \in Value
                                      /\ (i.op = "sdiv" => w # 0)
                                      /\ ~TruncatesToZero(i.op, u, w)
             /\ i.op \in ICmps => v = Bit(Holds(i.op, u, w))
  PROVE  Describes(Transfer(i.op, x, y), v)
<1> DEFINE u == ValueOf(i.args[1], m)
           w == ValueOf(i.args[2], m)
<1>1. i.op \in BinaryOps => i.op \in ArithOps /\ i.op \notin ICmps /\ i.op # "ne"
  BY DEF BinaryOps, ArithOps, ICmps
<1>2. i.op \in ICmps => i.op \in Predicates
  BY DEF ICmps, Predicates
<1>3. w \in Value /\ Describes(y, w) /\ u \in Value
  <2>1. PICK z \in Value : Stands(i, 2, z, w) /\ Describes(y, z)
    BY DEF Tell
  <2>2. z = w
    BY <2>1 DEF Stands
  <2> QED BY <2>1, <2>2 DEF Tell
<1>4. CASE i.op \in BinaryOps
  <2>1. Describes(x, u)
    BY <1>1, <1>4, ToldExactly, Zenon
  <2> HIDE DEF u, w
  <2>2. /\ v = Exact(i.op, u, w) /\ v \in Value
        /\ (i.op = "sdiv" => w # 0)
        /\ ~TruncatesToZero(i.op, u, w)
    BY <1>4 DEF u, w
  <2> QED BY <1>1, <1>3, <1>4, <2>1, <2>2, TransferSound
<1>5. CASE i.op \in ICmps
  <2>1. v = Bit(Holds(i.op, u, w))
    BY <1>5
  <2>2. PICK z \in Value : Stands(i, 1, z, u) /\ Describes(x, z)
    BY DEF Tell
  <2>3. Holds(i.op, z, w) <=> Holds(i.op, u, w)
    <3>1. CASE z = u
      BY <3>1
    <3>2. CASE i.op = "ne" /\ i.args[2] = Const(0) /\ (z = 0 <=> u = 0)
      <4>1. w = 0
        BY <3>2 DEF ValueOf, Const
      <4> HIDE DEF u, w
      <4> QED BY <3>2, <4>1, StandsInNe
    <3> QED BY <2>2, <3>1, <3>2 DEF Stands
  <2>4. Bit(Holds(i.op, z, w)) = Bit(Holds(i.op, u, w))
    BY <2>3 DEF Bit
  <2>5. Describes(Transfer(i.op, x, y), Bit(Holds(i.op, z, w)))
    <3> HIDE DEF u, w
    <3> QED BY <1>2, <1>3, <1>5, <2>2, TransferSound
  <2> QED BY <2>1, <2>4, <2>5
<1> QED BY <1>4, <1>5

-----------------------------------------------------------------------------
(* The states of ai_cp along a block. *)

(* An instruction that computes a register n.                              *)
LEMMA FitsNamed ==
  ASSUME NEW f, NEW c, Good(f, c), NEW E, NEW s, Fits(f, E, c, s),
         Stored(f) \cap Registers(f) = {},
         NEW n \in Registers(f), NEW v, NEW x, Tells(f, x, n, v),
         NEW d, NEW effect,
         d.m.reg = Assign(c.m.reg, n, v), d.m.mem = Overlay(c.m.mem, effect),
         d.own = c.own \ DOMAIN effect,
         d.m.old = c.m.old, n \in DOMAIN c.m.old \ E => Tells(f, x, n, c.m.old[n])
  PROVE  Fits(f, E, d, CP!Update(s, n, x))
<1> DEFINE t == CP!Update(s, n, x)
<1>1. /\ DOMAIN t = DOMAIN s \cup {n} /\ t[n] = x
      /\ \A h \in DOMAIN s \ {n} : t[h] = s[h]
  BY DEF CP!Update
<1>2. /\ DOMAIN d.m.reg = DOMAIN c.m.reg \cup {n} /\ d.m.reg[n] = v
      /\ \A h \in DOMAIN c.m.reg \ {n} : d.m.reg[h] = c.m.reg[h]
  BY DEF Assign
<1>3. \A p \in DOMAIN c.m.mem \ DOMAIN effect : d.m.mem[p] = c.m.mem[p]
  BY DEF Overlay
<1>4. c.own \subseteq Stored(f) /\ c.own \subseteq DOMAIN c.m.mem
  BY DEF Good
<1> HIDE DEF t
<1>5. ASSUME NEW h \in DOMAIN d.m.reg \ E
      PROVE  h \in DOMAIN t /\ Tells(f, t[h], h, d.m.reg[h])
  <2>1. CASE h = n
    BY <1>1, <1>2, <2>1
  <2>2. CASE h # n
    <3>1. h \in DOMAIN c.m.reg \ E /\ d.m.reg[h] = c.m.reg[h]
      BY <1>2, <1>5, <2>2
    <3>2. h \in DOMAIN s /\ Tells(f, s[h], h, c.m.reg[h])
      BY <3>1 DEF Fits
    <3> QED BY <1>1, <2>2, <3>1, <3>2
  <2> QED BY <2>1, <2>2
<1>o. ASSUME NEW h \in DOMAIN d.m.old \ E
      PROVE  h \in DOMAIN t /\ Tells(f, t[h], h, d.m.old[h])
  <2>1. CASE h = n
    BY <1>1, <1>o, <2>1
  <2>2. CASE h # n
    <3>1. h \in DOMAIN s /\ Tells(f, s[h], h, c.m.old[h])
      BY <1>o DEF Fits
    <3> QED BY <1>1, <2>2, <3>1
  <2> QED BY <2>1, <2>2
<1>6. ASSUME NEW p \in d.own
      PROVE  p \in DOMAIN t /\ Describes(t[p], d.m.mem[p])
  <2>1. p \in c.own /\ p # n /\ d.m.mem[p] = c.m.mem[p]
    BY <1>3, <1>4, <1>6
  <2>2. p \in DOMAIN s /\ Describes(s[p], c.m.mem[p])
    BY <2>1 DEF Fits
  <2> QED BY <1>1, <2>1, <2>2
<1> QED BY <1>5, <1>o, <1>6 DEF Fits, t

(* An instruction that stores to a variable p.                             *)
LEMMA FitsStored ==
  ASSUME NEW f, NEW c, Good(f, c), NEW E, NEW s, Fits(f, E, c, s),
         Stored(f) \cap Registers(f) = {},
         NEW p \in Stored(f), NEW v, NEW x, Describes(x, v),
         NEW d, d.m.reg = c.m.reg, d.m.old = c.m.old, d.m.mem = Assign(c.m.mem, p, v), d.own \subseteq c.own \cup {p}
  PROVE  Fits(f, E, d, CP!Update(s, p, x))
<1> DEFINE t == CP!Update(s, p, x)
<1>1. /\ DOMAIN t = DOMAIN s \cup {p} /\ t[p] = x
      /\ \A h \in DOMAIN s \ {p} : t[h] = s[h]
  BY DEF CP!Update
<1>2. /\ d.m.mem[p] = v
      /\ \A h \in DOMAIN c.m.mem \ {p} : d.m.mem[h] = c.m.mem[h]
  BY DEF Assign
<1>3. /\ c.own \subseteq DOMAIN c.m.mem
      /\ \A n \in DOMAIN c.m.reg \cup DOMAIN c.m.old : n \in Registers(f)
  BY DEF Good
<1> HIDE DEF t
<1>4. ASSUME NEW h \in DOMAIN d.m.reg \ E
      PROVE  h \in DOMAIN t /\ Tells(f, t[h], h, d.m.reg[h])
  <2>1. h \in DOMAIN s /\ Tells(f, s[h], h, c.m.reg[h]) /\ h # p
    BY <1>3, <1>4 DEF Fits
  <2> QED BY <1>1, <2>1
<1>o. ASSUME NEW h \in DOMAIN d.m.old \ E
      PROVE  h \in DOMAIN t /\ Tells(f, t[h], h, d.m.old[h])
  <2>1. h \in DOMAIN s /\ Tells(f, s[h], h, c.m.old[h]) /\ h # p
    BY <1>3, <1>o DEF Fits
  <2> QED BY <1>1, <2>1
<1>5. ASSUME NEW h \in d.own
      PROVE  h \in DOMAIN t /\ Describes(t[h], d.m.mem[h])
  <2>1. CASE h = p
    BY <1>1, <1>2, <2>1
  <2>2. CASE h # p
    <3>1. h \in c.own
      BY <1>5, <2>2
    <3>2. h \in DOMAIN s /\ Describes(s[h], c.m.mem[h])
      BY <3>1 DEF Fits
    <3> QED BY <1>1, <1>2, <1>3, <2>2, <3>1, <3>2
  <2> QED BY <2>1, <2>2
<1> QED BY <1>4, <1>o, <1>5 DEF Fits, t

\* f is at instruction k of block b in configuration c, of which the state s is
\* right, and i is what the passes have left of that instruction.  What i makes
\* known of its register is right of the value it had when the block was entered.
AtKept(f, E, b, k, c, s, i) ==
  /\ Good(f, c) /\ ReachedAt(f, b, k, c) /\ Fits(f, E, c, s)
  /\ IsInformed(s) /\ Suits(f, s)
  /\ i \in Instructions /\ Matches(f, b, k, i)
  /\ \A j \in 1 .. Len(i.args) : i.args[j].kind = "register" => i.args[j].name \notin E
  /\ ~CP!FlowAborts(i, s)
  /\ Stored(f) \cap Registers(f) = {}
  /\ i.op = "load" => i.args[1].name \notin Registers(f)
  /\ i.name \in DOMAIN c.m.old \ E =>
       Tells(f, CP!FlowState(i, s)[i.name], i.name, c.m.old[i.name])

(* What AtKept says of the instruction and of what is left of it.          *)
LEMMA KeptFacts ==
  ASSUME NEW f, IsFunction(f), IsVerified(f), NEW E, NEW b, NEW k, NEW c, NEW s, NEW i,
         AtKept(f, E, b, k, c, s, i)
  PROVE  LET i0 == Current(f, c.m) IN
         /\ i0 = f[b].insts[k] /\ i0 \in Instructions /\ i0 \in Insts(f)
         /\ b \in 1 .. Len(f) /\ k \in 1 .. Len(f[b].insts)
         /\ Understood(f, c) /\ Defined(i0, c.m) /\ ~Misjudges(f, c.own, i0, c.m)
         /\ i.op = i0.op /\ i.name = i0.name /\ Len(i.args) = Len(i0.args)
         /\ i.op \in {"load", "store", "phi", "alloca"} =>
              \A j \in 1 .. Len(i.args) : i.args[j] = i0.args[j]
         /\ \A j \in 1 .. Len(i.args) :
              IsValue(i0.args[j]) /\ i0.args[j] \in Reads(i0, c.m)
                => Tell(i0, j, CP!ElementOf(i.args[j], s), Reading(i0, c.m))
<1> DEFINE i0 == Current(f, c.m)
<1>1. /\ i0 = f[b].insts[k] /\ i0 \in Instructions /\ i0 \in Insts(f)
      /\ b \in 1 .. Len(f) /\ k \in 1 .. Len(f[b].insts)
      /\ Understood(f, c) /\ Defined(i0, c.m) /\ ~Misjudges(f, c.own, i0, c.m)
  BY CurrentFacts DEF AtKept, ReachedAt, Understood, Good
<1> HIDE DEF i0
<1>2. /\ i.op = i0.op /\ i.name = i0.name /\ Len(i.args) = Len(i0.args)
      /\ \A j \in 1 .. Len(i0.args) :
           i.args[j] = i0.args[j] \/ Replaces(f, b, k, j, i.args[j])
  BY <1>1 DEF AtKept, Matches
<1>3. ASSUME i.op \in {"load", "store", "phi", "alloca"}, NEW j \in 1 .. Len(i.args)
      PROVE  i.args[j] = i0.args[j]
  BY <1>1, <1>2, <1>3 DEF Replaces
<1>4. ASSUME NEW j \in 1 .. Len(i.args), IsValue(i0.args[j]), i0.args[j] \in Reads(i0, c.m)
      PROVE  Tell(i0, j, CP!ElementOf(i.args[j], s), Reading(i0, c.m))
  <2>1. /\ Good(f, c) /\ ReachedAt(f, b, k, c) /\ Fits(f, E, c, s) /\ Suits(f, s)
        /\ i.args[j].kind = "register" => i.args[j].name \notin E
        /\ i.args[j] = i0.args[j] \/ Replaces(f, b, k, j, i.args[j])
        /\ j \in 1 .. Len(i0.args)
    BY <1>2, <1>4 DEF AtKept
  <2> QED BY <1>1, <1>4, <2>1, OperandTold, Zenon
<1> QED BY <1>1, <1>2, <1>3, <1>4 DEF i0

(* The elements of its operands are such that ai_cp has rules for them.    *)
LEMMA KeptElements ==
  ASSUME NEW f, NEW E, NEW b, NEW k, NEW c, NEW s, NEW i,
         AtKept(f, E, b, k, c, s, i)
  PROVE  \A j \in 1 .. Len(i.args) :
           CP!ElementOf(i.args[j], s) \in Informed /\ CP!Known(i.args[j], s) \in Informed
BY InstructionFacts, ElementStays DEF AtKept

-----------------------------------------------------------------------------
(* What flowState() finds for each instruction that computes a register.   *)

(* Of a load: what the state knows the variable as, as source itself has   *)
(* stored it last.                                                         *)
LEMMA LoadTold ==
  ASSUME NEW f, IsFunction(f), IsVerified(f), NEW E, NEW b, NEW k, NEW c, NEW s, NEW i,
         AtKept(f, E, b, k, c, s, i), i.op = "load", NEW input
  PROVE  Describes(CP!Known(i.args[1], s), Result(Current(f, c.m), c.m, input))
<1> DEFINE i0 == Current(f, c.m)
           p == i0.args[1].name
<1>1. /\ i0 = f[b].insts[k] /\ i0 \in Instructions
      /\ b \in 1 .. Len(f) /\ k \in 1 .. Len(f[b].insts)
      /\ ~Misjudges(f, c.own, i0, c.m)
      /\ i0.op = "load" /\ Len(i.args) = 1 /\ i.args[1] = i0.args[1]
  <2>1. i \in Instructions /\ Len(i.args) = 1
    BY InstructionFacts DEF AtKept
  <2> QED BY <2>1, KeptFacts
<1> HIDE DEF i0
<1>2. Result(i0, c.m, input) = LoadFrom(i0.args[1], c.m)
  BY <1>1 DEF Result, BinaryOps, ICmps
<1>3. p \notin Registers(f) /\ Suits(f, s)
  BY <1>1 DEF AtKept
<1>4. CASE p \in c.own
  <2>1. p \in DOMAIN s /\ Describes(s[p], c.m.mem[p]) /\ p \in DOMAIN c.m.mem
    BY <1>4 DEF AtKept, Fits, Good
  <2> QED BY Zenon, <1>1, <1>2, <2>1 DEF CP!Known, LoadFrom, i0
<1>5. CASE p \notin c.own
  <2>1. p \notin Stored(f)
    BY <1>1, <1>5 DEF Misjudges
  <2>2. p \in DOMAIN s => s[p] = Any
    BY <1>3, <2>1 DEF Suits, Registers
  <2>3. CP!Known(i.args[1], s) = Any
    BY <1>1, <2>2, SameElements DEF CP!Known
  <2> QED BY <2>3 DEF Describes, Any
<1> QED BY <1>4, <1>5

(* Of a sext: the bit it extends, or all the uses of it only ask whether   *)
(* it is 0.                                                                *)
LEMMA SextTold ==
  ASSUME NEW f, IsFunction(f), IsVerified(f), NEW E, NEW b, NEW k, NEW c, NEW s, NEW i,
         AtKept(f, E, b, k, c, s, i), i.op = "sext", NEW input \in Value
  PROVE  Tells(f, CP!Known(i.args[1], s), i.name, Result(Current(f, c.m), c.m, input))
<1> DEFINE i0 == Current(f, c.m)
           n == i0.args[1].name
           v == Result(i0, c.m, input)
<1>1. /\ i0 = f[b].insts[k] /\ i0 \in Instructions
      /\ b \in 1 .. Len(f) /\ k \in 1 .. Len(f[b].insts)
      /\ Understood(f, c) /\ ~Misjudges(f, c.own, i0, c.m)
      /\ i0.op = "sext" /\ i.name = i0.name /\ Len(i0.args) = 1 /\ Len(i.args) = 1
      /\ 1 \in 1 .. Len(i.args)
  <2>1. i \in Instructions /\ Len(i.args) = 1
    BY SMTT(30), InstructionFacts DEF AtKept
  <2> QED BY <2>1, KeptFacts
<1>2. /\ IsValue(i0.args[1]) /\ i0.args[1].kind = "register"
  BY SMTT(30), <1>1, VerifiedFacts
<1>3. /\ n \in DOMAIN c.m.reg
      /\ \/ c.m.reg[n] = 1 /\ v = -1 /\ Truth(i0.args[1], c.m)
         \/ c.m.reg[n] = 0 /\ v = 0
  BY Zenon, <1>1, ResultFacts DEF AtKept
<1>m. Matches(f, b, k, i) /\ Fits(f, E, c, s) /\ Suits(f, s)
      /\ \A j \in 1 .. Len(i.args) : i.args[j].kind = "register" => i.args[j].name \notin E
  BY DEF AtKept
<1> HIDE DEF i0, v
<1>4. CASE i.args[1] = i0.args[1]
  <2>1. n \notin E
    BY <1>m, <1>1, <1>2, <1>4
  <2>2. n \in DOMAIN s /\ Tells(f, s[n], n, c.m.reg[n])
    BY <1>m, <1>3, <2>1 DEF Fits
  <2>3. Describes(s[n], c.m.reg[n])
    BY <1>3, <2>2 DEF Tells
  <2>4. CP!Known(i.args[1], s) = s[n]
    BY <1>4, <2>2 DEF CP!Known
  <2>5. CASE v = 0 /\ c.m.reg[n] = 0
    BY <2>3, <2>4, <2>5 DEF Tells, v, i0
  <2>6. CASE v = -1 /\ c.m.reg[n] = 1 /\ Truth(i0.args[1], c.m)
    <3>1. OnlyAsked(f, i.name)
      BY Zenon, <1>1, <2>6 DEF Misjudges, OnlyAsked
    <3> QED BY <2>3, <2>4, <2>6, <3>1 DEF Tells, v, i0
  <2> QED BY <1>3, <2>5, <2>6
<1>5. CASE Replaces(f, b, k, 1, i.args[1])
  <2>1. i.args[1].name = Unnamed
    BY <1>5 DEF Replaces, Const
  <2>2. CP!Known(i.args[1], s) = Any
    BY <1>m, <2>1, SameElements DEF CP!Known, Suits
  <2> QED BY <2>2 DEF Tells, Describes, Any
<1> QED BY <1>m, <1>1, <1>4, <1>5 DEF Matches

(* Of a phi: the bound of all its operands, hence of the one that is read. *)
LEMMA PhiTold ==
  ASSUME NEW f, IsFunction(f), IsVerified(f), NEW E, NEW b, NEW k, NEW c, NEW s, NEW i,
         AtKept(f, E, b, k, c, s, i), i.op = "phi", NEW input \in Value
  PROVE  Describes(CP!PhiBound(i, s), Result(Current(f, c.m), c.m, input))
<1> DEFINE i0 == Current(f, c.m)
           v == Result(i0, c.m, input)
<1>1. /\ i0 = f[b].insts[k] /\ i0 \in Instructions
      /\ b \in 1 .. Len(f) /\ k \in 1 .. Len(f[b].insts)
      /\ Understood(f, c) /\ i0.op = "phi" /\ Len(i.args) = Len(i0.args)
      /\ \A j \in 1 .. Len(i.args) :
              IsValue(i0.args[j]) /\ i0.args[j] \in Reads(i0, c.m)
                => Tell(i0, j, CP!ElementOf(i.args[j], s), Reading(i0, c.m))
  BY KeptFacts
<1>2. PICK j \in 1 .. Len(i0.args) :
        i0.args[j] \in Reads(i0, c.m) /\ v = ValueOf(i0.args[j], Reading(i0, c.m)) /\ v \in Value
  BY <1>1, ResultFacts DEF AtKept
<1>3. IsValue(i0.args[j])
  BY SMTT(30), <1>1, VerifiedFacts
<1>4. Tell(i0, j, CP!ElementOf(i.args[j], s), Reading(i0, c.m))
  BY <1>1, <1>2, <1>3
<1> HIDE DEF i0, v
<1>5. Describes(CP!ElementOf(i.args[j], s), v)
  BY Zenon, <1>1, <1>2, <1>4 DEF Tell, Stands
<1>6. /\ CP!PhiBound(i, s) \in Informed
      /\ Leq(CP!ElementOf(i.args[j], s), CP!PhiBound(i, s))
      /\ CP!ElementOf(i.args[j], s) \in Informed
  BY <1>1, <1>2, PhiStays, KeptElements DEF AtKept
<1> QED BY <1>2, <1>5, <1>6, DescribesIsMonotone DEF Informed, v, i0

(* Of arithmetic and comparisons: the rules of the lattice.                *)
LEMMA TransferTold ==
  ASSUME NEW f, IsFunction(f), IsVerified(f), NEW E, NEW b, NEW k, NEW c, NEW s, NEW i,
         AtKept(f, E, b, k, c, s, i), i.op \in BinaryOps \cup ICmps, NEW input \in Value
  PROVE  Describes(Transfer(i.op, CP!ElementOf(i.args[1], s), CP!ElementOf(i.args[2], s)),
                   Result(Current(f, c.m), c.m, input))
<1> DEFINE i0 == Current(f, c.m)
           v == Result(i0, c.m, input)
           x == CP!ElementOf(i.args[1], s)
           y == CP!ElementOf(i.args[2], s)
<1>o. i.op \notin {"store", "phi", "load", "sext", "call", "ret", "br"}
  BY DEF BinaryOps, ICmps
<1>1. /\ i0 = f[b].insts[k] /\ i0 \in Instructions
      /\ b \in 1 .. Len(f) /\ k \in 1 .. Len(f[b].insts)
      /\ Understood(f, c) /\ i0.op = i.op
      /\ Len(i.args) = 2 /\ Len(i0.args) = 2
      /\ \A j \in 1 .. Len(i.args) :
              IsValue(i0.args[j]) /\ i0.args[j] \in Reads(i0, c.m)
                => Tell(i0, j, CP!ElementOf(i.args[j], s), Reading(i0, c.m))
  <2>1. i \in Instructions /\ Len(i.args) = 2
    BY InstructionFacts DEF AtKept
  <2> QED BY SMTT(30), <2>1, KeptFacts
<1>r. Reading(i0, c.m) = c.m
  BY <1>o, <1>1 DEF Reading
<1>2. IsValue(i0.args[1]) /\ IsValue(i0.args[2])
  BY SMTT(30), <1>o, <1>1, VerifiedFacts
<1>3. i0.args[1] \in Reads(i0, c.m) /\ i0.args[2] \in Reads(i0, c.m)
  <2> HIDE DEF i0
  <2>1. i0 \in Instructions /\ i0.op # "phi"
    BY <1>o, <1>1
  <2>2. \A j \in 1 .. Len(i0.args) : i0.args[j] \in Reads(i0, c.m)
    BY <2>1, AllRead, Zenon
  <2> QED BY <1>1, <2>2
<1>4. Tell(i0, 1, x, c.m) /\ Tell(i0, 2, y, c.m)
  BY <1>1, <1>2, <1>3, <1>r
<1>5. x \in Informed /\ y \in Informed
  BY <1>1, KeptElements
<1>6. ~Aborts(i.op, x, y)
  <2>1. ~CP!Aborts(i.op, x, y)
    BY <1>o, <1>1 DEF AtKept, CP!FlowAborts
  <2> QED BY <2>1, SameRules
<1>7. /\ i0.op \in BinaryOps =>
           /\ v = Exact(i0.op, ValueOf(i0.args[1], c.m), ValueOf(i0.args[2], c.m))
           /\ v \in Value /\ (i0.op = "sdiv" => ValueOf(i0.args[2], c.m) # 0)
           /\ ~TruncatesToZero(i0.op, ValueOf(i0.args[1], c.m), ValueOf(i0.args[2], c.m))
      /\ i0.op \in ICmps => v = Bit(Holds(i0.op, ValueOf(i0.args[1], c.m), ValueOf(i0.args[2], c.m)))
  BY <1>1, ResultFacts DEF AtKept
<1> HIDE DEF i0, v, x, y
<1>8. Describes(Transfer(i0.op, x, y), v)
  BY <1>1, <1>4, <1>5, <1>6, <1>7, ResultTold
<1> QED BY <1>1, <1>8 DEF i0, v, x, y

(* The state after an instruction is right of f after it.                  *)
LEMMA FitsStep ==
  ASSUME NEW f, IsFunction(f), IsVerified(f), NEW E, NEW b, NEW k, NEW c, NEW s, NEW i,
         AtKept(f, E, b, k, c, s, i), i.op \notin {"br", "ret"},
         NEW input \in Value, NEW effect \in Effects, i.op # "call" => effect = EmptyState
  PROVE  Fits(f, E, StepOf(f, c, input, effect), CP!FlowState(i, s))
<1> DEFINE i0 == Current(f, c.m)
           v == Result(i0, c.m, input)
           d == StepOf(f, c, input, effect)
           t == CP!FlowState(i, s)
<1>1. /\ i0 = f[b].insts[k] /\ i0 \in Instructions /\ i0 \in Insts(f)
      /\ b \in 1 .. Len(f) /\ k \in 1 .. Len(f[b].insts)
      /\ i.op = i0.op /\ i.name = i0.name /\ Len(i.args) = Len(i0.args)
      /\ i.op = "store" => \A j \in 1 .. Len(i.args) : i.args[j] = i0.args[j]
  BY KeptFacts
<1>2. /\ Good(f, c) /\ Fits(f, E, c, s) /\ Stored(f) \cap Registers(f) = {}
      /\ i \in Instructions /\ ~CP!FlowAborts(i, s) /\ DOMAIN c.m = Fields
  BY DEF AtKept, Good
<1>3. /\ d.m = After(f, c.m, input, effect)
      /\ d.own = (IF i0.op = "store" THEN c.own \cup {i0.args[2].name} ELSE c.own) \ DOMAIN effect
  BY DEF StepOf
<1>4. /\ i0.op = "store" => /\ d.m.reg = c.m.reg
                            /\ d.m.mem = Assign(c.m.mem, i0.args[2].name, ValueOf(i0.args[1], c.m))
      /\ i0.op \notin {"br", "store"} =>
           /\ d.m.reg = IF i0.name = Unnamed THEN c.m.reg ELSE Assign(c.m.reg, i0.name, v)
           /\ d.m.mem = Overlay(c.m.mem, effect)
  BY <1>2, <1>3, AfterFacts
<1>a. d.m.old = c.m.old
  BY SMTT(30), <1>1, <1>2, <1>3, AfterFacts
<1>5. CASE i.op = "store"
  <2>0. Len(i.args) = 2
    BY <1>2, <1>5, InstructionFacts
  <2>1. Len(i.args) = 2 /\ 1 \in 1 .. Len(i.args) /\ 2 \in 1 .. Len(i.args)
    BY <2>0
  <2>2. IsValue(i0.args[1]) /\ i0.args[1] \in Reads(i0, c.m)
    <3>a. \A a \in 1 .. Len(f) : \A l \in 1 .. Len(f[a].insts) :
            f[a].insts[l].op = "store" => IsValue(f[a].insts[l].args[1])
      BY VerifiedFacts
    <3>1. IsValue(i0.args[1])
      <4> HIDE DEF i0
      <4> QED BY <1>1, <1>5, <3>a
    <3>2. \A j \in 1 .. Len(i0.args) : i0.args[j] \in Reads(i0, c.m)
      <4>1. i0.op # "phi"
        BY <1>1, <1>5
      <4> QED BY <1>1, <4>1, AllRead, Zenon
    <3> QED BY SMTT(30), <1>1, <2>1, <3>1, <3>2
  <2>3. Tell(i0, 1, CP!ElementOf(i.args[1], s), c.m)
    <3>1. Reading(i0, c.m) = c.m
      BY <1>1, <1>5 DEF Reading
    <3>2. Tell(i0, 1, CP!ElementOf(i.args[1], s), Reading(i0, c.m))
      BY <2>1, <2>2, KeptFacts
    <3> QED BY <3>1, <3>2
  <2> HIDE DEF i0, d, t
  <2>4. Describes(CP!ElementOf(i.args[1], s), ValueOf(i0.args[1], c.m))
    BY <1>1, <1>5, <2>3 DEF Tell, Stands
  <2>5. t = CP!Update(s, i0.args[2].name, CP!ElementOf(i.args[1], s))
    BY <1>1, <1>5, <2>1 DEF CP!FlowState, t
  <2>6. i0.args[2].name \in Stored(f)
    BY <1>1, <1>5 DEF Stored
  <2>7. d.own \subseteq c.own \cup {i0.args[2].name}
    BY <1>1, <1>3, <1>5
  <2>8. /\ d.m.reg = c.m.reg
        /\ d.m.mem = Assign(c.m.mem, i0.args[2].name, ValueOf(i0.args[1], c.m))
    BY <1>1, <1>4, <1>5
  <2>9. Fits(f, E, d, CP!Update(s, i0.args[2].name, CP!ElementOf(i.args[1], s)))
    BY <1>2, <1>a, <2>4, <2>6, <2>7, <2>8, FitsStored, Zenon
  <2> QED BY <2>5, <2>9 DEF d, t
<1>6. CASE i.op = "call" /\ i.name = Unnamed
  <2>1. t = s
    BY Zenon, <1>6, SameElements DEF CP!FlowState, CP!Unnamed, Unnamed
  <2>2. d.m.reg = c.m.reg /\ d.m.mem = Overlay(c.m.mem, effect) /\ d.own = c.own \ DOMAIN effect
    BY <1>1, <1>3, <1>4, <1>6
  <2>3. c.own \subseteq DOMAIN c.m.mem
    BY <1>2 DEF Good
  <2> HIDE DEF d, t
  <2>4. \A p \in d.own : p \in c.own /\ d.m.mem[p] = c.m.mem[p]
    BY <2>2, <2>3 DEF Overlay
  <2>5. Fits(f, E, d, s)
    BY <1>2, <1>a, <2>2, <2>4 DEF Fits
  <2> QED BY <2>1, <2>5 DEF d, t
<1>7. CASE i.op \notin {"store", "call"} \/ i.name # Unnamed
  <2>0. i.op # "store" /\ i.name # Unnamed
    <3>1. i0.op \notin {"store", "br", "ret", "call"} => i0.name # Unnamed
      BY SMTT(30), <1>1, VerifiedFacts
    <3>2. i0.op = "store" => i0.name = Unnamed
      BY SMTT(30), <1>1, VerifiedFacts
    <3> QED BY SMTT(30), <1>1, <1>7, <3>1, <3>2
  <2>1. i.name \in Registers(f)
    BY <1>1, <2>0 DEF Registers
  <2>2. /\ d.m.reg = Assign(c.m.reg, i.name, v) /\ d.m.mem = Overlay(c.m.mem, effect)
        /\ d.own = c.own \ DOMAIN effect
    BY <1>1, <1>3, <1>4, <2>0
  <2>3. \E x : t = CP!Update(s, i.name, x) /\ Tells(f, x, i.name, v)
    <3>1. CASE i.op = "phi"
      <4>1. t = CP!Update(s, i.name, CP!PhiBound(i, s))
        BY <3>1 DEF CP!FlowState
      <4>2. Describes(CP!PhiBound(i, s), v)
        BY <3>1, PhiTold
      <4> QED BY <4>1, <4>2 DEF Tells
    <3>2. CASE i.op = "load"
      <4>1. t = CP!Update(s, i.name, CP!Known(i.args[1], s))
        BY <3>2 DEF CP!FlowState
      <4>2. Describes(CP!Known(i.args[1], s), v)
        BY <3>2, LoadTold
      <4> QED BY <4>1, <4>2 DEF Tells
    <3>3. CASE i.op = "sext"
      <4>1. t = CP!Update(s, i.name, CP!Known(i.args[1], s))
        BY <3>3 DEF CP!FlowState
      <4>2. Tells(f, CP!Known(i.args[1], s), i.name, v)
        BY <3>3, SextTold
      <4> QED BY <4>1, <4>2
    <3>4. CASE i.op = "call"
      <4>1. t = CP!Update(s, i.name, Any)
        BY Zenon, <2>0, <3>4, SameElements DEF CP!FlowState, CP!Unnamed, Unnamed
      <4>2. Describes(Any, v)
        BY DEF Describes, Any
      <4> QED BY <4>1, <4>2 DEF Tells
    <3>5. CASE i.op \in BinaryOps \cup ICmps
      <4>o. i.op \notin {"store", "phi", "load", "sext", "call", "ret", "br"}
        BY <3>5 DEF BinaryOps, ICmps
      <4>1. t = CP!Update(s, i.name, Transfer(i.op, CP!ElementOf(i.args[1], s), CP!ElementOf(i.args[2], s)))
        BY <4>o, SameRules DEF CP!FlowState
      <4>2. Describes(Transfer(i.op, CP!ElementOf(i.args[1], s), CP!ElementOf(i.args[2], s)), v)
        BY <3>5, TransferTold
      <4> QED BY <4>1, <4>2 DEF Tells
    <3>6. i.op # "alloca"
      <4> SUFFICES ASSUME i.op = "alloca" PROVE FALSE
        OBVIOUS
      <4>1. Len(i.args) = 1
        BY <1>2, InstructionFacts
      <4> QED BY <1>2, <4>1 DEF CP!FlowAborts
    <3>7. i.op \in Opcodes
      BY <1>2, InstructionFacts
    <3> QED BY <2>0, <3>1, <3>2, <3>3, <3>4, <3>5, <3>6, <3>7 DEF Opcodes
  <2>4. PICK x : t = CP!Update(s, i.name, x) /\ Tells(f, x, i.name, v)
    BY <2>3
  <2>6. i.name \in DOMAIN c.m.old \ E => Tells(f, x, i.name, c.m.old[i.name])
    <3>1. t[i.name] = x
      BY <2>4 DEF CP!Update
    <3> QED BY <3>1 DEF AtKept
  <2> HIDE DEF i0, v, d, t
  <2>5. Fits(f, E, d, CP!Update(s, i.name, x))
    BY <1>2, <1>a, <2>1, <2>2, <2>4, <2>6, FitsNamed, Zenon
  <2> QED BY <2>4, <2>5 DEF d, t
<1> QED BY <1>5, <1>6, <1>7

-----------------------------------------------------------------------------
(* Where the instructions left were. *)

(* The terminator of a block is left, and is the last.                     *)
LEMMA LastKept ==
  ASSUME NEW f, IsFunction(f), IsVerified(f), NEW g, IsFunction(g), NEW e, NEW E, Agree(f, g, e, E),
         NEW b \in 1 .. Len(f)
  PROVE  /\ b \in 1 .. Len(g) /\ g[b].preds = f[b].preds
         /\ Len(f[b].insts) \in Nat \ {0} /\ Len(g[b].insts) \in Nat \ {0}
         /\ \A l \in 1 .. Len(g[b].insts) :
              /\ e[b][l] \in 1 .. Len(f[b].insts) /\ e[b][l] \in Nat
              /\ (e[b][l] = Len(f[b].insts) <=> l = Len(g[b].insts))
              /\ g[b].insts[l] \in Instructions
<1> DEFINE n == Len(f[b].insts)
           h == Len(g[b].insts)
<1>1. Len(g) = Len(f) /\ b \in 1 .. Len(g)
  BY DEF Agree
<1>2. n \in Nat /\ f[b].insts \in Seq(Instructions) /\ f[b].insts # <<>>
  BY FunctionFacts DEF IsVerified
<1>3. n \in Nat \ {0} /\ n \in 1 .. n
  BY <1>2
<1>4. h \in Nat /\ \A l \in 1 .. h : g[b].insts[l] \in Instructions
  BY <1>1, FunctionFacts
<1>5. /\ \A l \in 1 .. h : e[b][l] \in 1 .. n
      /\ \A l, j \in 1 .. h : l < j => e[b][l] < e[b][j]
      /\ g[b].preds = f[b].preds
      /\ Dropped(g, e, b, n) => f[b].insts[n].name # Unnamed
  BY <1>3 DEF Agree
<1>6. f[b].insts[n].op \in {"br", "ret"} /\ f[b].insts[n].name = Unnamed
  BY <1>3 DEF IsVerified
<1>7. PICK l \in 1 .. h : e[b][l] = n
  BY <1>5, <1>6 DEF Dropped
<1> HIDE DEF n, h
<1>8. l = h
  <2>1. h \in 1 .. h /\ l <= h
    BY <1>4, <1>7
  <2>2. e[b][h] <= n
    BY <1>3, <1>5, <2>1
  <2>3. ~(l < h)
    BY <1>3, <1>5, <1>7, <2>1, <2>2
  <2> QED BY <1>4, <2>1, <2>3
<1>9. ASSUME NEW j \in 1 .. h PROVE e[b][j] = n <=> j = h
  <2>1. j < h => e[b][j] < n
    BY <1>5, <1>7, <1>8
  <2>2. j < h \/ j = h
    BY <1>4
  <2> QED BY <1>3, <1>5, <1>7, <1>8, <2>1, <2>2
<1>10. h \in Nat \ {0} /\ \A j \in 1 .. h : e[b][j] \in Nat
  BY <1>3, <1>4, <1>5, <1>7
<1> QED BY <1>1, <1>3, <1>4, <1>5, <1>9, <1>10 DEF n, h

\* Instruction l of block b is the first left that was at k or after it.
NextKept(g, e, b, k, l) ==
  /\ l \in 1 .. Len(g[b].insts) /\ k <= e[b][l]
  /\ l = 1 \/ e[b][l - 1] < k

-----------------------------------------------------------------------------
(* The states with which ai_cp ends are right wherever f gets to. *)

\* The states in solve the equations of ai_cp for g, and say of no name what
\* does not suit f.
IsSolution(f, g, in) ==
  \A b \in 1 .. Len(g) :
    /\ \A l \in 1 .. Len(g[b].insts) :
         /\ IsInformed(in[<<b, l>>]) /\ Suits(f, in[<<b, l>>])
         /\ ~CP!FlowAborts(g[b].insts[l], in[<<b, l>>])
         /\ l < Len(g[b].insts) => in[<<b, l + 1>>] = CP!FlowState(g[b].insts[l], in[<<b, l>>])
    /\ b # 1 => \A p \in g[b].preds :
         LET n == Len(g[p].insts) IN
         CP!StateLeq(CP!FlowState(g[p].insts[n], in[<<p, n>>]), in[<<b, 1>>])

(* It does not go on where there are variables on the stack: none is left. *)
LEMMA NoStackVariables ==
  ASSUME NEW f, IsFunction(f), IsVerified(f), NEW g, IsFunction(g), NEW e, NEW E, Agree(f, g, e, E),
         NEW in, IsSolution(f, g, in)
  PROVE  /\ Stored(f) \cap Registers(f) = {}
         /\ \A b \in 1 .. Len(f) : \A l \in 1 .. Len(g[b].insts) :
              g[b].insts[l].op = "load" => g[b].insts[l].args[1].name \notin Registers(f)
<1>1. ASSUME NEW a \in Insts(f), a.op = "alloca"
      PROVE  a.name \in E
  <2>1. PICK b \in 1 .. Len(f) : \E k \in 1 .. Len(f[b].insts) : a = f[b].insts[k]
    BY PlacesOfInsts
  <2>2. PICK k \in 1 .. Len(f[b].insts) : a = f[b].insts[k]
    BY <2>1
  <2>3. CASE Dropped(g, e, b, k)
    BY <2>2, <2>3 DEF Agree
  <2>4. CASE ~Dropped(g, e, b, k)
    <3>1. PICK l \in 1 .. Len(g[b].insts) : e[b][l] = k
      BY <2>4 DEF Dropped
    <3>2. Matches(f, b, k, g[b].insts[l]) /\ b \in 1 .. Len(g)
      BY <3>1 DEF Agree
    <3>3. g[b].insts[l].op = "alloca"
      BY <1>1, <2>2, <3>2 DEF Matches
    <3>4. g[b].insts[l] \in Instructions
      BY <3>2, LastKept
    <3>5. Len(g[b].insts[l].args) = 1
      BY <3>3, <3>4, InstructionFacts
    <3>6. ~CP!FlowAborts(g[b].insts[l], in[<<b, l>>])
      BY <3>2 DEF IsSolution
    <3> QED BY <3>3, <3>5, <3>6 DEF CP!FlowAborts
  <2> QED BY <2>3, <2>4
<1>2. ASSUME NEW x, IsPointer(f, x), x.kind = "register" => x.name \notin E
      PROVE  x.name \notin Registers(f)
  <2>1. CASE x = Reg(x.name) /\ \E i \in Insts(f) : i.op = "alloca" /\ i.name = x.name
    <3>1. x.kind = "register"
      BY SMTT(30), <2>1 DEF Reg
    <3> QED BY <1>1, <1>2, <2>1, <3>1
  <2> QED BY <1>2, <2>1 DEF IsPointer
<1>3. ASSUME NEW b \in 1 .. Len(f), NEW l \in 1 .. Len(g[b].insts), NEW j \in {1, 2},
             LET i == g[b].insts[l] IN (i.op = "load" /\ j = 1) \/ (i.op = "store" /\ j = 2)
      PROVE  /\ g[b].insts[l].args[j] = f[b].insts[e[b][l]].args[j]
             /\ g[b].insts[l].args[j].name \notin Registers(f)
  <2> DEFINE i == g[b].insts[l]
             i0 == f[b].insts[e[b][l]]
  <2>1. /\ i \in Instructions /\ e[b][l] \in 1 .. Len(f[b].insts)
        /\ Matches(f, b, e[b][l], i)
        /\ \A h \in 1 .. Len(i.args) : i.args[h].kind = "register" => i.args[h].name \notin E
    <3>1. i \in Instructions
      BY LastKept
    <3> QED BY <3>1 DEF Agree
  <2>2. i.op = "load" => Len(i.args) = 1
    BY <2>1, InstructionFacts
  <2>3. i.op = "store" => Len(i.args) = 2
    BY <2>1, InstructionFacts
  <2>4. j \in 1 .. Len(i.args)
    <3> HIDE DEF i
    <3>1. (i.op = "load" /\ j = 1) \/ (i.op = "store" /\ j = 2)
      BY <1>3 DEF i
    <3>2. CASE j = 1
      <4>1. Len(i.args) = 1 \/ Len(i.args) = 2
        BY <2>2, <2>3, <3>1
      <4> QED BY SMTT(30), <3>2, <4>1
    <3>3. CASE j = 2
      <4>1. Len(i.args) = 2
        BY <2>3, <3>1, <3>3
      <4> QED BY <3>3, <4>1
    <3> QED BY <3>2, <3>3
  <2>5. i0.op = i.op /\ i.args[j] = i0.args[j]
    BY Zenon, <1>3, <2>1, <2>4 DEF Matches, Replaces
  <2>6. /\ i0.op = "load" => IsPointer(f, i0.args[1])
        /\ i0.op = "store" => IsPointer(f, i0.args[2])
    BY Zenon, <2>1, VerifiedFacts
  <2>7. IsPointer(f, i.args[j])
    BY <1>3, <2>5, <2>6
  <2> QED BY Zenon, <1>2, <2>1, <2>4, <2>5, <2>7
<1>4. ASSUME NEW i \in Insts(f), i.op = "store"
      PROVE  i.args[2].name \notin Registers(f)
  <2>1. PICK b \in 1 .. Len(f) : \E k \in 1 .. Len(f[b].insts) : i = f[b].insts[k]
    BY PlacesOfInsts
  <2>2. PICK k \in 1 .. Len(f[b].insts) : i = f[b].insts[k]
    BY <2>1
  <2>3. ~Dropped(g, e, b, k)
    BY <1>4, <2>2 DEF Agree
  <2>4. PICK l \in 1 .. Len(g[b].insts) : e[b][l] = k
    BY <2>3 DEF Dropped
  <2>5. g[b].insts[l].op = "store"
    BY ZenonT(30), <1>4, <2>2, <2>4 DEF Agree, Matches
  <2>6. /\ g[b].insts[l].args[2] = f[b].insts[e[b][l]].args[2]
        /\ g[b].insts[l].args[2].name \notin Registers(f)
    BY <1>3, <2>5
  <2> QED BY <2>2, <2>4, <2>6
<1>5. Stored(f) \cap Registers(f) = {}
  BY <1>4 DEF Stored
<1>6. ASSUME NEW b \in 1 .. Len(f), NEW l \in 1 .. Len(g[b].insts), g[b].insts[l].op = "load"
      PROVE  g[b].insts[l].args[1].name \notin Registers(f)
  BY <1>3, <1>6
<1> QED BY <1>5, <1>6

(* ai_cp has the order of this module.                                     *)
LEMMA SameOrder == \A x, y : CP!Leq(x, y) <=> Leq(x, y)
<1>1. \A x, r : CP!ClimbTo(x, r) = ClimbTo(x, r)
  BY SameElements DEF CP!ClimbTo, ClimbTo
<1> QED BY <1>1, SameElements DEF CP!Leq, Leq

(* What fits a state fits those above it.                                  *)
LEMMA FitsAbove ==
  ASSUME NEW f, NEW c, Good(f, c), NEW E, NEW s, NEW t, IsInformed(s), IsInformed(t),
         CP!StateLeq(s, t), Fits(f, E, c, s)
  PROVE  Fits(f, E, c, t)
<1>1. \A n \in DOMAIN s : /\ n \in DOMAIN t /\ s[n] \in Elem /\ t[n] \in Elem
                          /\ Leq(s[n], t[n])
  BY SameOrder DEF CP!StateLeq, IsInformed, Informed
<1>2. \A n \in DOMAIN s, v \in Value : Describes(s[n], v) => Describes(t[n], v)
  BY <1>1, DescribesIsMonotone
<1>3. /\ \A n \in DOMAIN c.m.reg : c.m.reg[n] \in Value
      /\ \A n \in DOMAIN c.m.old : c.m.old[n] \in Value
      /\ \A p \in c.own : c.m.mem[p] \in Value
  BY DEF Good
<1> QED BY <1>1, <1>2, <1>3, SmallInts DEF Fits, Tells

\* What each instruction left makes known of its register is right of the value
\* that the register has in reg, where it has one.
Born(f, g, E, in, reg) ==
  \A b \in 1 .. Len(g) : \A l \in 1 .. Len(g[b].insts) :
    LET n == g[b].insts[l].name IN
    n \in DOMAIN reg \ E => Tells(f, CP!FlowState(g[b].insts[l], in[<<b, l>>])[n], n, reg[n])

(* The state before the next instruction left is right of f.               *)
Sound(f, g, e, E, in, c) ==
  /\ \A l : NextKept(g, e, c.m.blk, c.m.idx, l) => Fits(f, E, c, in[<<c.m.blk, l>>])
  /\ Born(f, g, E, in, c.m.reg) /\ Born(f, g, E, in, c.m.old)

(* So f is at an instruction left, if it is left.                          *)
LEMMA SoundKept ==
  ASSUME NEW f, IsFunction(f), IsVerified(f), NEW g, IsFunction(g), NEW e, NEW E, Agree(f, g, e, E),
         NEW in, IsSolution(f, g, in),
         NEW c, Reached(f, c), Good(f, c), Sound(f, g, e, E, in, c), Understood(f, c),
         NEW l \in 1 .. Len(g[c.m.blk].insts), e[c.m.blk][l] = c.m.idx
  PROVE  AtKept(f, E, c.m.blk, c.m.idx, c, in[<<c.m.blk, l>>], g[c.m.blk].insts[l])
<1> DEFINE b == c.m.blk
           k == c.m.idx
           i == g[b].insts[l]
           s == in[<<b, l>>]
<1>1. b \in 1 .. Len(f) /\ k \in Nat /\ ReachedAt(f, b, k, c)
  BY DEF Good, ReachedAt
<1>2. /\ b \in 1 .. Len(g) /\ Len(g[b].insts) \in Nat
      /\ \A h \in 1 .. Len(g[b].insts) : g[b].insts[h] \in Instructions
  BY SMTT(30), <1>1, LastKept
<1>3. \A h \in 1 .. Len(g[b].insts) : h < l => e[b][h] < e[b][l]
  BY <1>1 DEF Agree
<1>4. NextKept(g, e, b, k, l)
  <2>1. ASSUME l # 1 PROVE e[b][l - 1] < k
    <3>1. l - 1 \in 1 .. Len(g[b].insts) /\ l - 1 < l
      BY <2>1, <1>2
    <3> QED BY <1>3, <3>1
  <2> QED BY <1>1, <2>1 DEF NextKept
<1>5. Fits(f, E, c, s)
  BY <1>4 DEF Sound
<1>6. IsInformed(s) /\ Suits(f, s) /\ ~CP!FlowAborts(i, s)
  BY Zenon, <1>2 DEF IsSolution
<1>7. Stored(f) \cap Registers(f) = {} /\ (i.op = "load" => i.args[1].name \notin Registers(f))
  BY <1>1, NoStackVariables
<1>8. /\ i \in Instructions /\ Matches(f, b, k, i)
      /\ \A j \in 1 .. Len(i.args) : i.args[j].kind = "register" => i.args[j].name \notin E
  BY Zenon, <1>1, <1>2 DEF Agree
<1>9. i.name \in DOMAIN c.m.old \ E => Tells(f, CP!FlowState(i, s)[i.name], i.name, c.m.old[i.name])
  BY Zenon, <1>2 DEF Sound, Born
<1> QED BY Zenon, <1>1, <1>5, <1>6, <1>7, <1>8, <1>9 DEF AtKept

(* Of a step, the registers are known by where they were computed, as no   *)
(* two instructions have the same name.                                    *)
LEMMA BornStep ==
  ASSUME NEW f, IsFunction(f), IsVerified(f), NEW g, IsFunction(g), NEW e, NEW E, Agree(f, g, e, E),
         NEW in, IsSolution(f, g, in),
         NEW c, Reached(f, c), Good(f, c), Sound(f, g, e, E, in, c),
         NEW d, Steps(f, c, d)
  PROVE  Born(f, g, E, in, d.m.reg) /\ Born(f, g, E, in, d.m.old)
<1> DEFINE b == c.m.blk
           k == c.m.idx
           i0 == Current(f, c.m)
<1>1. PICK input \in Value, effect \in Effects :
        (i0.op # "call" => effect = EmptyState) /\ d = StepOf(f, c, input, effect)
  BY DEF Steps
<1>2. Understood(f, c) /\ i0.op # "ret"
  BY DEF Steps
<1>3. /\ b \in 1 .. Len(f) /\ k \in 1 .. Len(f[b].insts)
      /\ i0 = f[b].insts[k] /\ DOMAIN c.m = Fields
  BY CurrentFacts DEF Good
<1> DEFINE v == Result(i0, c.m, input)
<1>4. d.m = After(f, c.m, input, effect)
  BY <1>1 DEF StepOf
<1>5. /\ i0.op = "br" => d.m.reg = c.m.reg /\ d.m.old = c.m.reg
      /\ i0.op # "br" => d.m.old = c.m.old
      /\ i0.op = "store" => d.m.reg = c.m.reg
      /\ i0.op \notin {"br", "store"} =>
           d.m.reg = IF i0.name = Unnamed THEN c.m.reg ELSE Assign(c.m.reg, i0.name, v)
  BY SMTT(30), <1>3, <1>4, AfterFacts
<1>6. Born(f, g, E, in, c.m.reg) /\ Born(f, g, E, in, c.m.old)
  BY DEF Sound
<1>7. CASE d.m.reg = c.m.reg
  BY <1>5, <1>6, <1>7
<1>8. CASE i0.op \notin {"br", "store"} /\ i0.name # Unnamed
  <2>1. d.m.old = c.m.old /\ d.m.reg = Assign(c.m.reg, i0.name, v)
    BY <1>5, <1>8
  <2>2. ASSUME NEW a \in 1 .. Len(g), NEW l \in 1 .. Len(g[a].insts),
               g[a].insts[l].name \in DOMAIN d.m.reg \ E
        PROVE  LET n == g[a].insts[l].name IN
               Tells(f, CP!FlowState(g[a].insts[l], in[<<a, l>>])[n], n, d.m.reg[n])
    <3> DEFINE i == g[a].insts[l]
               n == i.name
    <3>1. CASE n # i0.name
      <4>1. n \in DOMAIN c.m.reg \ E /\ d.m.reg[n] = c.m.reg[n]
        <5> HIDE DEF i0, v, i
        <5> QED BY <2>1, <2>2, <3>1 DEF Assign, i
      <4> QED BY Zenon, <1>6, <4>1 DEF Born
    <3>2. CASE n = i0.name
      <4>1. a \in 1 .. Len(f) /\ e[a][l] \in 1 .. Len(f[a].insts) /\ n = f[a].insts[e[a][l]].name
        <5>1. a \in 1 .. Len(f)
          BY DEF Agree
        <5>2. e[a][l] \in 1 .. Len(f[a].insts) /\ Matches(f, a, e[a][l], i)
          BY Zenon, <5>1 DEF Agree
        <5> QED BY Zenon, <5>1, <5>2 DEF Matches
      <4>2. a = b /\ e[a][l] = k
        <5>1. NamesAreUnique(f)
          BY DEF IsVerified
        <5>2. /\ f[a].insts[e[a][l]].name = f[b].insts[k].name
              /\ f[a].insts[e[a][l]].name # Unnamed
          BY <1>3, <1>8, <3>2, <4>1
        <5>3. /\ a \in 1 .. Len(f) /\ e[a][l] \in 1 .. Len(f[a].insts)
              /\ b \in 1 .. Len(f) /\ k \in 1 .. Len(f[b].insts)
          BY <1>3, <4>1
        <5> HIDE DEF b, k, i0, i
        <5>4. <<a, e[a][l]>> = <<b, k>>
          BY SMTT(30), <5>1, <5>2, <5>3 DEF NamesAreUnique
        <5> QED BY <5>4
      <4>3. AtKept(f, E, b, k, c, in[<<b, l>>], g[b].insts[l])
        BY <1>2, <4>2, SoundKept
      <4>4. i.op = i0.op
        BY <4>2, <4>3, KeptFacts
      <4>5. i.op \notin {"br", "ret"} /\ (i.op # "call" => effect = EmptyState)
        BY <1>1, <1>2, <1>8, <4>4
      <4>6. Fits(f, E, StepOf(f, c, input, effect), CP!FlowState(i, in[<<a, l>>]))
        <5> HIDE DEF i0
        <5> QED BY <4>2, <4>3, <4>5, FitsStep
      <4>7. Fits(f, E, d, CP!FlowState(i, in[<<a, l>>]))
        BY <1>1, <4>6
      <4> QED BY Zenon, <2>2, <4>7 DEF Fits
    <3> QED BY <3>1, <3>2
  <2>3. Born(f, g, E, in, d.m.reg)
    BY Zenon, <2>2 DEF Born
  <2> QED BY <1>6, <2>1, <2>3
<1> QED BY <1>5, <1>7, <1>8

(* A step ai_cp understands leads to where its states are right again.     *)
LEMMA SoundStep ==
  ASSUME NEW f, IsFunction(f), IsVerified(f), NEW g, IsFunction(g), NEW e, NEW E, Agree(f, g, e, E),
         NEW in, IsSolution(f, g, in),
         NEW c, Reached(f, c), Good(f, c), Sound(f, g, e, E, in, c),
         NEW d, Steps(f, c, d)
  PROVE  Sound(f, g, e, E, in, d)
<1> DEFINE b == c.m.blk
           k == c.m.idx
           i0 == Current(f, c.m)
<1>1. PICK input \in Value, effect \in Effects :
        (i0.op # "call" => effect = EmptyState) /\ d = StepOf(f, c, input, effect)
  BY DEF Steps
<1>2. /\ Understood(f, c) /\ i0.op # "ret"
      /\ ReachedAt(f, b, k, c)
  BY DEF Steps, ReachedAt
<1>3. /\ b \in 1 .. Len(f) /\ k \in 1 .. Len(f[b].insts) /\ k \in Nat
      /\ i0 = f[b].insts[k] /\ i0 \in Instructions /\ i0 \in Insts(f)
      /\ DOMAIN c.m = Fields
      /\ c.own \subseteq DOMAIN c.m.mem
  BY CurrentFacts DEF Good
<1>4. /\ d.m = After(f, c.m, input, effect)
      /\ d.own = (IF i0.op = "store" THEN c.own \cup {i0.args[2].name} ELSE c.own) \ DOMAIN effect
  BY <1>1 DEF StepOf
<1>5. /\ i0.op = "br" => /\ d.m.blk = TargetOf(i0, c.m) /\ d.m.idx = 1
                         /\ d.m.reg = c.m.reg /\ d.m.old = c.m.reg /\ d.m.mem = c.m.mem
      /\ i0.op # "br" => d.m.blk = b /\ d.m.idx = k + 1 /\ d.m.old = c.m.old
      /\ i0.op \notin {"br", "store"} =>
           /\ d.m.reg = IF i0.name = Unnamed THEN c.m.reg
                        ELSE Assign(c.m.reg, i0.name, Result(i0, c.m, input))
           /\ d.m.mem = Overlay(c.m.mem, effect)
  <2>1. d.m = After(f, c.m, input, effect) /\ DOMAIN c.m = Fields
    BY Zenon, <1>3, <1>4
  <2> QED BY SMTT(30), <2>1, AfterFacts
<1>6. /\ b \in 1 .. Len(g) /\ g[b].preds = f[b].preds
      /\ Len(f[b].insts) \in Nat \ {0} /\ Len(g[b].insts) \in Nat \ {0}
      /\ \A l \in 1 .. Len(g[b].insts) :
           /\ e[b][l] \in 1 .. Len(f[b].insts) /\ e[b][l] \in Nat
           /\ (e[b][l] = Len(f[b].insts) <=> l = Len(g[b].insts))
           /\ g[b].insts[l] \in Instructions
  BY SMTT(30), <1>3, LastKept
<1>7. \A l, h \in 1 .. Len(g[b].insts) : l < h => e[b][l] < e[b][h]
  BY <1>3 DEF Agree
<1> SUFFICES ASSUME NEW l, NextKept(g, e, d.m.blk, d.m.idx, l)
             PROVE  Fits(f, E, d, in[<<d.m.blk, l>>])
  BY BornStep DEF Sound
<1>8. CASE Dropped(g, e, b, k)
  <2>1. i0.op \notin {"store", "phi", "call"} /\ i0.name \in E /\ i0.name # Unnamed
    BY SMTT(30), <1>3, <1>8 DEF Agree
  <2>2. i0.op \notin {"br", "ret"}
    BY <1>3, <2>1 DEF IsVerified
  <2>3. effect = EmptyState /\ DOMAIN EmptyState = {}
    BY <1>1, <2>1 DEF EmptyState, CP!EmptyState
  <2>4. /\ d.m.blk = b /\ d.m.idx = k + 1 /\ d.own = c.own
        /\ d.m.reg = Assign(c.m.reg, i0.name, Result(i0, c.m, input))
        /\ d.m.mem = Overlay(c.m.mem, effect)
    BY <1>4, <1>5, <2>1, <2>2, <2>3
  <2>5. NextKept(g, e, b, k, l)
    <3>1. l \in 1 .. Len(g[b].insts) /\ k + 1 <= e[b][l] /\ (l = 1 \/ e[b][l - 1] < k + 1)
      BY <2>4 DEF NextKept
    <3>2. e[b][l] \in Nat /\ k <= e[b][l]
      BY SMTT(30), <1>3, <1>6, <3>1
    <3>3. ASSUME l # 1 PROVE e[b][l - 1] < k
      <4>1. l - 1 \in 1 .. Len(g[b].insts)
        BY <3>1, <3>3, <1>6
      <4>2. e[b][l - 1] \in Nat /\ e[b][l - 1] # k
        BY <1>6, <1>8, <4>1 DEF Dropped
      <4> QED BY SMTT(30), <1>3, <3>1, <3>3, <4>2
    <3> QED BY <3>1, <3>2, <3>3 DEF NextKept
  <2>6. Fits(f, E, c, in[<<b, l>>])
    BY <2>5 DEF Sound
  <2> HIDE DEF i0
  <2>7. \A n \in DOMAIN d.m.reg \ E : n \in DOMAIN c.m.reg \ E /\ d.m.reg[n] = c.m.reg[n]
    BY <2>1, <2>4 DEF Assign
  <2>8. \A p \in d.own : p \in c.own /\ d.m.mem[p] = c.m.mem[p]
    BY <1>3, <2>3, <2>4 DEF Overlay
  <2>9. d.m.old = c.m.old
    BY <1>5, <2>2 DEF i0
  <2> QED BY <2>4, <2>6, <2>7, <2>8, <2>9 DEF Fits
<1>9. CASE ~Dropped(g, e, b, k)
  <2>1. PICK l0 \in 1 .. Len(g[b].insts) : e[b][l0] = k
    BY <1>9 DEF Dropped
  <2> DEFINE i == g[b].insts[l0]
             s == in[<<b, l0>>]
  <2>5. AtKept(f, E, b, k, c, s, i)
    BY <1>2, <2>1, SoundKept
  <2>3. Fits(f, E, c, s)
    BY Zenon, <2>5 DEF AtKept
  <2>4. /\ IsInformed(s) /\ Suits(f, s) /\ ~CP!FlowAborts(i, s)
        /\ l0 < Len(g[b].insts) => in[<<b, l0 + 1>>] = CP!FlowState(i, s)
    BY Zenon, <1>6 DEF IsSolution
  <2>6. i.op = i0.op
    BY <2>5, KeptFacts
  <2>7. CASE i0.op = "br"
    <3> DEFINE t == TargetOf(i0, c.m)
    <3>1. t \in 1 .. Len(f) /\ t # 1 /\ b \in f[t].preds
      BY <2>7, TargetFacts
    <3>2. /\ d.m.blk = t /\ d.m.idx = 1
          /\ d.m.reg = c.m.reg /\ d.m.old = c.m.reg /\ d.m.mem = c.m.mem
          /\ d.own \subseteq c.own
      BY <1>4, <1>5, <2>7
    <3>3. k = Len(f[b].insts)
      BY <1>3, <2>7 DEF IsVerified
    <3>4. l0 = Len(g[b].insts)
      BY <1>6, <2>1, <3>3
    <3> HIDE DEF t
    <3>5. t \in 1 .. Len(g) /\ g[t].preds = f[t].preds /\ \A j \in 1 .. Len(g[t].insts) : e[t][j] \in 1 .. Len(f[t].insts)
      BY <3>1, LastKept
    <3>6. l = 1
      <4>1. l \in 1 .. Len(g[t].insts) /\ (l = 1 \/ e[t][l - 1] < 1)
        BY <3>2 DEF NextKept
      <4>2. l # 1 => l - 1 \in 1 .. Len(g[t].insts)
        BY <4>1
      <4> QED BY <3>5, <4>1, <4>2
    <3>7. CP!FlowState(i, s) = s
      BY <2>6, <2>7 DEF CP!FlowState
    <3>8. CP!StateLeq(s, in[<<t, 1>>])
      <4>1. CP!StateLeq(CP!FlowState(g[b].insts[Len(g[b].insts)], in[<<b, Len(g[b].insts)>>]), in[<<t, 1>>])
        BY <3>1, <3>5 DEF IsSolution
      <4> QED BY <3>4, <3>7, <4>1
    <3>9. IsInformed(in[<<t, 1>>])
      <4>1. 1 \in 1 .. Len(g[t].insts)
        BY <3>2, <3>6 DEF NextKept
      <4> QED BY <3>5, <4>1 DEF IsSolution
    <3> HIDE DEF s
    <3>10. Fits(f, E, c, in[<<t, 1>>])
      BY <2>3, <2>4, <3>8, <3>9, FitsAbove
    <3> QED BY <3>2, <3>6, <3>10 DEF Fits
  <2>8. CASE i0.op # "br"
    <3>1. d.m.blk = b /\ d.m.idx = k + 1
      BY <1>5, <2>8
    <3>2. l \in 1 .. Len(g[b].insts) /\ k + 1 <= e[b][l] /\ (l = 1 \/ e[b][l - 1] < k + 1)
      BY <3>1 DEF NextKept
    <3>3. l0 < l
      <4>1. e[b][l0] < e[b][l]
        BY SMTT(30), <1>3, <1>6, <2>1, <3>2
      <4>2. ~(l < l0) /\ l # l0
        BY SMTT(30), <1>6, <1>7, <2>1, <3>2, <4>1
      <4> QED BY SMTT(30), <1>6, <3>2, <4>2
    <3>4. ~(l0 < l - 1)
      <4> SUFFICES ASSUME l0 < l - 1 PROVE FALSE
        OBVIOUS
      <4>1. l - 1 \in 1 .. Len(g[b].insts) /\ l # 1
        BY <1>6, <3>2
      <4>2. e[b][l0] < e[b][l - 1]
        BY <1>7, <4>1
      <4>3. e[b][l - 1] \in Nat /\ e[b][l - 1] < k + 1
        BY <1>6, <3>2, <4>1
      <4> QED BY <1>3, <2>1, <4>2, <4>3
    <3>5. l = l0 + 1 /\ l0 < Len(g[b].insts)
      BY <1>6, <3>2, <3>3, <3>4
    <3>6. in[<<b, l>>] = CP!FlowState(i, s)
      BY <2>4, <3>5
    <3>7. i.op \notin {"br", "ret"} /\ (i.op # "call" => effect = EmptyState)
      BY <1>1, <1>2, <2>6, <2>8
    <3> HIDE DEF i, s
    <3>8. Fits(f, E, StepOf(f, c, input, effect), CP!FlowState(i, s))
      BY <2>5, <3>7, FitsStep
    <3> QED BY <1>1, <3>1, <3>6, <3>8
  <2> QED BY <2>7, <2>8
<1> QED BY <1>8, <1>9

(* At the start nothing is known.                                          *)
LEMMA SoundStart ==
  ASSUME NEW f, NEW g, NEW e, NEW E, NEW in, NEW c \in Starts(f)
  PROVE  Sound(f, g, e, E, in, c)
<1>1. DOMAIN c.m.reg = {} /\ DOMAIN c.m.old = {} /\ c.own = {}
  BY DEF Starts, StartMachine, EmptyMap
<1> QED BY <1>1 DEF Sound, Fits, Born

(* The solutions of the equations are right wherever f gets to without     *)
(* doing anything that ai_cp misjudges: the soundness of constant          *)
(* propagation.                                                            *)
LEMMA ReachedSound ==
  ASSUME NEW f, IsFunction(f), IsVerified(f), NEW g, IsFunction(g), NEW e, NEW E, Agree(f, g, e, E),
         NEW in, IsSolution(f, g, in), NEW c, Reached(f, c)
  PROVE  Sound(f, g, e, E, in, c)
<1> DEFINE U == {n \in Nat : \A r : RunsTo(f, r, n) => Sound(f, g, e, E, in, r[n])}
<1>1. 0 \in U
  BY SoundStart DEF RunsTo
<1>2. ASSUME NEW n \in Nat, n \in U PROVE n + 1 \in U
  <2> SUFFICES ASSUME NEW r, RunsTo(f, r, n + 1) PROVE Sound(f, g, e, E, in, r[n + 1])
    OBVIOUS
  <2>1. RunsTo(f, r, n) /\ n \in 0 .. (n + 1) - 1
    BY DEF RunsTo
  <2>2. Sound(f, g, e, E, in, r[n]) /\ Steps(f, r[n], r[n + 1])
    BY <1>2, <2>1 DEF RunsTo
  <2>3. Reached(f, r[n])
    BY <2>1 DEF Reached
  <2>4. Good(f, r[n])
    BY <2>3, ReachedGood
  <2> QED BY <2>2, <2>3, <2>4, SoundStep
<1>3. Nat \subseteq U
  <2> HIDE DEF U
  <2> QED BY <1>1, <1>2, NaturalInduction
<1> QED BY <1>3 DEF Reached

-----------------------------------------------------------------------------
(* What postprocess() of ai_cp leaves agrees with the function it was given. *)

\* y is operand x of an instruction of which op is the opcode, the jth, or what
\* postprocess() puts in place of it.
MayBecome(op, j, x, s, y) ==
  \/ y = x
  \/ /\ y = CP!Replaced(x, s)
     /\ op \notin {"load", "store", "phi", "alloca"}
     /\ op \in {"br", "sext"} => j = 1

(* postprocess() of ai_cp replaces operands by what they MayBecome, and    *)
(* changes nothing else of an instruction.                                 *)
LEMMA RewrittenFacts ==
  ASSUME NEW i \in Instructions, NEW s, NEW r, r = CP!Rewritten(i, s)
  PROVE  /\ r.op = i.op /\ r.name = i.name /\ r.from = i.from /\ Len(r.args) = Len(i.args)
         /\ \A j \in 1 .. Len(i.args) : MayBecome(i.op, j, i.args[j], s, r.args[j])
<1> DEFINE R(k) == CP!Replaced(i.args[k], s)
           n == Len(i.args)
           one == [i.args EXCEPT ![1] = R(1)]
           all == [k \in DOMAIN i.args |-> R(k)]
<1>1. n \in Nat /\ DOMAIN i.args = 1 .. n /\ i.args \in [1 .. n -> Operand]
  BY InstructionFacts
<1>0. i \in [op : Opcodes, name : Names, args : Seq(Operand), from : Seq(Nat)]
  BY InstructionFacts
<1>2. CASE i.op \in {"load", "store", "phi", "alloca"}
  <2>1. r = i
    BY <1>2 DEF CP!Rewritten
  <2> QED BY <2>1 DEF MayBecome
<1>3. CASE i.op \in {"br", "sext"}
  <2>1. r = [i EXCEPT !.args = one]
    BY <1>3 DEF CP!Rewritten
  <2>2. DOMAIN one = 1 .. n /\ \A k \in 1 .. n : one[k] = IF k = 1 THEN R(1) ELSE i.args[k]
    <3> HIDE DEF R, n
    <3> QED BY <1>1
  <2> HIDE DEF one, R
  <2>3. r.op = i.op /\ r.name = i.name /\ r.from = i.from /\ r.args = one
    BY <1>0, <2>1
  <2>4. Len(one) = n
    <3> DEFINE S == {one[k] : k \in 1 .. n}
    <3>1. one = [k \in 1 .. n |-> one[k]]
      BY <1>1 DEF one
    <3> HIDE DEF n
    <3>2. one \in [1 .. n -> S]
      BY <2>2, <3>1
    <3> HIDE DEF S
    <3>3. one \in Seq(S) /\ Len(one) = n
      BY <1>1, <3>2
    <3> QED BY <3>3
  <2>5. ASSUME NEW j \in 1 .. n PROVE MayBecome(i.op, j, i.args[j], s, r.args[j])
    BY <1>3, <2>2, <2>3 DEF MayBecome, R
  <2> QED BY <2>3, <2>4, <2>5
<1>4. CASE i.op \notin {"load", "store", "phi", "alloca", "br", "sext"}
  <2>1. r = [i EXCEPT !.args = all]
    BY <1>4 DEF CP!Rewritten
  <2>2. DOMAIN all = 1 .. n /\ \A k \in 1 .. n : all[k] = R(k)
    <3> HIDE DEF R, n
    <3> QED BY <1>1
  <2>3. Len(all) = n
    <3> DEFINE S == {R(k) : k \in 1 .. n}
    <3> HIDE DEF n, R
    <3>2. all \in [1 .. n -> S]
      BY <1>1
    <3> HIDE DEF S, all
    <3>3. all \in Seq(S) /\ Len(all) = n
      BY <1>1, <3>2
    <3> QED BY <3>3
  <2> HIDE DEF all, R
  <2>4. r.op = i.op /\ r.name = i.name /\ r.from = i.from /\ r.args = all
    BY <1>0, <2>1
  <2>5. ASSUME NEW j \in 1 .. n PROVE MayBecome(i.op, j, i.args[j], s, r.args[j])
    BY <1>4, <2>2, <2>4 DEF MayBecome, R
  <2> QED BY <2>3, <2>4, <2>5
<1> QED BY <1>2, <1>3, <1>4

(* Every block keeps its predecessors and the number of its instructions.  *)
LEMMA PropagatedBlocks ==
  ASSUME NEW g, IsFunction(g), NEW out, NEW in, NEW h, h = CP!Postprocess(g, out, in)
  PROVE  /\ Len(h) = Len(g)
         /\ \A b \in 1 .. Len(g) :
              /\ h[b].preds = g[b].preds /\ Len(h[b].insts) = Len(g[b].insts)
              /\ \A l \in 1 .. Len(g[b].insts) :
                   h[b].insts[l] = CP!Rewritten(g[b].insts[l], in[<<b, l>>])
<1> DEFINE New(b) == [k \in DOMAIN g[b].insts |-> CP!Rewritten(g[b].insts[k], in[<<b, k>>])]
           n == Len(g)
           S == {h[b] : b \in 1 .. n}
<1>1. h = [b \in DOMAIN g |-> [g[b] EXCEPT !.insts = New(b)]]
  BY DEF CP!Postprocess
<1>2. n \in Nat /\ DOMAIN g = 1 .. n
  BY FunctionFacts
<1>3. h \in [1 .. n -> S]
  <2> HIDE DEF New
  <2> QED BY <1>1, <1>2
<1>4. Len(h) = n
  <2> HIDE DEF S, n
  <2>1. h \in Seq(S) /\ Len(h) = n
    BY <1>2, <1>3
  <2> QED BY <2>1
<1>5. ASSUME NEW b \in 1 .. n
      PROVE  /\ h[b].preds = g[b].preds /\ Len(h[b].insts) = Len(g[b].insts)
             /\ \A l \in 1 .. Len(g[b].insts) :
                  h[b].insts[l] = CP!Rewritten(g[b].insts[l], in[<<b, l>>])
  <2> DEFINE m == Len(g[b].insts)
             T == {New(b)[k] : k \in 1 .. m}
  <2>1. /\ g[b] \in [insts : Seq(Instructions), preds : SUBSET (1 .. Len(g))]
        /\ m \in Nat /\ DOMAIN g[b].insts = 1 .. m
    BY FunctionFacts
  <2>2. h[b] = [g[b] EXCEPT !.insts = New(b)]
    <3> HIDE DEF New
    <3> QED BY <1>1, <1>2
  <2>3. h[b].insts = New(b) /\ h[b].preds = g[b].preds
    <3> HIDE DEF New
    <3> QED BY <2>1, <2>2
  <2>4. Len(New(b)) = m
    <3>1. New(b) \in [1 .. m -> T]
      BY <2>1
    <3> HIDE DEF T, m, New
    <3>2. New(b) \in Seq(T) /\ Len(New(b)) = m
      BY <2>1, <3>1
    <3> QED BY <3>2
  <2>5. \A l \in 1 .. m : New(b)[l] = CP!Rewritten(g[b].insts[l], in[<<b, l>>])
    <3> HIDE DEF m
    <3> QED BY <2>1
  <2> QED BY <2>3, <2>4, <2>5
<1> QED BY <1>4, <1>5

(* Constants have no name.                                                 *)
LEMMA ConstFacts == \A z : Const(z).kind = "const" /\ Const(z).name = Unnamed /\ Const(z).value = z
BY DEF Const

(* An element of this type is that of an int.                              *)
LEMMA SingleKnown ==
  ASSUME NEW z \in Informed, z.type = "SingleValue"
  PROVE  \E w \in Value : z = SingleValue(w)
BY DEF Informed, Elem, Signs, Singles, Any, Negative, Zero, Positive

(* What ai_cp puts in place of an operand is a constant.                   *)
LEMMA ReplacedFacts ==
  ASSUME NEW x, NEW s, IsInformed(s), NEW y, y = CP!Replaced(x, s), y # x
  PROVE  /\ x.name \in DOMAIN s
         /\ \E w \in Value : s[x.name] = SingleValue(w) /\ y = Const(w) /\ s[x.name] # Any
<1>1. x.name \in DOMAIN s /\ s[x.name].type = "SingleValue" /\ y = CP!Const(s[x.name].value)
  BY DEF CP!Replaced
<1> DEFINE z == s[x.name]
<1>2. z \in Informed
  BY <1>1 DEF IsInformed
<1>3. PICK w \in Value : z = SingleValue(w)
  <2>1. z.type = "SingleValue"
    BY <1>1
  <2> HIDE DEF z
  <2> QED BY <1>2, <2>1, SingleKnown
<1>4. CP!Unnamed = Unnamed
  BY Zenon DEF CP!Unnamed, Unnamed
<1>5. z.value = w /\ z # Any
  BY <1>3 DEF SingleValue, Any
<1>6. CP!Const(w) = Const(w)
  BY <1>4, Zenon DEF CP!Const, Const
<1> HIDE DEF z
<1> QED BY <1>1, <1>3, <1>5, <1>6 DEF z

(* A constant that postprocess() puts in place of an operand is the value  *)
(* the function reads there, if not in place of the name of a function.    *)
ReplacesAgain(f, g, e, in, b, l, j) ==
  LET i == g[b].insts[l]
      y == CP!Replaced(i.args[j], in[<<b, l>>])
  IN  /\ i.op \notin {"load", "store", "phi", "alloca"}
      /\ i.op \in {"br", "sext"} => j = 1
      => y = i.args[j] \/ Replaces(f, b, e[b][l], j, y)

(* An operand that is replaced twice is replaced by one that Replaces the  *)
(* first.                                                                  *)
LEMMA ReplacedAgrees ==
  ASSUME NEW f, IsFunction(f), IsVerified(f), NEW g, IsFunction(g), NEW e, NEW E, Agree(f, g, e, E),
         NEW in, IsSolution(f, g, in),
         NEW b \in 1 .. Len(f), NEW l \in 1 .. Len(g[b].insts), NEW j \in 1 .. Len(g[b].insts[l].args)
  PROVE  ReplacesAgain(f, g, e, in, b, l, j)
<1> DEFINE i == g[b].insts[l]
           k == e[b][l]
           i0 == f[b].insts[k]
           x == i.args[j]
           s == in[<<b, l>>]
           y == CP!Replaced(x, s)
<1>0. SUFFICES ASSUME y # x, i.op \notin {"load", "store", "phi", "alloca"},
                      i.op \in {"br", "sext"} => j = 1
               PROVE  Replaces(f, b, k, j, y)
  BY Zenon DEF ReplacesAgain
<1>1. /\ IsInformed(s) /\ Suits(f, s) /\ ~CP!FlowAborts(i, s)
  <2>1. b \in 1 .. Len(g)
    BY DEF Agree
  <2> QED BY <2>1 DEF IsSolution
<1>2. /\ Matches(f, b, k, i) /\ k \in 1 .. Len(f[b].insts)
      /\ \A h \in 1 .. Len(i.args) : i.args[h].kind = "register" => i.args[h].name \notin E
  BY DEF Agree
<1>9. /\ i0 \in Instructions /\ i0 \in Insts(f) /\ i \in Instructions /\ k \in Nat
  BY <1>2, PlaceFacts, LastKept
<1>k. NextKept(g, e, b, k, l)
  <2>1. \A h \in 1 .. Len(g[b].insts) : h < l => e[b][h] < k
    BY DEF Agree
  <2>2. l # 1 => l - 1 \in 1 .. Len(g[b].insts) /\ l - 1 < l
    BY SMTT(30)
  <2> QED BY <1>9, <2>1, <2>2 DEF NextKept
<1>v. /\ i0.op = "br" => \/ Len(i0.args) = 1 /\ IsLabel(f, b, i0.args[1])
                         \/ Len(i0.args) = 3 /\ IsValue(i0.args[1])
      /\ i0.op = "call" => /\ i0.args[Len(i0.args)].kind = "function"
                           /\ i0.args[Len(i0.args)].name \notin GlobalsOf(f)
                           /\ \A h \in 1 .. Len(i0.args) - 1 : IsValue(i0.args[h])
      /\ i0.op = "sext" => IsValue(i0.args[1])
      /\ i0.op \notin {"load", "store", "br", "call", "sext"} =>
             \A h \in 1 .. Len(i0.args) : IsValue(i0.args[h])
  BY ZenonT(30), <1>2, VerifiedFacts
<1>j. j \in 1 .. Len(i.args)
  OBVIOUS
<1>4. /\ x.name \in DOMAIN s
      /\ \E w \in Value : s[x.name] = SingleValue(w) /\ y = Const(w) /\ s[x.name] # Any
  BY <1>0, <1>1, ReplacedFacts, Zenon
<1> HIDE DEF i, k, i0, s, y
<1>5. PICK w \in Value : s[x.name] = SingleValue(w) /\ y = Const(w) /\ s[x.name] # Any
  BY <1>4
<1>6. y = Const(w) /\ s[x.name] # Any
  BY <1>5
<1>3. i.op = i0.op /\ Len(i.args) = Len(i0.args) /\ (x = i0.args[j] \/ Replaces(f, b, k, j, x))
  BY <1>2, <1>j DEF Matches, i0
<1>x. x.kind = "register" => x.name \notin E
  BY <1>2, <1>j
<1>o. i0.op \notin {"load", "store", "phi", "alloca"} /\ (i0.op \in {"br", "sext"} => j = 1)
  BY <1>0, <1>3
<1>h. j \in 1 .. Len(i0.args)
  BY <1>3, <1>j
<1> HIDE DEF x
<1>7. x.name # Unnamed /\ (x.name \in Stored(f) \/ \E o \in Insts(f) : o.op # "call" /\ o.name = x.name)
  BY <1>1, <1>4, <1>6 DEF Suits
<1>8. x = i0.args[j]
  <2> SUFFICES ASSUME Replaces(f, b, k, j, x) PROVE FALSE
    BY <1>3
  <2>1. PICK z \in Value : x = Const(z)
    BY DEF Replaces
  <2>2. x.name = Unnamed
    BY <2>1, ConstFacts
  <2> QED BY <1>7, <2>2
<1>10. CASE IsValue(x)
  <2>a. x.kind # "argument"
    <3>1. x \in Operands(i0)
      BY <1>8, <1>9, <1>h, InstructionFacts DEF Operands
    <3> QED BY Zenon, <1>1, <1>4, <1>6, <1>9, <3>1, ArgumentUnknown
  <2>1. x.kind = "register" /\ x = Reg(x.name)
    BY <1>7, <1>10, <2>a DEF IsValue, Reg, Arg
  <2>2. ASSUME NEW c, ReachedAt(f, b, k, c)
        PROVE  Stands(i0, j, y.value, ValueOf(x, c.m))
    <3>1. Reached(f, c) /\ Good(f, c) /\ c.m.blk = b /\ c.m.idx = k
      BY <2>2, ReachedGood DEF ReachedAt
    <3>2. Sound(f, g, e, E, in, c)
      BY <3>1, ReachedSound
    <3>4. Fits(f, E, c, s)
      BY <3>1, <3>2, <1>k DEF Sound, s
    <3>5. i0.op # "phi" /\ j \in 1 .. Len(i0.args)
      BY <1>o, <1>h
    <3>6. \A h \in 1 .. Len(i0.args) : i0.args[h] \in Reads(i0, c.m)
      BY <1>9, <3>5, AllRead, Zenon
    <3>7. Tell(i0, j, CP!ElementOf(x, s), Reading(i0, c.m))
      BY <1>1, <1>8, <1>9, <1>10, <1>x, <2>2, <3>1, <3>4, <3>5, <3>6, OperandTold DEF i0
    <3>8. Tell(i0, j, CP!ElementOf(x, s), c.m)
      BY <3>5, <3>7 DEF Reading
    <3>9. CP!ElementOf(x, s) = SingleValue(w)
      BY <1>4, <1>5, <2>1 DEF CP!ElementOf
    <3>10. PICK z \in Value : Stands(i0, j, z, ValueOf(x, c.m)) /\ Describes(SingleValue(w), z)
      BY <1>8, <3>8, <3>9 DEF Tell
    <3>11. z = w
      <4>1. z \in Int
        BY IntRangeAssumption DEF Value
      <4> QED BY <3>10, <4>1, DescribesFacts
    <3> QED BY <1>6, <3>10, <3>11 DEF Const
  <2> QED BY <1>6, <1>8, <1>o, <2>1, <2>2 DEF Replaces, i0
<1>11. CASE ~IsValue(x)
  <2>2. Len(i0.args) \in Nat
    BY <1>9, InstructionFacts
  <2>3. i0.op # "sext"
    BY <1>8, <1>11, <1>o, <1>v
  <2>4. i0.op # "br"
    <3> SUFFICES ASSUME i0.op = "br" PROVE FALSE
      OBVIOUS
    <3>1. IsLabel(f, b, x)
      BY <1>8, <1>11, <1>o, <1>v
    <3>2. x.name \notin Registers(f) \cup GlobalsOf(f)
      BY <3>1 DEF IsLabel
    <3> QED BY <1>7, <3>2, StoredNames DEF Registers
  <2>5. i0.op = "call"
    BY <1>8, <1>11, <1>o, <1>h, <1>v, <2>3, <2>4
  <2>6. x.kind = "function" /\ x.name \notin GlobalsOf(f)
    <3>1. j = Len(i0.args) \/ j \in 1 .. Len(i0.args) - 1
      BY <1>h, <2>2
    <3> QED BY <1>8, <1>11, <1>v, <2>5, <3>1
  <2>7. \E o \in Insts(f) : o.op # "call" /\ o.name = x.name
    <3>1. CASE x.name \in Stored(f)
      <4>1. PICK a \in Insts(f) : a.op = "store" /\ a.args[2].name = x.name
        BY <3>1 DEF Stored
      <4>2. PICK p \in 1 .. Len(f) : \E q \in 1 .. Len(f[p].insts) : a = f[p].insts[q]
        BY PlacesOfInsts
      <4>3. PICK q \in 1 .. Len(f[p].insts) : a = f[p].insts[q]
        BY SMTT(30), <4>2
      <4>4. IsPointer(f, a.args[2]) /\ a \in Instructions
        BY Zenon, <4>1, <4>3, VerifiedFacts, PlaceFacts
      <4>5. a.args[2] \in Operands(a)
        <5>1. Len(a.args) = 2 /\ DOMAIN a.args = 1 .. Len(a.args)
          BY <4>1, <4>4, InstructionFacts
        <5> QED BY <5>1 DEF Operands
      <4>6. a.args[2] # Global(x.name)
        BY <2>6, <4>1, <4>5 DEF GlobalsOf, Global
      <4> QED BY <4>1, <4>4, <4>6 DEF IsPointer
    <3> QED BY <1>7, <3>1
  <2> QED BY <1>6, <1>8, <1>o, <2>6, <2>7 DEF Replaces, i0
<1> QED BY <1>10, <1>11

(* What postprocess() of ai_cp makes of a function that agrees with f,     *)
(* from a solution of the equations, agrees with f.                        *)
LEMMA PropagatedAgrees ==
  ASSUME NEW f, IsFunction(f), IsVerified(f), NEW g, IsFunction(g), NEW e, NEW E, Agree(f, g, e, E),
         NEW in, IsSolution(f, g, in), NEW out, NEW h, h = CP!Postprocess(g, out, in)
  PROVE  Agree(f, h, e, E)
<1>1. /\ Len(h) = Len(g)
      /\ \A b \in 1 .. Len(g) :
           /\ h[b].preds = g[b].preds /\ Len(h[b].insts) = Len(g[b].insts)
           /\ \A l \in 1 .. Len(g[b].insts) :
                h[b].insts[l] = CP!Rewritten(g[b].insts[l], in[<<b, l>>])
  BY PropagatedBlocks
<1>2. Len(g) = Len(f)
  BY DEF Agree
<1>3. ASSUME NEW b \in 1 .. Len(f), NEW l \in 1 .. Len(g[b].insts)
      PROVE  /\ Matches(f, b, e[b][l], h[b].insts[l])
             /\ \A j \in 1 .. Len(h[b].insts[l].args) :
                  h[b].insts[l].args[j].kind = "register" => h[b].insts[l].args[j].name \notin E
  <2> DEFINE i == g[b].insts[l]
             r == h[b].insts[l]
             s == in[<<b, l>>]
             k == e[b][l]
  <2>1. i \in Instructions /\ r = CP!Rewritten(i, s)
    BY <1>1, <1>2, LastKept
  <2>2. /\ r.op = i.op /\ r.name = i.name /\ r.from = i.from /\ Len(r.args) = Len(i.args)
        /\ \A j \in 1 .. Len(i.args) : MayBecome(i.op, j, i.args[j], s, r.args[j])
    BY <2>1, RewrittenFacts
  <2>3. /\ Matches(f, b, k, i)
        /\ \A j \in 1 .. Len(i.args) : i.args[j].kind = "register" => i.args[j].name \notin E
    BY DEF Agree
  <2>4. ASSUME NEW j \in 1 .. Len(i.args)
        PROVE  r.args[j] = i.args[j] \/ Replaces(f, b, k, j, r.args[j])
    <3>1. ReplacesAgain(f, g, e, in, b, l, j)
      BY ReplacedAgrees, Zenon
    <3> QED BY <2>2, <3>1 DEF MayBecome, ReplacesAgain
  <2>5. ASSUME NEW j \in 1 .. Len(i.args)
        PROVE  r.args[j].kind = "register" => r.args[j].name \notin E
    <3>1. CASE r.args[j] = i.args[j]
      BY <2>3, <3>1
    <3>2. CASE Replaces(f, b, k, j, r.args[j])
      <4>1. PICK z \in Value : r.args[j] = Const(z)
        BY <3>2, Zenon DEF Replaces
      <4>2. r.args[j].kind = "const"
        BY <4>1, ConstFacts
      <4> QED BY <4>2
    <3> QED BY <2>4, <3>1, <3>2
  <2> HIDE DEF i, r, s, k
  <2>6. Matches(f, b, k, r)
    BY <2>2, <2>3, <2>4 DEF Matches
  <2> QED BY <2>2, <2>5, <2>6 DEF r, k
<1>4. \A b \in 1 .. Len(f) : \A k : Dropped(h, e, b, k) <=> Dropped(g, e, b, k)
  BY <1>1, <1>2 DEF Dropped
<1> QED BY ZenonT(30), <1>1, <1>2, <1>3, <1>4 DEF Agree

-----------------------------------------------------------------------------
(* What the passes hand on are functions again, and no assertion about      *)
(* Bottom or Top fails.                                                    *)

\* Every function the passes may be given.
AllFunctions ==
  {f \in Seq([insts : Seq(Instructions) \ {<<>>}, preds : SUBSET Nat]) : IsFunction(f)}

\* What is proved of ai_dce, for all of them.
AllDCE == INSTANCE DeadCodeEliminationTheorems WITH Functions <- AllFunctions

(* A function whose blocks have got other instructions.                    *)
LEMMA RewrittenFunction ==
  ASSUME NEW f, IsFunction(f),
         NEW g \in [1 .. Len(f) -> [insts : Seq(Instructions), preds : SUBSET (1 .. Len(f))]]
  PROVE  IsFunction(g)
<1> DEFINE n == Len(f)
           Block == [insts : Seq(Instructions), preds : SUBSET (1 .. n)]
<1>1. n \in Nat \ {0} /\ g \in [1 .. n -> Block]
  BY FunctionFacts
<1>2. g \in Seq(Block) /\ Len(g) = n /\ g # <<>>
  <2> HIDE DEF Block, n
  <2> QED BY <1>1
<1> QED BY <1>2 DEF IsFunction

(* An instruction with other operands, as many as before.                  *)
LEMMA OtherOperands ==
  ASSUME NEW i \in Instructions, NEW xs \in Seq(Operand), Len(xs) = Len(i.args),
         \A k \in 1 .. Len(xs) : xs[k].kind = "const" => xs[k].value \in Value
  PROVE  [i EXCEPT !.args = xs] \in Instructions
<1> DEFINE j == [i EXCEPT !.args = xs]
           Shape == [op : Opcodes, name : Names, args : Seq(Operand), from : Seq(Nat)]
<1>a. DOMAIN xs = 1 .. Len(xs)
  OBVIOUS
<1>b. Len(xs) > 0 => xs # <<>>
  OBVIOUS
<1>1. i \in Shape
  BY InstructionFacts
<1>2. j \in Shape /\ j.op = i.op /\ j.args = xs
  BY <1>1
<1> HIDE DEF j
<1>3. \A x \in Operands(j) : x.kind = "const" => x.value \in Value
  <2>1. j.args = xs
    BY <1>2
  <2> QED BY <1>a, <2>1 DEF Operands
<1>4. j.op = "phi" => j.args # <<>>
  <2>1. j.op = "phi" => Len(xs) > 0
    BY <1>2, InstructionFacts
  <2>2. j.args = xs
    BY <1>2
  <2> QED BY <1>b, <2>1, <2>2
<1>5. /\ j.op \in {"load", "sext", "alloca"} => Len(j.args) = 1
      /\ j.op \in BinaryOps \cup ICmps \cup {"store"} => Len(j.args) = 2
  BY <1>2, InstructionFacts
<1> QED BY <1>2, <1>3, <1>4, <1>5 DEF Instructions, j

(* Operands are replaced by constants that are ints.                       *)
LEMMA ReplacedStays ==
  ASSUME NEW x \in Operand, x.kind = "const" => x.value \in Value, NEW state, IsInformed(state)
  PROVE  LET y == CP!Replaced(x, state) IN
         y \in Operand /\ (y.kind = "const" => y.value \in Value)
<1>1. CASE x.name \in DOMAIN state /\ state[x.name].type = "SingleValue"
  <2>1. PICK v \in Value : state[x.name] = SingleValue(v)
    BY <1>1 DEF IsInformed, Informed, Elem, Signs, Singles, Any, Negative, Zero, Positive
  <2>2. CP!Replaced(x, state) = [kind |-> "const", name |-> CP!Unnamed, value |-> v]
    BY <1>1, <2>1 DEF CP!Replaced, CP!Const, SingleValue
  <2>3. CP!Unnamed \in Names
    <3>1. CP!Unnamed = Unnamed
      BY Zenon DEF CP!Unnamed, Unnamed
    <3> QED BY <3>1 DEF Names
  <2>4. v \in Int
    BY IntRangeAssumption DEF Value
  <2> QED BY <2>2, <2>3, <2>4 DEF Operand
<1>2. CASE ~ (x.name \in DOMAIN state /\ state[x.name].type = "SingleValue")
  BY <1>2 DEF CP!Replaced
<1> QED BY <1>1, <1>2

LEMMA RewrittenStays ==
  ASSUME NEW i \in Instructions, NEW state, IsInformed(state)
  PROVE  CP!Rewritten(i, state) \in Instructions
<1> DEFINE R(k) == CP!Replaced(i.args[k], state)
           n == Len(i.args)
<1>1. /\ n \in Nat /\ DOMAIN i.args = 1 .. n /\ i.args \in [1 .. n -> Operand]
      /\ \A k \in 1 .. n : i.args[k] \in Operand /\ (i.args[k].kind = "const" => i.args[k].value \in Value)
  BY InstructionFacts
<1>2. \A k \in 1 .. n : R(k) \in Operand /\ (R(k).kind = "const" => R(k).value \in Value)
  BY <1>1, ReplacedStays
<1> DEFINE one == [i.args EXCEPT ![1] = R(1)]
           all == [k \in DOMAIN i.args |-> R(k)]
<1>3. /\ one \in [1 .. n -> Operand]
      /\ \A k \in 1 .. n : one[k] = IF k = 1 THEN R(1) ELSE i.args[k]
  <2> HIDE DEF R, n
  <2> QED BY <1>1, <1>2
<1>4. all \in [1 .. n -> Operand] /\ \A k \in 1 .. n : all[k] = R(k)
  <2> HIDE DEF R, n
  <2> QED BY <1>1, <1>2
<1>5. CP!Rewritten(i, state) \in {i, [i EXCEPT !.args = one], [i EXCEPT !.args = all]}
  BY DEF CP!Rewritten
<1> HIDE DEF one, all, R
<1>6. one \in Seq(Operand) /\ Len(one) = n /\ all \in Seq(Operand) /\ Len(all) = n
  <2> HIDE DEF n
  <2> QED BY <1>1, <1>3, <1>4
<1>7. [i EXCEPT !.args = one] \in Instructions
  BY <1>1, <1>2, <1>3, <1>6, OtherOperands
<1>8. [i EXCEPT !.args = all] \in Instructions
  BY <1>2, <1>4, <1>6, OtherOperands
<1> QED BY <1>5, <1>7, <1>8

(* postprocess() of ai_cp, which looks at the states before the            *)
(* instructions.                                                           *)
LEMMA RewriteStays ==
  ASSUME NEW f, IsFunction(f), NEW out, NEW in,
         \A p \in CP!Points(f) : IsInformed(in[p])
  PROVE  IsFunction(CP!Postprocess(f, out, in))
<1> DEFINE Block == [insts : Seq(Instructions), preds : SUBSET (1 .. Len(f))]
           New(b) == [k \in DOMAIN f[b].insts |-> CP!Rewritten(f[b].insts[k], in[<<b, k>>])]
<1>1. ASSUME NEW b \in 1 .. Len(f)
      PROVE  New(b) \in Seq(Instructions)
  <2> DEFINE n == Len(f[b].insts)
  <2>1. n \in Nat /\ DOMAIN f[b].insts = 1 .. n
    BY FunctionFacts
  <2>2. ASSUME NEW k \in 1 .. n
        PROVE  CP!Rewritten(f[b].insts[k], in[<<b, k>>]) \in Instructions
    <3>1. <<b, k>> \in CP!Points(f)
      BY DEF CP!Points, CP!Blocks
    <3> QED BY <3>1, FunctionFacts, RewrittenStays
  <2>3. New(b) \in [1 .. n -> Instructions]
    <3> HIDE DEF n
    <3> QED BY <2>1, <2>2
  <2> HIDE DEF n, New
  <2> QED BY <2>1, <2>3
<1>2. CP!Postprocess(f, out, in) = [b \in DOMAIN f |-> [f[b] EXCEPT !.insts = New(b)]]
  BY DEF CP!Postprocess
<1> HIDE DEF New
<1>3. ASSUME NEW b \in 1 .. Len(f)
      PROVE  [f[b] EXCEPT !.insts = New(b)] \in Block
  <2>1. f[b] \in Block
    BY FunctionFacts
  <2>2. New(b) \in Seq(Instructions)
    BY <1>1
  <2> QED BY <2>1, <2>2
<1>4. CP!Postprocess(f, out, in) \in [1 .. Len(f) -> Block]
  <2> HIDE DEF Block
  <2> QED BY <1>2, <1>3, FunctionFacts
<1> QED BY <1>4, RewrittenFunction

(* And that of ai_dce, which leaves some of them.                          *)
LEMMA EraseStays ==
  ASSUME NEW f, IsFunction(f), NEW out, NEW in
  PROVE  IsFunction(DCE!Postprocess(f, out, in))
<1> DEFINE Block == [insts : Seq(Instructions), preds : SUBSET (1 .. Len(f))]
           New(b) == DCE!Remaining(f[b].insts, out)
<1>1. ASSUME NEW s \in Seq(Instructions)
      PROVE  DCE!Remaining(s, out) \in Seq(Instructions)
  <2>1. DCE!Remaining(s, out) = AllDCE!Remaining(s, out)
    <3>1. \A i : DCE!Erased(i, out) <=> AllDCE!Erased(i, out)
      BY DEF DCE!Erased, AllDCE!Erased, DCE!Unnamed, AllDCE!Unnamed,
             DCE!IsUnused, AllDCE!IsUnused, DCE!Unused, AllDCE!Unused,
             DCE!KnownAs, AllDCE!KnownAs, DCE!Leq, AllDCE!Leq
    <3> QED BY <3>1 DEF DCE!Remaining, AllDCE!Remaining
  <2>2. AllDCE!Remaining(s, out) \in Seq(Instructions)
    BY AllDCE!RemainingFacts
  <2> QED BY <2>1, <2>2
<1>2. DCE!Postprocess(f, out, in) = [b \in DOMAIN f |-> [f[b] EXCEPT !.insts = New(b)]]
  BY DEF DCE!Postprocess
<1>3. \A b \in 1 .. Len(f) : New(b) \in Seq(Instructions)
  BY <1>1, FunctionFacts
<1> HIDE DEF New
<1>4. ASSUME NEW b \in 1 .. Len(f)
      PROVE  [f[b] EXCEPT !.insts = New(b)] \in Block
  <2>1. f[b] \in Block
    BY FunctionFacts
  <2>2. New(b) \in Seq(Instructions)
    BY <1>3
  <2> QED BY <2>1, <2>2
<1>5. DCE!Postprocess(f, out, in) \in [1 .. Len(f) -> Block]
  <2> HIDE DEF Block
  <2> QED BY <1>2, <1>4, FunctionFacts
<1> QED BY <1>5, RewrittenFunction

-----------------------------------------------------------------------------
(* The steps. *)

(* A step that leaves ai_cp out of it: it has not yet set up its states,   *)
(* or has ended.                                                           *)
LEMMA OutsideStep ==
  ASSUME IsFunction(func)', phase' \notin {"round", "block", "aborted"}
  PROVE  PipeInv'
BY DEF PipeInv, AbortsForACause

LEMMA UnchangedStep ==
  ASSUME PipeInv, UNCHANGED <<interpreterVars, passes>>
  PROVE  PipeInv'
BY DEF PipeInv, AbortsForACause, interpreterVars

(* A step of ai_cp.                                                        *)
LEMMA PropagationStep ==
  ASSUME PipeInv, Head(passes) = "ai_cp", CP!Next, UNCHANGED passes
  PROVE  PipeInv'
<1>0. CP!EmptyState = [n \in {} |-> n] /\ IsInformed(CP!EmptyState)
  BY DEF CP!EmptyState, IsInformed
<1>f. /\ IsFunction(func) /\ Len(func) \in Nat \ {0}
      /\ \A b \in 1 .. Len(func) : func[b].preds \subseteq 1 .. Len(func)
  BY FunctionFacts DEF PipeInv
<1>1. CASE CP!SetInitialStates
  BY <1>0, <1>1, <1>f DEF CP!SetInitialStates, CP!Blocks, PipeInv, AbortsForACause
<1>2. CASE CP!StartRound
  BY <1>0, <1>2, <1>f DEF CP!StartRound, CP!EnterBlock, PipeInv, AbortsForACause
<1>3. ASSUME NEW p \in pending, CP!MergePredecessorState(p)
      PROVE  PipeInv'
  <2>1. p \in 1 .. Len(func) /\ IsInformed(cur_state) /\ IsInformed(bb_state[p])
    BY <1>3, <1>f DEF CP!MergePredecessorState, PipeInv
  <2>2. IsInformed(cur_state')
    BY <1>3, <2>1, MergeStays DEF CP!MergePredecessorState
  <2> QED BY <1>3, <2>2 DEF CP!MergePredecessorState, PipeInv, AbortsForACause
<1> DEFINE i == func[blk].insts[idx]
<1>i. ASSUME CP!Interpreting
      PROVE  i \in Instructions /\ IsInformed(cur_state) /\ <<blk, idx>> \in CP!Points(func)
  <2>1. blk \in 1 .. Len(func) /\ idx \in Nat \ {0} /\ idx <= Len(func[blk].insts)
    BY <1>i DEF CP!Interpreting, PipeInv
  <2>2. /\ Len(func[blk].insts) \in Nat
        /\ \A k \in 1 .. Len(func[blk].insts) : func[blk].insts[k] \in Instructions
    BY <1>f, <2>1, FunctionFacts
  <2>3. idx \in 1 .. Len(func[blk].insts)
    BY <2>1, <2>2
  <2> QED BY <1>i, <2>1, <2>2, <2>3 DEF CP!Interpreting, PipeInv, CP!Points, CP!Blocks
<1>4. CASE CP!InterpretInst
  <2>1. /\ CP!Interpreting /\ ~ CP!FlowAborts(i, cur_state)
        /\ cur_state' = CP!FlowState(i, cur_state)
        /\ inst_state_in' = [inst_state_in EXCEPT ![<<blk, idx>>] = cur_state]
        /\ idx' = idx + 1 /\ phase = "block"
        /\ UNCHANGED <<func, phase, bb_state, blk, pending>>
    BY <1>4 DEF CP!InterpretInst, CP!Interpreting
  <2>2. IsInformed(cur_state')
    BY <2>1, <1>i, FlowStays
  <2>3. /\ DOMAIN inst_state_in' = CP!Points(func)
        /\ \A p \in CP!Points(func) : IsInformed(inst_state_in'[p])
    BY <2>1, <1>i DEF PipeInv
  <2> QED BY <2>1, <2>2, <2>3 DEF PipeInv, AbortsForACause
<1>5. CASE CP!Abort
  <2>1. /\ CP!Interpreting /\ CP!FlowAborts(i, cur_state)
        /\ phase' = "aborted" /\ UNCHANGED <<func, blk, idx, cur_state>>
    BY SMTT(30), <1>5 DEF CP!Abort
  <2>2. AbortsForACause'
    <3> HIDE DEF i
    <3>1. LET Element(k) == CP!ElementOf(i.args[k], cur_state) IN
          \/ Len(i.args) > 3
          \/ \E x \in Operands(i) : x.kind = "undef"
          \/ i.op = "alloca"
          \/ i.op = "sdiv" /\ Element(2) \in {SingleValue(0), Zero}
          \/ {Element(1), Element(2)} \in {{Zero}, {Zero, SingleValue(0)}}
      BY <2>1, <1>i, AbortHasACause
    <3> QED BY <2>1, <3>1 DEF AbortsForACause, i
  <2> QED BY <2>1, <2>2, <1>f DEF PipeInv
<1>6. CASE CP!SetOutState
  <2>1. /\ phase = "block" /\ blk \in 1 .. Len(func) /\ IsInformed(cur_state)
        /\ bb_state' = [bb_state EXCEPT ![blk] = cur_state]
        /\ UNCHANGED <<func, inst_state_in>>
        /\ \/ blk < Len(func) /\ CP!EnterBlock(blk + 1) /\ phase' = phase
           \/ phase' = "round"
    BY <1>6 DEF CP!SetOutState, PipeInv
  <2>2. /\ DOMAIN bb_state' = 1 .. Len(func)
        /\ \A b \in 1 .. Len(func) : IsInformed(bb_state'[b])
    BY <2>1 DEF PipeInv
  <2>3. CASE blk < Len(func) /\ CP!EnterBlock(blk + 1) /\ phase' = phase
    <3>1. /\ blk' = blk + 1 /\ blk' \in 1 .. Len(func) /\ idx' = 1
          /\ pending' \subseteq func[blk'].preds /\ cur_state' = CP!EmptyState
      BY <1>f, <2>1, <2>3 DEF CP!EnterBlock
    <3> QED BY <1>0, <2>1, <2>2, <2>3, <3>1 DEF PipeInv, AbortsForACause
  <2>4. CASE phase' = "round"
    BY <2>1, <2>2, <2>4 DEF PipeInv, AbortsForACause
  <2> QED BY <2>1, <2>3, <2>4
<1>7. CASE CP!Finish
  <2>1. IsFunction(func')
    BY <1>7, <1>f, RewriteStays DEF CP!Finish, PipeInv
  <2> QED BY <1>7, <2>1, OutsideStep DEF CP!Finish
<1>8. CASE CP!Stopped
  BY <1>8, UnchangedStep DEF CP!Stopped, CP!vars, interpreterVars
<1> QED BY <1>1, <1>2, <1>3, <1>4, <1>5, <1>6, <1>7, <1>8 DEF CP!Next

(* No state of ai_dce comes to know a name as Bottom.                      *)
LEMMA MergeStaysRanked ==
  ASSUME NEW A, NEW B, IsRanked(A), IsRanked(B)
  PROVE  IsRanked(DCE!MergeStates(A, B))
BY DEF IsRanked, DCE!MergeStates, DCE!LeastUpperBound

LEMMA FlowStaysRanked ==
  ASSUME NEW i, NEW state, IsRanked(state)
  PROVE  IsRanked(DCE!FlowState(i, state))
BY DEF IsRanked, DCE!FlowState, DCE!Bottom, DCE!Unused, DCE!Used

(* A step of ai_dce.                                                       *)
LEMMA EliminationStep ==
  ASSUME PipeInv, Head(passes) = "ai_dce", DCE!Next, UNCHANGED passes
  PROVE  PipeInv'
<1>0. IsRanked(DCE!EmptyState)
  BY DEF DCE!EmptyState, IsRanked
<1>f. /\ IsFunction(func) /\ Len(func) \in Nat \ {0}
      /\ \A b \in 1 .. Len(func) : func[b].preds \subseteq 1 .. Len(func)
  BY FunctionFacts DEF PipeInv
<1>1. CASE DCE!SetInitialStates
  BY <1>0, <1>1, <1>f DEF DCE!SetInitialStates, DCE!Blocks, PipeInv, AbortsForACause
<1>2. CASE DCE!StartRound
  BY <1>0, <1>2, <1>f DEF DCE!StartRound, DCE!EnterBlock, PipeInv, AbortsForACause
<1>3. ASSUME NEW p \in pending, DCE!MergePredecessorState(p)
      PROVE  PipeInv'
  <2>1. p \in 1 .. Len(func) /\ IsRanked(cur_state) /\ IsRanked(bb_state[p])
    BY <1>3, <1>f DEF DCE!MergePredecessorState, PipeInv
  <2>2. IsRanked(cur_state')
    BY <1>3, <2>1, MergeStaysRanked DEF DCE!MergePredecessorState
  <2> QED BY <1>3, <2>2 DEF DCE!MergePredecessorState, PipeInv, AbortsForACause
<1>4. CASE DCE!InterpretInst
  <2>1. /\ cur_state' = DCE!FlowState(func[blk].insts[idx], cur_state) /\ phase = "block"
        /\ UNCHANGED <<func, phase, bb_state, blk, pending>>
    BY <1>4 DEF DCE!InterpretInst, DCE!Interpreting
  <2>2. IsRanked(cur_state')
    BY <2>1, FlowStaysRanked DEF PipeInv
  <2> QED BY <2>1, <2>2 DEF PipeInv, AbortsForACause
<1>5. CASE DCE!Abort
  <2> DEFINE i == func[blk].insts[idx]
  <2>1. /\ phase = "block" /\ DCE!FlowAborts(i, cur_state)
        /\ phase' = "aborted" /\ UNCHANGED <<func, blk, idx, cur_state>>
    BY <1>5 DEF DCE!Abort, DCE!Interpreting
  <2>2. Len(i.args) > 3
    BY <2>1 DEF DCE!FlowAborts, PipeInv, IsRanked
  <2> QED BY <2>1, <2>2, <1>f DEF PipeInv, AbortsForACause
<1>6. CASE DCE!SetOutState
  <2>1. /\ phase = "block" /\ blk \in 1 .. Len(func) /\ IsRanked(cur_state)
        /\ bb_state' = [bb_state EXCEPT ![blk] = cur_state]
        /\ UNCHANGED func
        /\ \/ blk < Len(func) /\ DCE!EnterBlock(blk + 1) /\ phase' = phase
           \/ phase' = "round"
    BY <1>6 DEF DCE!SetOutState, PipeInv
  <2>2. DOMAIN bb_state' = 1 .. Len(func) /\ \A b \in 1 .. Len(func) : IsRanked(bb_state'[b])
    BY <2>1 DEF PipeInv
  <2>3. CASE blk < Len(func) /\ DCE!EnterBlock(blk + 1) /\ phase' = phase
    <3>1. /\ blk' \in 1 .. Len(func)
          /\ pending' \subseteq func[blk'].preds /\ cur_state' = DCE!EmptyState
      BY <1>f, <2>1, <2>3 DEF DCE!EnterBlock
    <3> QED BY <1>0, <2>1, <2>2, <2>3, <3>1 DEF PipeInv, AbortsForACause
  <2>4. CASE phase' = "round"
    BY <2>1, <2>2, <2>4 DEF PipeInv, AbortsForACause
  <2> QED BY <2>1, <2>3, <2>4
<1>7. CASE DCE!Finish
  <2>1. IsFunction(func')
    BY <1>7, <1>f, EraseStays DEF DCE!Finish, PipeInv
  <2> QED BY <1>7, <2>1, OutsideStep DEF DCE!Finish
<1>8. CASE DCE!Stopped
  BY <1>8, UnchangedStep DEF DCE!Stopped, DCE!vars, interpreterVars
<1> QED BY <1>1, <1>2, <1>3, <1>4, <1>5, <1>6, <1>7, <1>8 DEF DCE!Next

LEMMA PipeInvInductive ==
  ASSUME PipeInv, [Next]_pipeVars
  PROVE  PipeInv'
<1>1. CASE RunPass
  BY <1>1, PropagationStep, EliminationStep DEF RunPass
<1>2. CASE NextPass
  <2>1. phase' = "start" /\ func' = func
    BY <1>2 DEF NextPass
  <2> QED BY <2>1, OutsideStep DEF PipeInv
<1>3. CASE RunBefore \/ RunAfter \/ \E input \in Value, effect \in Effects : RunBoth(input, effect)
  BY <1>3, UnchangedStep DEF RunBefore, RunAfter, RunBoth
<1>4. CASE UNCHANGED pipeVars
  BY <1>4, UnchangedStep DEF pipeVars
<1> QED BY <1>1, <1>2, <1>3, <1>4 DEF Next

(* The assertions of ai_cp, of its lattice and of ai_dce fail, and the     *)
(* divisions of ai_cp trap, only for the causes AbortsForACause names      *)
(* (MyPasses.cc:187-206, 551-775, 891-896): on every function made of the  *)
(* instructions src/compiler.h emits and mem2reg leaves of them, in every  *)
(* order of the passes, for every width of int.                            *)
THEOREM StopsOnlyForACause == Spec => []AbortsForACause
<1>1. Init => PipeInv
  <2> SUFFICES ASSUME Init PROVE PipeInv
    OBVIOUS
  <2>1. func \in Functions /\ phase = "start"
    BY DEF Init, CP!Init
  <2> QED BY <2>1, FunctionsAssumption DEF PipeInv, AbortsForACause
<1>2. PipeInv /\ [Next]_pipeVars => PipeInv'
  BY PipeInvInductive
<1>3. PipeInv => AbortsForACause
  BY DEF PipeInv
<1> QED BY <1>1, <1>2, <1>3, PTL DEF Spec

-----------------------------------------------------------------------------
(* What postprocess() of ai_dce leaves agrees with it too. *)

\* t is s without the instructions that out makes ai_dce erase: p tells where those
\* left were.
LeftOf(s, out, t, p) ==
  /\ \A l \in 1 .. Len(t) : p[l] \in 1 .. Len(s) /\ t[l] = s[p[l]]
  /\ \A l, m \in 1 .. Len(t) : l < m => p[l] < p[m]
  /\ \A k \in 1 .. Len(s) : ~DCE!Erased(s[k], out) => \E l \in 1 .. Len(t) : p[l] = k

(* Where the instructions left in a block were.                            *)
LEMMA PlacesLeft ==
  ASSUME NEW s \in Seq(Instructions), NEW out
  PROVE  \E p : LeftOf(s, out, DCE!Remaining(s, out), p)
<1>1. \A i : DCE!Erased(i, out) <=> AllDCE!Erased(i, out)
  BY DEF DCE!Erased, AllDCE!Erased, DCE!Unnamed, AllDCE!Unnamed,
         DCE!IsUnused, AllDCE!IsUnused, DCE!Unused, AllDCE!Unused,
         DCE!KnownAs, AllDCE!KnownAs, DCE!Leq, AllDCE!Leq
<1>2. DCE!Remaining(s, out) = AllDCE!Remaining(s, out)
  BY <1>1 DEF DCE!Remaining, AllDCE!Remaining
<1>3. \E p : AllDCE!LeftAt(s, out, Len(s), AllDCE!Remaining(s, out), p)
  BY AllDCE!RemainingPlaces
<1>4. PICK p : AllDCE!LeftAt(s, out, Len(s), AllDCE!Remaining(s, out), p)
  BY <1>3
<1>5. LeftOf(s, out, DCE!Remaining(s, out), p)
  BY <1>1, <1>2, <1>4 DEF AllDCE!LeftAt, LeftOf
<1> QED BY <1>5

LeavesAt(g, h, out, b, p) ==
  h[b].preds = g[b].preds /\ LeftOf(g[b].insts, out, h[b].insts, p)

(* What postprocess() of ai_dce leaves of each block.                      *)
LEMMA EliminatedBlocks ==
  ASSUME NEW g, IsFunction(g), NEW out, NEW in, NEW h, h = DCE!Postprocess(g, out, in)
  PROVE  Len(h) = Len(g) /\ \A b \in 1 .. Len(g) : \E p : LeavesAt(g, h, out, b, p)
<1> DEFINE n == Len(g)
           New(b) == DCE!Remaining(g[b].insts, out)
           S == {h[b] : b \in 1 .. n}
<1>1. h = [b \in DOMAIN g |-> [g[b] EXCEPT !.insts = New(b)]]
  BY DEF DCE!Postprocess
<1>2. n \in Nat /\ DOMAIN g = 1 .. n
  BY FunctionFacts
<1>3. h \in [1 .. n -> S]
  <2> HIDE DEF New
  <2> QED BY <1>1, <1>2
<1>4. Len(h) = n
  <2> HIDE DEF S, n
  <2>1. h \in Seq(S) /\ Len(h) = n
    BY <1>2, <1>3
  <2> QED BY <2>1
<1>5. ASSUME NEW b \in 1 .. n PROVE \E p : LeavesAt(g, h, out, b, p)
  <2>1. /\ g[b] \in [insts : Seq(Instructions), preds : SUBSET (1 .. Len(g))]
        /\ g[b].insts \in Seq(Instructions)
    BY FunctionFacts
  <2>2. h[b] = [g[b] EXCEPT !.insts = New(b)]
    <3> HIDE DEF New
    <3> QED BY <1>1, <1>2
  <2>3. h[b].insts = New(b) /\ h[b].preds = g[b].preds
    <3> HIDE DEF New
    <3> QED BY <2>1, <2>2
  <2>4. PICK p : LeftOf(g[b].insts, out, DCE!Remaining(g[b].insts, out), p)
    BY <2>1, PlacesLeft, Zenon
  <2>5. LeavesAt(g, h, out, b, p)
    BY <2>3, <2>4 DEF LeavesAt
  <2> QED BY <2>5
<1> QED BY <1>4, <1>5

(* No register that is read is erased.                                     *)
LEMMA EliminatedAgrees ==
  ASSUME NEW f, IsFunction(f), NEW g, IsFunction(g), NEW e, NEW E, Agree(f, g, e, E),
         NEW out, NEW in, NEW h, h = DCE!Postprocess(g, out, in),
         \A i \in Insts(g) : DCE!Erased(i, out) =>
           /\ i.op \notin {"store", "phi", "call", "ret"} /\ i.name # Unnamed
           /\ i.name \notin DCE!Mentioned(g)
  PROVE  \E e1, E1 : Agree(f, h, e1, E1)
<1> DEFINE place == [b \in 1 .. Len(g) |-> CHOOSE p : LeavesAt(g, h, out, b, p)]
           e1 == [b \in 1 .. Len(g) |-> [l \in 1 .. Len(h[b].insts) |-> e[b][place[b][l]]]]
           gone == {i.name : i \in {j \in Insts(g) : DCE!Erased(j, out)}}
           E1 == E \cup gone
<1>1. Len(h) = Len(g) /\ Len(g) = Len(f) /\ \A b \in 1 .. Len(g) : LeavesAt(g, h, out, b, place[b])
  <2>1. Len(g) = Len(f)
    BY DEF Agree
  <2>2. Len(h) = Len(g) /\ \A b \in 1 .. Len(g) : \E p : LeavesAt(g, h, out, b, p)
    BY EliminatedBlocks
  <2> QED BY <2>1, <2>2
<1>2. \A b \in 1 .. Len(f) : \A l \in 1 .. Len(h[b].insts) : e1[b][l] = e[b][place[b][l]]
  BY <1>1
<1>3. \A i \in Insts(g) : DCE!Erased(i, out) => i.name \in gone
  OBVIOUS
<1>4. ASSUME NEW i \in Insts(g), i \in Instructions, NEW j \in 1 .. Len(i.args), i.args[j].kind = "register"
      PROVE  i.args[j].name \notin gone
  <2>1. i.args[j] \in DCE!Operands(i)
    BY <1>4, InstructionFacts DEF DCE!Operands
  <2>2. i \in DCE!Insts(g)
    BY DEF DCE!Insts, Insts
  <2>3. i.args[j].name \in DCE!Mentioned(g)
    BY SMTT(30), <1>4, <2>1, <2>2 DEF DCE!Mentioned
  <2> QED BY <2>3
<1> HIDE DEF place, e1, gone
<1>5. ASSUME NEW b \in 1 .. Len(f)
      PROVE  /\ h[b].preds = f[b].preds
             /\ \A l \in 1 .. Len(h[b].insts) :
                  /\ e1[b][l] \in 1 .. Len(f[b].insts)
                  /\ Matches(f, b, e1[b][l], h[b].insts[l])
                  /\ \A j \in 1 .. Len(h[b].insts[l].args) :
                       h[b].insts[l].args[j].kind = "register" => h[b].insts[l].args[j].name \notin E1
             /\ \A l, m \in 1 .. Len(h[b].insts) : l < m => e1[b][l] < e1[b][m]
             /\ \A k \in 1 .. Len(f[b].insts) : Dropped(h, e1, b, k) =>
                  /\ f[b].insts[k].op \notin {"store", "phi", "call"}
                  /\ f[b].insts[k].name \in E1 \ {Unnamed}
  <2> DEFINE p == place[b]
  <2>1. b \in 1 .. Len(g) /\ LeavesAt(g, h, out, b, p)
    BY <1>1
  <2>2. \A l \in 1 .. Len(h[b].insts) : p[l] \in 1 .. Len(g[b].insts) /\ h[b].insts[l] = g[b].insts[p[l]]
    BY <2>1 DEF LeavesAt, LeftOf
  <2>3. \A l \in 1 .. Len(g[b].insts) : g[b].insts[l] \in Insts(g) /\ g[b].insts[l] \in Instructions
    BY <2>1, PlaceFacts
  <2>4. /\ g[b].preds = f[b].preds
        /\ \A l \in 1 .. Len(g[b].insts) :
             /\ e[b][l] \in 1 .. Len(f[b].insts)
             /\ Matches(f, b, e[b][l], g[b].insts[l])
             /\ \A j \in 1 .. Len(g[b].insts[l].args) :
                  g[b].insts[l].args[j].kind = "register" => g[b].insts[l].args[j].name \notin E
        /\ \A l, m \in 1 .. Len(g[b].insts) : l < m => e[b][l] < e[b][m]
        /\ \A k \in 1 .. Len(f[b].insts) : Dropped(g, e, b, k) =>
             /\ f[b].insts[k].op \notin {"store", "phi", "call"}
             /\ f[b].insts[k].name \in E \ {Unnamed}
    BY DEF Agree
  <2> HIDE DEF p
  <2>5. \A l \in 1 .. Len(h[b].insts) : e1[b][l] = e[b][p[l]]
    BY <1>2 DEF p
  <2>6. ASSUME NEW l \in 1 .. Len(h[b].insts)
        PROVE  /\ e1[b][l] \in 1 .. Len(f[b].insts)
               /\ Matches(f, b, e1[b][l], h[b].insts[l])
               /\ \A j \in 1 .. Len(h[b].insts[l].args) :
                    h[b].insts[l].args[j].kind = "register" => h[b].insts[l].args[j].name \notin E1
    <3>1. e1[b][l] = e[b][p[l]] /\ p[l] \in 1 .. Len(g[b].insts) /\ h[b].insts[l] = g[b].insts[p[l]]
      BY <2>2, <2>5
    <3> QED BY <1>4, <2>3, <2>4, <3>1
  <2>7. ASSUME NEW l \in 1 .. Len(h[b].insts), NEW m \in 1 .. Len(h[b].insts), l < m
        PROVE  e1[b][l] < e1[b][m]
    <3>1. p[l] < p[m]
      BY <2>1, <2>7 DEF LeavesAt, LeftOf
    <3> QED BY SMTT(30), <2>2, <2>4, <2>5, <3>1
  <2>8. ASSUME NEW k \in 1 .. Len(f[b].insts), Dropped(h, e1, b, k)
        PROVE  /\ f[b].insts[k].op \notin {"store", "phi", "call"}
               /\ f[b].insts[k].name \in E1 \ {Unnamed}
    <3>1. CASE Dropped(g, e, b, k)
      BY <2>4, <3>1
    <3>2. CASE ~Dropped(g, e, b, k)
      <4>1. PICK l \in 1 .. Len(g[b].insts) : e[b][l] = k
        BY <3>2 DEF Dropped
      <4>2. DCE!Erased(g[b].insts[l], out)
        <5> SUFFICES ASSUME ~DCE!Erased(g[b].insts[l], out) PROVE FALSE
          OBVIOUS
        <5>1. PICK m \in 1 .. Len(h[b].insts) : p[m] = l
          BY <2>1 DEF LeavesAt, LeftOf
        <5>2. e1[b][m] = k
          BY <2>5, <4>1, <5>1
        <5> QED BY <2>8, <5>2 DEF Dropped
      <4>3. Matches(f, b, k, g[b].insts[l])
        BY <2>4, <4>1
      <4>4. g[b].insts[l].op = f[b].insts[k].op /\ g[b].insts[l].name = f[b].insts[k].name
        BY <4>3 DEF Matches
      <4>5. /\ g[b].insts[l].op \notin {"store", "phi", "call", "ret"}
            /\ g[b].insts[l].name # Unnamed
            /\ g[b].insts[l].name \in gone
        BY <1>3, <2>3, <4>2
      <4> QED BY <4>4, <4>5
    <3> QED BY <3>1, <3>2
  <2> QED BY <2>1, <2>4, <2>6, <2>7, <2>8 DEF LeavesAt, LeftOf
<1> HIDE DEF E1
<1>6. Agree(f, h, e1, E1)
  BY <1>1, <1>5 DEF Agree
<1> QED BY <1>6

-----------------------------------------------------------------------------
(* The interpreters of the two passes, on all functions. *)

\* The states of ai_cp.
States == UNION {[D -> Informed] : D \in SUBSET Names}

\* No state: where flowState() of ai_cp does not return.
Stop == CHOOSE s : s \notin States

FlowOrStop(i, s)     == IF CP!FlowAborts(i, s) THEN Stop ELSE CP!FlowState(i, s)
Stops(i, s)          == CP!FlowAborts(i, s)
Rewrites(f, out, in) == CP!Postprocess(f, out, in)

CPTheorems ==
  INSTANCE AbstractInterpretationTheorems
  WITH Functions <- AllFunctions, Name <- Names, Inst <- Instructions, Elem <- Informed,
       FlowState <- FlowOrStop, FlowAborts <- Stops, Postprocess <- Rewrites, Kept <- {}

(* No state is Stop.                                                       *)
LEMMA StopFacts == Stop \notin States
<1> DEFINE R == {s \in States : s \notin s}
<1>1. R \notin States
  <2> HIDE DEF States
  <2> QED OBVIOUS
<1> HIDE DEF R, States
<1> QED BY <1>1 DEF Stop

(* What a function with no empty block is to the interpreters.             *)
LEMMA AllFunctionsFacts ==
  ASSUME NEW f, IsFunction(f)
  PROVE  /\ (\A b \in 1 .. Len(f) : f[b].insts # <<>>) => f \in AllFunctions
         /\ f \in AllFunctions => CPTheorems!WellFormed(f)
<1>1. /\ f \in Seq([insts : Seq(Instructions), preds : SUBSET (1 .. Len(f))])
      /\ Len(f) \in Nat \ {0} /\ DOMAIN f = 1 .. Len(f)
      /\ \A b \in 1 .. Len(f) : f[b] \in [insts : Seq(Instructions), preds : SUBSET (1 .. Len(f))]
  BY FunctionFacts
<1> DEFINE S == [insts : Seq(Instructions) \ {<<>>}, preds : SUBSET Nat]
           T == [insts : Seq(Instructions) \ {<<>>}, preds : SUBSET (1 .. Len(f))]
           n == Len(f)
<1>2. f = [b \in 1 .. n |-> f[b]]
  BY <1>1
<1>3. ASSUME \A b \in 1 .. n : f[b].insts # <<>> PROVE f \in Seq(S)
  <2>1. \A b \in 1 .. n : f[b] \in S
    BY <1>1, <1>3
  <2>2. f \in [1 .. n -> S]
    <3> HIDE DEF S, n
    <3> QED BY <1>2, <2>1
  <2> HIDE DEF S
  <2> QED BY SMTT(30), <1>1, <2>2
<1>4. ASSUME f \in Seq(S) PROVE f \in Seq(T) /\ f # <<>>
  <2>0. \A b \in 1 .. n : f[b] \in S
    <3> HIDE DEF S
    <3> QED BY <1>1, <1>4
  <2>1. \A b \in 1 .. n : f[b] \in T
    BY <1>1, <2>0
  <2>2. f \in [1 .. n -> T]
    <3> HIDE DEF T, n
    <3> QED BY <1>2, <2>1
  <2> HIDE DEF T
  <2> QED BY SMTT(30), <1>1, <2>2
<1>5. (\A b \in 1 .. Len(f) : f[b].insts # <<>>) => f \in AllFunctions
  BY <1>3 DEF AllFunctions
<1>6. f \in AllFunctions => CPTheorems!WellFormed(f)
  BY <1>4 DEF AllFunctions, CPTheorems!WellFormed
<1> QED BY <1>5, <1>6

(* All functions are what both interpreters take for granted of them.      *)
LEMMA AllWellFormed == \A f \in AllFunctions : CPTheorems!WellFormed(f) /\ AllDCE!WellFormed(f)
<1> TAKE f \in AllFunctions
<1>1. IsFunction(f)
  BY DEF AllFunctions
<1>2. CPTheorems!WellFormed(f)
  BY <1>1, AllFunctionsFacts
<1> DEFINE n == Len(f)
           S == [insts : Seq(Instructions) \ {<<>>}, preds : SUBSET (1 .. Len(f))]
           T == [insts : Seq(AllDCE!Inst) \ {<<>>}, preds : SUBSET (1 .. Len(f))]
<1>3. f \in Seq(S) /\ f # <<>>
  BY <1>2 DEF CPTheorems!WellFormed
<1>4. n \in Nat /\ f = [b \in 1 .. n |-> f[b]] /\ \A b \in 1 .. n : f[b] \in S
  <2> HIDE DEF S
  <2> QED BY <1>3
<1>5. ASSUME NEW b \in 1 .. n PROVE f[b] \in T
  <2>1. f[b] \in S
    BY <1>4
  <2>2. /\ f[b] = [insts |-> f[b].insts, preds |-> f[b].preds] /\ f[b].preds \in SUBSET (1 .. Len(f))
        /\ f[b].insts \in Seq(Instructions) /\ f[b].insts # <<>>
    BY <2>1
  <2> DEFINE s == f[b].insts
             m == Len(s)
  <2>3. m \in Nat /\ s = [k \in 1 .. m |-> s[k]] /\ DOMAIN s = 1 .. m
    BY <2>2
  <2>4. ASSUME NEW k \in 1 .. m PROVE s[k] \in AllDCE!Inst
    <3>1. s[k] \in AllDCE!Insts(f)
      BY <2>3 DEF AllDCE!Insts
    <3> QED BY <3>1 DEF AllDCE!Inst
  <2>5. s \in [1 .. m -> AllDCE!Inst]
    <3> HIDE DEF s, m
    <3> QED BY <2>3, <2>4
  <2>6. s \in Seq(AllDCE!Inst)
    <3> HIDE DEF s, m
    <3> QED BY <2>3, <2>5
  <2> QED BY <2>2, <2>6
<1>6. f \in [1 .. n -> T]
  <2> HIDE DEF T, n
  <2> QED BY <1>4, <1>5
<1>7. f \in Seq(T)
  <2> HIDE DEF T
  <2> QED BY <1>4, <1>6
<1>8. AllDCE!WellFormed(f)
  BY <1>3, <1>7 DEF AllDCE!WellFormed
<1> QED BY <1>2, <1>8

(* What the interpreter of ai_cp asks of its lattice.                      *)
LEMMA InformedLattice ==
  /\ \A x, y \in Informed : /\ LeastUpperBound(x, y) \in Informed
                            /\ Leq(x, LeastUpperBound(x, y))
                            /\ Leq(y, LeastUpperBound(x, y))
  /\ \A x, y, u \in Informed : Leq(x, u) /\ Leq(y, u) => Leq(LeastUpperBound(x, y), u)
  /\ \A x \in Informed : Leq(x, x)
  /\ \A x, y, z \in Informed : Leq(x, y) /\ Leq(y, z) => Leq(x, z)
<1>1. Informed \subseteq Elem
  BY DEF Informed
<1>2. \A x, y \in Informed : LeastUpperBound(x, y) \in Informed
  BY BoundStays
<1>3. \A x, y \in Informed : /\ Leq(x, LeastUpperBound(x, y)) /\ Leq(y, LeastUpperBound(x, y))
                             /\ \A u \in Informed : Leq(x, u) /\ Leq(y, u) => Leq(LeastUpperBound(x, y), u)
  BY <1>1, LeastUpperBoundIsLeast
<1>4. /\ \A x \in Informed : Leq(x, x)
      /\ \A x, y, z \in Informed : Leq(x, y) /\ Leq(y, z) => Leq(x, z)
  BY <1>1, LeqIsPartialOrder
<1> QED BY <1>2, <1>3, <1>4

(* A state is a map from names to elements ai_cp has rules for.            *)
LEMMA StatesFacts ==
  ASSUME NEW s
  PROVE  s \in States <=> /\ s = [n \in DOMAIN s |-> s[n]]
                          /\ DOMAIN s \subseteq Names /\ IsInformed(s)
<1>1. ASSUME s \in States PROVE s = [n \in DOMAIN s |-> s[n]] /\ DOMAIN s \subseteq Names /\ IsInformed(s)
  <2>1. PICK D \in SUBSET Names : s \in [D -> Informed]
    BY <1>1 DEF States
  <2> QED BY <2>1 DEF IsInformed
<1>2. ASSUME s = [n \in DOMAIN s |-> s[n]], DOMAIN s \subseteq Names, IsInformed(s) PROVE s \in States
  <2>1. s \in [DOMAIN s -> Informed]
    BY <1>2 DEF IsInformed
  <2> QED BY <1>2, <2>1 DEF States
<1> QED BY <1>1, <1>2

(* flowState() returns states.                                             *)
LEMMA FlowStates ==
  ASSUME NEW i \in Instructions, NEW s \in States, ~CP!FlowAborts(i, s)
  PROVE  CP!FlowState(i, s) \in States
<1> DEFINE t == CP!FlowState(i, s)
<1>1. s = [n \in DOMAIN s |-> s[n]] /\ DOMAIN s \subseteq Names /\ IsInformed(s)
  BY StatesFacts
<1>2. IsInformed(t)
  BY <1>1, FlowStays
<1>3. i.name \in Names /\ (i.op = "store" => i.args[2].name \in Names)
  <2>1. i.name \in Names
    BY InstructionFacts
  <2>2. ASSUME i.op = "store" PROVE i.args[2].name \in Names
    <3>1. i.args \in Seq(Operand) /\ Len(i.args) = 2
      BY <2>2, InstructionFacts
    <3>2. i.args[2] \in Operand
      BY <3>1
    <3> HIDE DEF Names
    <3> QED BY <3>2 DEF Operand
  <2> QED BY <2>1, <2>2
<1> DEFINE IsMap(u) == u = [m \in DOMAIN u |-> u[m]]
<1>4. \A n, x : IsMap(CP!Update(s, n, x)) /\ DOMAIN CP!Update(s, n, x) = DOMAIN s \cup {n}
  BY DEF CP!Update
<1>0. IsMap(s)
  BY <1>1
<1>5. \/ t = s
      \/ \E x : t = CP!Update(s, i.name, x)
      \/ i.op = "store" /\ \E x : t = CP!Update(s, i.args[2].name, x)
  BY DEF CP!FlowState
<1>6. IsMap(t) /\ DOMAIN t \subseteq Names
  <2> HIDE DEF t, Names, IsMap
  <2>1. CASE t = s
    BY <1>0, <1>1, <2>1
  <2>2. CASE \E x : t = CP!Update(s, i.name, x)
    <3>1. PICK x : t = CP!Update(s, i.name, x)
      BY <2>2
    <3>2. IsMap(t) /\ DOMAIN t = DOMAIN s \cup {i.name}
      BY <1>4, <3>1
    <3> QED BY <1>1, <1>3, <3>2
  <2>3. CASE i.op = "store" /\ \E x : t = CP!Update(s, i.args[2].name, x)
    <3>1. PICK x : t = CP!Update(s, i.args[2].name, x)
      BY <2>3
    <3>2. IsMap(t) /\ DOMAIN t = DOMAIN s \cup {i.args[2].name}
      BY <1>4, <3>1
    <3> QED BY <1>1, <1>3, <2>3, <3>2
  <2> QED BY <1>5, <2>1, <2>2, <2>3
<1> QED BY <1>2, <1>6, StatesFacts

(* The interpreter the lemmas are about is the one ai_cp runs.             *)
LEMMA SameStates == States = CPTheorems!StateOver(Names)
BY DEF States, CPTheorems!StateOver

(* What the interpreter asks of flowState().                               *)
LEMMA FlowOrStopReturns ==
  \A i \in Instructions, s \in CPTheorems!StateOver(Names) :
    ~Stops(i, s) => FlowOrStop(i, s) \in CPTheorems!StateOver(Names)
BY FlowStates, SameStates DEF Stops, FlowOrStop

(* A step of ai_cp is a step of the interpreter the lemmas are about.      *)
LEMMA SamePropagation == CP!Next => CPTheorems!Next
<1>u. \A x, y : CP!LeastUpperBound(x, y) = LeastUpperBound(x, y)
  BY SameRules
<1>2. CP!SetInitialStates => CPTheorems!SetInitialStates
  BY DEF CP!SetInitialStates, CPTheorems!SetInitialStates, CP!Blocks, CPTheorems!Blocks,
         CP!Points, CPTheorems!Points, CP!EmptyState, CPTheorems!EmptyState
<1>3. CP!StartRound => CPTheorems!StartRound
  BY DEF CP!StartRound, CPTheorems!StartRound, CP!EnterBlock, CPTheorems!EnterBlock,
         CP!EmptyState, CPTheorems!EmptyState
<1>4. \A p : CP!MergePredecessorState(p) => CPTheorems!MergePredecessorState(p)
  <2>1. \A A, B : CP!MergeStates(A, B) = CPTheorems!MergeStates(A, B)
    BY <1>u DEF CP!MergeStates, CPTheorems!MergeStates
  <2> QED BY <2>1 DEF CP!MergePredecessorState, CPTheorems!MergePredecessorState
<1>5. CP!InterpretInst => CPTheorems!InterpretInst
  BY DEF CP!InterpretInst, CPTheorems!InterpretInst, CP!Interpreting, CPTheorems!Interpreting,
         Stops, FlowOrStop
<1>6. CP!Abort => CPTheorems!Abort
  BY DEF CP!Abort, CPTheorems!Abort, CP!Interpreting, CPTheorems!Interpreting, Stops
<1>7. CP!SetOutState => CPTheorems!SetOutState
  BY DEF CP!SetOutState, CPTheorems!SetOutState, CP!EnterBlock, CPTheorems!EnterBlock,
         CP!EmptyState, CPTheorems!EmptyState, CP!RoundChanged, CPTheorems!RoundChanged
<1>8. CP!Finish => CPTheorems!Finish
  BY DEF CP!Finish, CPTheorems!Finish, Rewrites
<1> QED
  BY <1>2, <1>3, <1>4, <1>5, <1>6, <1>7, <1>8
  DEF CP!Next, CPTheorems!Next, CP!vars, CPTheorems!vars, CP!Stopped, CPTheorems!Stopped

(* Its invariants are kept.                                                *)
LEMMA PropagationSolves ==
  ASSUME CPTheorems!TypeOK, CPTheorems!RoundInv, CP!Next
  PROVE  CPTheorems!TypeOK' /\ CPTheorems!RoundInv'
<1>1. CPTheorems!Next
  BY SamePropagation
<1>2. \A f \in AllFunctions : CPTheorems!WellFormed(f)
  BY AllWellFormed
<1>3. \A x, y \in Informed :
        /\ LeastUpperBound(x, y) \in Informed
        /\ Leq(x, LeastUpperBound(x, y))
        /\ Leq(y, LeastUpperBound(x, y))
  BY InformedLattice
<1>4. \A x, y, u \in Informed : Leq(x, u) /\ Leq(y, u) => Leq(LeastUpperBound(x, y), u)
  BY InformedLattice
<1>5. /\ \A x \in Informed : Leq(x, x)
      /\ \A x, y, z \in Informed : Leq(x, y) /\ Leq(y, z) => Leq(x, z)
  BY InformedLattice
<1>6. CPTheorems!TypeOK'
  BY <1>1, <1>2, <1>3, <1>4, <1>5, FlowOrStopReturns, CPTheorems!TypeOKInductive
<1>7. CPTheorems!RoundInv'
  BY <1>1, <1>2, <1>3, <1>4, <1>5, FlowOrStopReturns, CPTheorems!RoundInvInductive
<1> QED BY <1>6, <1>7

(* The same names are used and computed for both instances of ai_dce.      *)
LEMMA SameUses ==
  \A i : /\ DCE!Uses(i) = AllDCE!Uses(i) /\ DCE!Named(i) = AllDCE!Named(i)
         /\ DCE!Used = AllDCE!Used /\ DCE!Unused = AllDCE!Unused
<1>1. DCE!Unnamed = AllDCE!Unnamed
  BY Zenon DEF DCE!Unnamed, AllDCE!Unnamed
<1> QED BY <1>1 DEF DCE!Uses, AllDCE!Uses, DCE!Named, AllDCE!Named, DCE!Used, AllDCE!Used,
                    DCE!Unused, AllDCE!Unused, DCE!Operands, AllDCE!Operands

(* A step of ai_dce keeps the invariant of its own theorems.               *)
LEMMA EliminationRecords ==
  ASSUME AllDCE!RecordInv, DCE!Next
  PROVE  AllDCE!RecordInv'
<1>2. DCE!SetInitialStates => AllDCE!SetInitialStates
  BY DEF DCE!SetInitialStates, AllDCE!SetInitialStates, DCE!Blocks, AllDCE!Blocks,
         DCE!Points, AllDCE!Points, DCE!EmptyState, AllDCE!EmptyState
<1>3. DCE!StartRound => AllDCE!StartRound
  BY DEF DCE!StartRound, AllDCE!StartRound, DCE!EnterBlock, AllDCE!EnterBlock,
         DCE!EmptyState, AllDCE!EmptyState
<1>4. \A p : DCE!MergePredecessorState(p) => AllDCE!MergePredecessorState(p)
  BY DEF DCE!MergePredecessorState, AllDCE!MergePredecessorState,
         DCE!MergeStates, AllDCE!MergeStates, DCE!LeastUpperBound, AllDCE!LeastUpperBound
<1>5. DCE!InterpretInst => AllDCE!InterpretInst
  <2>1. \A i, s : DCE!FlowState(i, s) = AllDCE!FlowState(i, s) /\ (DCE!FlowAborts(i, s) <=> AllDCE!FlowAborts(i, s))
    BY SameUses DEF DCE!FlowState, AllDCE!FlowState, DCE!FlowAborts, AllDCE!FlowAborts,
                    DCE!Bottom, AllDCE!Bottom, DCE!Unnamed, AllDCE!Unnamed
  <2> QED BY <2>1 DEF DCE!InterpretInst, AllDCE!InterpretInst, DCE!Interpreting, AllDCE!Interpreting
<1>6. DCE!Abort => AllDCE!Abort
  BY Zenon DEF DCE!Abort, AllDCE!Abort, DCE!Interpreting, AllDCE!Interpreting,
         DCE!FlowAborts, AllDCE!FlowAborts, DCE!Bottom, AllDCE!Bottom, DCE!Unnamed, AllDCE!Unnamed
<1>7. DCE!SetOutState => AllDCE!SetOutState
  BY DEF DCE!SetOutState, AllDCE!SetOutState, DCE!EnterBlock, AllDCE!EnterBlock,
         DCE!EmptyState, AllDCE!EmptyState, DCE!RoundChanged, AllDCE!RoundChanged
<1>8. DCE!Finish => AllDCE!Finish
  <2>1. \A i, out : DCE!Erased(i, out) <=> AllDCE!Erased(i, out)
    BY DEF DCE!Erased, AllDCE!Erased, DCE!Unnamed, AllDCE!Unnamed,
           DCE!IsUnused, AllDCE!IsUnused, DCE!Unused, AllDCE!Unused,
           DCE!KnownAs, AllDCE!KnownAs, DCE!Leq, AllDCE!Leq
  <2>2. \A s, out : DCE!Remaining(s, out) = AllDCE!Remaining(s, out)
    BY Zenon, <2>1 DEF DCE!Remaining, AllDCE!Remaining
  <2>3. \A f, out, in : DCE!Postprocess(f, out, in) = AllDCE!Postprocess(f, out, in)
    BY <2>2 DEF DCE!Postprocess, AllDCE!Postprocess
  <2> QED BY <2>3 DEF DCE!Finish, AllDCE!Finish
<1>1. AllDCE!Next
  BY <1>2, <1>3, <1>4, <1>5, <1>6, <1>7, <1>8
  DEF DCE!Next, AllDCE!Next, DCE!vars, AllDCE!vars, DCE!Stopped, AllDCE!Stopped
<1> QED BY <1>1, AllWellFormed, AllDCE!RecordInvInductive

-----------------------------------------------------------------------------
(* From pass to pass the function agrees with the one opt was given. *)

\* func agrees with the function opt was given.
AgreeInv == \E e, E : Agree(source, func, e, E)

\* The states of ai_cp know nothing but what Suits the function opt was given.
SuitInv ==
  /\ phase \in {"round", "block"} =>
       /\ \A b \in 1 .. Len(func) : Suits(source, bb_state[b])
       /\ \A p \in CP!Points(func) : Suits(source, inst_state_in[p])
  /\ phase = "block" => Suits(source, cur_state)

\* The invariant of the passes: that of PipeInv, the agreement, and while a
\* pass runs what the theorems about its interpreter say of it.
StaticInv ==
  /\ source \in Functions /\ PipeInv /\ AgreeInv
  /\ Head(passes) = "ai_cp" => CPTheorems!TypeOK /\ CPTheorems!RoundInv /\ SuitInv
  /\ Head(passes) = "ai_dce" => AllDCE!RecordInv

(* The empty state suits every function.                                   *)
LEMMA SuitsEmpty ==
  ASSUME NEW f
  PROVE  Suits(f, CP!EmptyState)
BY DEF Suits, CP!EmptyState

(* mergeStates() of suiting states suits.                                  *)
LEMMA SuitsMerge ==
  ASSUME NEW f, NEW A, NEW B, Suits(f, A), Suits(f, B)
  PROVE  Suits(f, CP!MergeStates(A, B))
<1>1. LeastUpperBound(Any, Any) = Any
  BY LeastUpperBoundFacts, LeqIsPartialOrder, ElementsDiffer
<1>2. CP!LeastUpperBound(Any, Any) = Any
  BY <1>1, SameRules
<1> DEFINE M == CP!MergeStates(A, B)
<1>3. /\ DOMAIN M = DOMAIN A \cup DOMAIN B
      /\ \A n \in DOMAIN M : M[n] = IF n \notin DOMAIN B THEN A[n]
                                    ELSE IF n \notin DOMAIN A THEN B[n]
                                    ELSE CP!LeastUpperBound(A[n], B[n])
  BY DEF CP!MergeStates
<1> HIDE DEF M
<1>4. ASSUME NEW n \in DOMAIN M
      PROVE  /\ n # Unnamed
             /\ \/ M[n] = Any
                \/ n \in Stored(f)
                \/ \E o \in Insts(f) : o.op # "call" /\ o.name = n
  <2> DEFINE Named == n \in Stored(f) \/ \E o \in Insts(f) : o.op # "call" /\ o.name = n
  <2>1. n \in DOMAIN A => n # Unnamed /\ (A[n] = Any \/ Named)
    BY DEF Suits
  <2>2. n \in DOMAIN B => n # Unnamed /\ (B[n] = Any \/ Named)
    BY DEF Suits
  <2> HIDE DEF Named
  <2>3. n # Unnamed /\ (M[n] = Any \/ Named)
    BY <1>2, <1>3, <2>1, <2>2
  <2> QED BY <2>3 DEF Named
<1>5. Suits(f, M)
  BY <1>4 DEF Suits
<1> QED BY <1>5 DEF M

(* A name more, that of a variable, or of a register some other            *)
(* instruction than a call computes, or one of which nothing is known.     *)
LEMMA SuitsUpdate ==
  ASSUME NEW f, NEW s, Suits(f, s), NEW n, n # Unnamed, NEW x,
         x = Any \/ n \in Stored(f) \/ \E o \in Insts(f) : o.op # "call" /\ o.name = n
  PROVE  Suits(f, CP!Update(s, n, x))
<1>1. /\ DOMAIN CP!Update(s, n, x) = DOMAIN s \cup {n}
      /\ CP!Update(s, n, x)[n] = x
      /\ \A m \in DOMAIN s \ {n} : CP!Update(s, n, x)[m] = s[m]
  BY DEF CP!Update
<1> QED BY <1>1 DEF Suits

(* flowState() of a suiting state suits.                                   *)
LEMMA SuitsFlow ==
  ASSUME NEW f, IsFunction(f), IsVerified(f), NEW g, IsFunction(g), NEW e, NEW E, Agree(f, g, e, E),
         NEW b \in 1 .. Len(f), NEW l \in 1 .. Len(g[b].insts), NEW s, Suits(f, s)
  PROVE  Suits(f, CP!FlowState(g[b].insts[l], s))
<1> DEFINE i == g[b].insts[l]
           k == e[b][l]
           i0 == f[b].insts[k]
           t == CP!FlowState(i, s)
<1>1. Matches(f, b, k, i) /\ k \in 1 .. Len(f[b].insts)
  BY DEF Agree
<1>2. i0 \in Instructions /\ i0 \in Insts(f)
  BY <1>1, PlaceFacts
<1>v. /\ i0.op \notin {"store", "br", "ret", "call"} => i0.name # Unnamed
      /\ i0.op = "store" => IsPointer(f, i0.args[2])
  BY Zenon, <1>1, VerifiedFacts
<1>u. CP!Unnamed = Unnamed
  BY Zenon DEF CP!Unnamed, Unnamed
<1>6. t = CASE i.op = "store" -> CP!Update(s, i.args[2].name, CP!ElementOf(i.args[1], s))
            [] i.op = "phi" -> CP!Update(s, i.name, CP!PhiBound(i, s))
            [] i.op \in {"load", "sext"} -> CP!Update(s, i.name, CP!Known(i.args[1], s))
            [] i.op = "call" -> IF i.name = Unnamed THEN s ELSE CP!Update(s, i.name, CP!Any)
            [] i.op \in {"ret", "br"} -> s
            [] OTHER -> CP!Update(s, i.name, CP!Transfer(i.op, CP!ElementOf(i.args[1], s),
                                                               CP!ElementOf(i.args[2], s)))
  BY <1>u DEF CP!FlowState
<1> HIDE DEF i, k, i0, t
<1>3. i.op = i0.op /\ i.name = i0.name /\ Len(i.args) = Len(i0.args)
  BY <1>1 DEF Matches, i0
<1>4. CASE i.op = "store"
  <2>1. i0.op = "store" /\ Len(i0.args) = 2
    BY <1>2, <1>3, <1>4, InstructionFacts
  <2>2. i.args[2] = i0.args[2]
    <3>1. ~Replaces(f, b, k, 2, i.args[2])
      BY <2>1 DEF Replaces, i0
    <3>2. i.args[2] = f[b].insts[k].args[2] \/ Replaces(f, b, k, 2, i.args[2])
      BY <1>1, <2>1 DEF Matches, i0
    <3> QED BY <3>1, <3>2 DEF i0
  <2>3. i0.args[2].name \in Stored(f)
    BY <1>2, <2>1 DEF Stored
  <2>4. i0.args[2].name # Unnamed
    <3>1. ASSUME NEW o \in Insts(f), o.op = "alloca" PROVE o.name # Unnamed
      <4>1. PICK a \in 1 .. Len(f) : \E h \in 1 .. Len(f[a].insts) : o = f[a].insts[h]
        BY PlacesOfInsts
      <4>2. PICK h \in 1 .. Len(f[a].insts) : o = f[a].insts[h]
        BY <4>1
      <4> QED BY <3>1, <4>2, VerifiedFacts
    <3> QED BY SMTT(30), <1>v, <2>1, <3>1 DEF IsPointer
  <2>5. t = CP!Update(s, i.args[2].name, CP!ElementOf(i.args[1], s))
    BY <1>4, <1>6
  <2> QED BY <2>2, <2>3, <2>4, <2>5, SuitsUpdate DEF t, i
<1>5. CASE i.op = "call"
  <2>1. CASE i.name = Unnamed
    <3>1. t = s
      BY <1>5, <1>6, <2>1
    <3> QED BY <3>1 DEF t, i
  <2>2. CASE i.name # Unnamed
    <3>1. t = CP!Update(s, i.name, Any)
      BY <1>5, <1>6, <2>2, SameElements
    <3> QED BY <2>2, <3>1, SuitsUpdate DEF t, i
  <2> QED BY <2>1, <2>2
<1>7. CASE i.op \in {"ret", "br"}
  <2>1. t = s
    BY <1>6, <1>7
  <2> QED BY <2>1 DEF t, i
<1>8. CASE i.op \notin {"store", "call", "ret", "br"}
  <2>1. \E x : t = CP!Update(s, i.name, x)
    BY <1>6, <1>8
  <2>2. i.name # Unnamed /\ \E o \in Insts(f) : o.op # "call" /\ o.name = i.name
    BY <1>2, <1>3, <1>8, <1>v
  <2>3. PICK x : t = CP!Update(s, i.name, x)
    BY <2>1
  <2> QED BY <2>2, <2>3, SuitsUpdate DEF t, i
<1> QED BY <1>4, <1>5, <1>7, <1>8

(* What a state of the pipeline says of the function opt was given.        *)
LEMMA SourceFacts ==
  ASSUME StaticInv
  PROVE  IsFunction(source) /\ IsVerified(source) /\ IsFunction(func) /\ AgreeInv
BY FunctionsAssumption DEF StaticInv, PipeInv

(* A step of ai_cp that does not end it keeps its states suiting.          *)
LEMMA SuitStep ==
  ASSUME StaticInv, Head(passes) = "ai_cp", CP!Next, phase' # "done", UNCHANGED source
  PROVE  SuitInv'
<1>f. /\ IsFunction(source) /\ IsVerified(source) /\ IsFunction(func) /\ AgreeInv
      /\ Len(func) \in Nat \ {0}
      /\ \A b \in 1 .. Len(func) : func[b].preds \subseteq 1 .. Len(func)
  BY SourceFacts, FunctionFacts
<1>p. PipeInv /\ SuitInv
  BY DEF StaticInv
<1>0. \A f : Suits(f, CP!EmptyState)
  BY SuitsEmpty
<1>1. CASE CP!SetInitialStates
  BY <1>0, <1>1, <1>f DEF CP!SetInitialStates, CP!Blocks, SuitInv
<1>2. CASE CP!StartRound
  BY <1>0, <1>2, <1>p DEF CP!StartRound, CP!EnterBlock, SuitInv
<1>3. ASSUME NEW p \in pending, CP!MergePredecessorState(p)
      PROVE  SuitInv'
  <2>1. p \in 1 .. Len(func) /\ Suits(source, cur_state) /\ Suits(source, bb_state[p])
    BY <1>3, <1>f, <1>p DEF CP!MergePredecessorState, PipeInv, SuitInv
  <2>2. Suits(source, CP!MergeStates(cur_state, bb_state[p]))
    BY <2>1, SuitsMerge
  <2> QED BY <1>3, <1>p, <2>2 DEF CP!MergePredecessorState, SuitInv
<1>4. CASE CP!InterpretInst
  <2>1. /\ phase = "block" /\ cur_state' = CP!FlowState(func[blk].insts[idx], cur_state)
        /\ inst_state_in' = [inst_state_in EXCEPT ![<<blk, idx>>] = cur_state]
        /\ UNCHANGED <<func, phase, bb_state>>
        /\ idx <= Len(func[blk].insts)
    BY <1>4 DEF CP!InterpretInst, CP!Interpreting
  <2>2. blk \in 1 .. Len(func) /\ idx \in Nat \ {0} /\ DOMAIN inst_state_in = CP!Points(func)
    BY <1>p, <2>1 DEF PipeInv, StaticInv
  <2>3. idx \in 1 .. Len(func[blk].insts) /\ Suits(source, cur_state)
    BY <1>f, <1>p, <2>1, <2>2, FunctionFacts DEF SuitInv
  <2>4. PICK e, E : Agree(source, func, e, E)
    BY <1>f DEF AgreeInv
  <2>5. blk \in 1 .. Len(source)
    BY <2>2, <2>4 DEF Agree
  <2>6. Suits(source, CP!FlowState(func[blk].insts[idx], cur_state))
    BY <1>f, <2>3, <2>4, <2>5, SuitsFlow
  <2>7. \A p \in CP!Points(func) : Suits(source, inst_state_in'[p])
    BY <1>p, <2>1, <2>2, <2>3 DEF SuitInv
  <2> QED BY <1>p, <2>1, <2>6, <2>7 DEF SuitInv
<1>5. CASE CP!Abort
  BY <1>5 DEF CP!Abort, SuitInv
<1>6. CASE CP!SetOutState
  <2>1. /\ phase = "block" /\ blk \in 1 .. Len(func) /\ Suits(source, cur_state)
        /\ bb_state' = [bb_state EXCEPT ![blk] = cur_state]
        /\ DOMAIN bb_state = 1 .. Len(func)
        /\ UNCHANGED <<func, inst_state_in>>
        /\ cur_state' \in {cur_state, CP!EmptyState}
    BY <1>6, <1>p DEF CP!SetOutState, CP!EnterBlock, PipeInv, SuitInv, StaticInv
  <2>2. \A b \in 1 .. Len(func) : Suits(source, bb_state'[b])
    BY <1>p, <2>1 DEF SuitInv
  <2>3. Suits(source, cur_state')
    BY <1>0, <2>1
  <2> QED BY <1>p, <2>1, <2>2, <2>3 DEF SuitInv
<1>7. CASE CP!Stopped
  BY <1>7, <1>p DEF CP!Stopped, CP!vars, SuitInv
<1>8. ~CP!Finish
  BY DEF CP!Finish
<1> QED BY <1>1, <1>2, <1>3, <1>4, <1>5, <1>6, <1>7, <1>8 DEF CP!Next

(* The states with which ai_cp ends solve the equations.                   *)
LEMMA EndsInSolution ==
  ASSUME StaticInv, Head(passes) = "ai_cp", phase = "round", ~changed
  PROVE  IsSolution(source, func, inst_state_in)
<1>1. PipeInv /\ SuitInv /\ CPTheorems!TypeOK /\ CPTheorems!RoundInv
  BY DEF StaticInv
<1>2. /\ IsFunction(func) /\ Len(func) \in Nat
      /\ \A b \in 1 .. Len(func) : Len(func[b].insts) \in Nat /\ func[b].preds \subseteq 1 .. Len(func)
  BY FunctionFacts DEF StaticInv, PipeInv
<1>3. func \in AllFunctions
  BY <1>1 DEF CPTheorems!TypeOK
<1>n. \A b \in 1 .. Len(func) : func[b].insts # <<>>
  <2> DEFINE S == [insts : Seq(Instructions) \ {<<>>}, preds : SUBSET Nat]
  <2>1. func \in Seq(S)
    BY <1>3 DEF AllFunctions
  <2>2. \A b \in 1 .. Len(func) : func[b] \in S
    <3> HIDE DEF S
    <3> QED BY <2>1
  <2> QED BY <2>2
<1>4. \A b \in 1 .. Len(func) : Len(func[b].insts) \in Nat \ {0}
  <2>1. \A b \in 1 .. Len(func) : func[b].insts \in Seq(Instructions)
    BY <1>2, FunctionFacts
  <2> QED BY <1>n, <2>1
<1>5. /\ bb_state \in [1 .. Len(func) -> States]
      /\ inst_state_in \in [CP!Points(func) -> States]
  <2>1. CPTheorems!Points(func) = CP!Points(func) /\ CPTheorems!Blocks(func) = 1 .. Len(func)
    BY DEF CPTheorems!Points, CPTheorems!Blocks, CP!Points, CP!Blocks
  <2> QED BY <1>1, <2>1, SameStates DEF CPTheorems!TypeOK
<1>6. ASSUME NEW b \in 1 .. Len(func)
      PROVE  /\ b # 1 => \A p \in func[b].preds : CP!StateLeq(bb_state[p], inst_state_in[<<b, 1>>])
             /\ \A k \in 1 .. Len(func[b].insts) - 1 :
                  inst_state_in[<<b, k + 1>>] = FlowOrStop(func[b].insts[k], inst_state_in[<<b, k>>])
             /\ bb_state[b] = FlowOrStop(func[b].insts[Len(func[b].insts)],
                                         inst_state_in[<<b, Len(func[b].insts)>>])
  <2>1. CPTheorems!Solves(b)
    BY <1>1 DEF CPTheorems!RoundInv, CPTheorems!FixedPoint, CPTheorems!Blocks
  <2>2. \A A, B : CPTheorems!StateLeq(A, B) <=> CP!StateLeq(A, B)
    BY SameOrder DEF CPTheorems!StateLeq, CP!StateLeq
  <2> QED BY <2>1, <2>2 DEF CPTheorems!Solves
<1>7. ASSUME NEW b \in 1 .. Len(func), NEW l \in 1 .. Len(func[b].insts)
      PROVE  /\ ~CP!FlowAborts(func[b].insts[l], inst_state_in[<<b, l>>])
             /\ FlowOrStop(func[b].insts[l], inst_state_in[<<b, l>>])
                  = CP!FlowState(func[b].insts[l], inst_state_in[<<b, l>>])
             /\ <<b, l>> \in CP!Points(func)
  <2>1. FlowOrStop(func[b].insts[l], inst_state_in[<<b, l>>]) \in States
    <3>1. CASE l = Len(func[b].insts)
      BY <1>5, <1>6, <3>1
    <3>2. CASE l # Len(func[b].insts)
      <4>1. l \in 1 .. Len(func[b].insts) - 1 /\ l + 1 \in 1 .. Len(func[b].insts)
        BY <1>4, <3>2
      <4>2. <<b, l + 1>> \in CP!Points(func)
        BY <4>1 DEF CP!Points, CP!Blocks
      <4>3. inst_state_in[<<b, l + 1>>] \in States
        BY <1>5, <4>2
      <4> QED BY <1>6, <4>1, <4>3
    <3> QED BY <3>1, <3>2
  <2>2. ~CP!FlowAborts(func[b].insts[l], inst_state_in[<<b, l>>])
    BY <2>1, StopFacts DEF FlowOrStop
  <2> QED BY <2>2 DEF FlowOrStop, CP!Points, CP!Blocks
<1>8. ASSUME NEW b \in 1 .. Len(func)
      PROVE  /\ \A l \in 1 .. Len(func[b].insts) :
                  /\ IsInformed(inst_state_in[<<b, l>>]) /\ Suits(source, inst_state_in[<<b, l>>])
                  /\ ~CP!FlowAborts(func[b].insts[l], inst_state_in[<<b, l>>])
                  /\ l < Len(func[b].insts) =>
                       inst_state_in[<<b, l + 1>>] = CP!FlowState(func[b].insts[l], inst_state_in[<<b, l>>])
             /\ b # 1 => \A p \in func[b].preds :
                  LET n == Len(func[p].insts) IN
                  CP!StateLeq(CP!FlowState(func[p].insts[n], inst_state_in[<<p, n>>]),
                              inst_state_in[<<b, 1>>])
  <2>1. ASSUME NEW l \in 1 .. Len(func[b].insts)
        PROVE  /\ IsInformed(inst_state_in[<<b, l>>]) /\ Suits(source, inst_state_in[<<b, l>>])
               /\ ~CP!FlowAborts(func[b].insts[l], inst_state_in[<<b, l>>])
               /\ l < Len(func[b].insts) =>
                    inst_state_in[<<b, l + 1>>] = CP!FlowState(func[b].insts[l], inst_state_in[<<b, l>>])
    <3>1. <<b, l>> \in CP!Points(func)
      BY <1>7
    <3>2. IsInformed(inst_state_in[<<b, l>>]) /\ Suits(source, inst_state_in[<<b, l>>])
      BY <1>1, <3>1 DEF PipeInv, SuitInv
    <3>3. l < Len(func[b].insts) => l \in 1 .. Len(func[b].insts) - 1
      BY <1>4
    <3> QED BY <1>6, <1>7, <3>2, <3>3
  <2>2. ASSUME b # 1, NEW p \in func[b].preds
        PROVE  LET n == Len(func[p].insts) IN
               CP!StateLeq(CP!FlowState(func[p].insts[n], inst_state_in[<<p, n>>]),
                           inst_state_in[<<b, 1>>])
    <3>1. p \in 1 .. Len(func) /\ Len(func[p].insts) \in 1 .. Len(func[p].insts)
      BY <1>2, <1>4
    <3> QED BY <1>6, <1>7, <2>2, <3>1
  <2> QED BY <2>1, <2>2
<1> QED BY <1>8 DEF IsSolution

(* Where a pass starts, with a function that agrees with source.           *)
LEMMA FreshPass ==
  source \in Functions /\ PipeInv /\ AgreeInv /\ phase = "start" /\ changed = FALSE => StaticInv
<1> SUFFICES ASSUME source \in Functions, PipeInv, AgreeInv, phase = "start", changed = FALSE
             PROVE  StaticInv
  OBVIOUS
<1>1. /\ IsFunction(source) /\ IsVerified(source) /\ IsFunction(func)
  BY FunctionsAssumption DEF PipeInv
<1>2. PICK e, E : Agree(source, func, e, E)
  BY DEF AgreeInv
<1>3. Len(func) = Len(source)
  BY <1>2 DEF Agree
<1>4. \A b \in 1 .. Len(func) : func[b].insts # <<>>
  <2> TAKE b \in 1 .. Len(func)
  <2>1. Len(func[b].insts) \in Nat \ {0}
    BY <1>1, <1>2, <1>3, LastKept
  <2> QED BY <2>1
<1>5. func \in AllFunctions
  BY <1>1, <1>4, AllFunctionsFacts
<1>6. CPTheorems!TypeOK /\ CPTheorems!RoundInv
  BY <1>5 DEF CPTheorems!TypeOK, CPTheorems!RoundInv, CPTheorems!FixedPoint
<1>7. AllDCE!RecordInv
  BY <1>5 DEF AllDCE!RecordInv
<1>8. SuitInv
  BY DEF SuitInv
<1> QED BY <1>6, <1>7, <1>8 DEF StaticInv

(* A function agrees with itself.                                          *)
LEMMA AgreesWithItself ==
  ASSUME NEW f, IsFunction(f)
  PROVE  \E e, E : Agree(f, f, e, E)
<1> DEFINE e == [b \in 1 .. Len(f) |-> [k \in 1 .. Len(f[b].insts) |-> k]]
<1>1. \A b \in 1 .. Len(f) : \A k \in 1 .. Len(f[b].insts) : e[b][k] = k
  OBVIOUS
<1> HIDE DEF e
<1>2. ASSUME NEW b \in 1 .. Len(f)
      PROVE  /\ \A k \in 1 .. Len(f[b].insts) : Matches(f, b, k, f[b].insts[k])
             /\ \A k \in 1 .. Len(f[b].insts) : ~Dropped(f, e, b, k)
  BY <1>1 DEF Matches, Dropped
<1>3. \A b \in 1 .. Len(f) : Len(f[b].insts) \in Nat
  BY FunctionFacts
<1>4. ASSUME NEW b \in 1 .. Len(f)
      PROVE  /\ \A l \in 1 .. Len(f[b].insts) :
                  e[b][l] \in 1 .. Len(f[b].insts) /\ Matches(f, b, e[b][l], f[b].insts[l])
             /\ \A l, h \in 1 .. Len(f[b].insts) : l < h => e[b][l] < e[b][h]
  BY <1>1, <1>2
<1>5. Agree(f, f, e, {})
  BY <1>2, <1>4 DEF Agree
<1> QED BY <1>5

(* The invariant of the passes holds when opt is called.                   *)
LEMMA StaticInit ==
  ASSUME Init
  PROVE  StaticInv
<1>1. source \in Functions /\ source = func /\ phase = "start" /\ changed = FALSE
  BY DEF Init, CP!Init
<1>2. IsFunction(func)
  BY <1>1, FunctionsAssumption
<1>3. PipeInv
  BY <1>1, <1>2 DEF PipeInv, AbortsForACause
<1>4. AgreeInv
  BY <1>1, <1>2, AgreesWithItself DEF AgreeInv
<1> QED BY <1>1, <1>3, <1>4, FreshPass

(* What ai_dce erases is not read.                                         *)
LEMMA ErasesUnread ==
  ASSUME AllDCE!RecordInv, phase = "round", ~changed
  PROVE  \A i \in Insts(func) : DCE!Erased(i, bb_state) =>
           /\ i.op \notin {"store", "phi", "call", "ret"} /\ i.name # Unnamed
           /\ i.name \notin DCE!Mentioned(func)
<1>1. AllDCE!ErasesTheUnused
  BY AllWellFormed, AllDCE!RecordsTellTheUnused
<1>u. AllDCE!Unnamed = Unnamed
  BY Zenon DEF AllDCE!Unnamed, Unnamed
<1>2. AllDCE!Insts(func) = Insts(func)
  BY DEF AllDCE!Insts, Insts
<1>3. \A i : AllDCE!Operands(i) = DCE!Operands(i)
  BY DEF AllDCE!Operands, DCE!Operands
<1>4. DCE!Insts(func) = AllDCE!Insts(func)
  BY DEF AllDCE!Insts, DCE!Insts
<1>5. AllDCE!Mentioned(func) = DCE!Mentioned(func)
  BY <1>3, <1>4 DEF AllDCE!Mentioned, DCE!Mentioned
<1>6. \A i : DCE!Erased(i, bb_state) <=> AllDCE!Erased(i, bb_state)
  BY DEF DCE!Erased, AllDCE!Erased, DCE!Unnamed, AllDCE!Unnamed,
         DCE!IsUnused, AllDCE!IsUnused, DCE!Unused, AllDCE!Unused,
         DCE!KnownAs, AllDCE!KnownAs, DCE!Leq, AllDCE!Leq
<1> QED BY <1>1, <1>2, <1>5, <1>6, <1>u DEF AllDCE!ErasesTheUnused

(* A step of a pass keeps the agreement.                                   *)
LEMMA PassAgrees ==
  ASSUME StaticInv, RunPass
  PROVE  AgreeInv'
<1>1. /\ IsFunction(source) /\ IsVerified(source) /\ IsFunction(func) /\ AgreeInv
      /\ source' = source
  BY SourceFacts DEF RunPass
<1>2. PICK e, E : Agree(source, func, e, E)
  BY <1>1 DEF AgreeInv
<1>3. CASE func' = func
  BY <1>1, <1>2, <1>3 DEF AgreeInv
<1>4. CASE Head(passes) = "ai_cp" /\ CP!Finish
  <2>1. IsSolution(source, func, inst_state_in)
    BY <1>4, EndsInSolution DEF CP!Finish
  <2>2. PICK h : h = CP!Postprocess(func, bb_state, inst_state_in)
    OBVIOUS
  <2>3. Agree(source, h, e, E)
    BY <1>1, <1>2, <2>1, <2>2, PropagatedAgrees
  <2>4. func' = h
    BY <1>4, <2>2 DEF CP!Finish
  <2> QED BY <1>1, <2>3, <2>4 DEF AgreeInv
<1>5. CASE Head(passes) = "ai_dce" /\ DCE!Finish
  <2>1. AllDCE!RecordInv /\ phase = "round" /\ ~changed
    BY <1>5 DEF DCE!Finish, StaticInv
  <2>2. PICK h : h = DCE!Postprocess(func, bb_state, inst_state_in)
    OBVIOUS
  <2>3. \A i \in Insts(func) : DCE!Erased(i, bb_state) =>
           /\ i.op \notin {"store", "phi", "call", "ret"} /\ i.name # Unnamed
           /\ i.name \notin DCE!Mentioned(func)
    BY <2>1, ErasesUnread
  <2>4. \E e1, E1 : Agree(source, h, e1, E1)
    BY <1>1, <1>2, <2>2, <2>3, EliminatedAgrees
  <2>5. func' = h
    BY <1>5, <2>2 DEF DCE!Finish
  <2> QED BY <1>1, <2>4, <2>5 DEF AgreeInv
<1>6. CP!Next => func' = func \/ CP!Finish
  BY DEF CP!Next, CP!SetInitialStates, CP!StartRound, CP!MergePredecessorState,
         CP!InterpretInst, CP!Abort, CP!SetOutState, CP!Stopped, CP!vars
<1>7. DCE!Next => func' = func \/ DCE!Finish
  BY DEF DCE!Next, DCE!SetInitialStates, DCE!StartRound, DCE!MergePredecessorState,
         DCE!InterpretInst, DCE!Abort, DCE!SetOutState, DCE!Stopped, DCE!vars
<1> QED BY <1>3, <1>4, <1>5, <1>6, <1>7 DEF RunPass

(* It is kept by every step.                                               *)
LEMMA StaticInductive ==
  ASSUME StaticInv, [Next]_pipeVars
  PROVE  StaticInv'
<1>1. PipeInv'
  BY PipeInvInductive DEF StaticInv
<1>2. CASE RunPass
  <2>1. source' = source /\ passes' = passes
    BY <1>2 DEF RunPass
  <2>2. AgreeInv'
    BY <1>2, PassAgrees
  <2>3. ASSUME Head(passes) = "ai_cp", CP!Next PROVE CPTheorems!TypeOK' /\ CPTheorems!RoundInv' /\ SuitInv'
    <3>1. CPTheorems!TypeOK' /\ CPTheorems!RoundInv'
      BY <2>3, PropagationSolves DEF StaticInv
    <3>2. CASE phase' # "done"
      BY <2>1, <2>3, <3>1, <3>2, SuitStep
    <3>3. CASE phase' = "done"
      BY <3>1, <3>3 DEF SuitInv
    <3> QED BY <3>1, <3>2, <3>3
  <2>4. ASSUME Head(passes) = "ai_dce", DCE!Next PROVE AllDCE!RecordInv'
    BY <2>4, EliminationRecords DEF StaticInv
  <2>5. \/ Head(passes) = "ai_cp" /\ CP!Next
        \/ Head(passes) = "ai_dce" /\ DCE!Next
    BY <1>2 DEF RunPass
  <2>6. source \in Functions
    BY DEF StaticInv
  <2> QED BY <1>1, <2>1, <2>2, <2>3, <2>4, <2>5, <2>6 DEF StaticInv
<1>3. CASE NextPass
  <2>1. (source \in Functions)' /\ AgreeInv' /\ phase' = "start" /\ changed' = FALSE
    BY <1>3 DEF NextPass, StaticInv, AgreeInv
  <2>2. (source \in Functions /\ PipeInv /\ AgreeInv /\ phase = "start" /\ changed = FALSE)' => StaticInv'
    BY FreshPass, PTL
  <2> QED BY <1>1, <2>1, <2>2
<1>4. CASE UNCHANGED <<interpreterVars, source, passes>>
  <2>1. UNCHANGED <<func, phase, bb_state, inst_state_in, changed, blk, idx, pending, cur_state, source, passes>>
    BY <1>4 DEF interpreterVars
  <2>2. AgreeInv' /\ (source \in Functions)'
    BY <2>1 DEF AgreeInv, StaticInv
  <2>3. CPTheorems!TypeOK => CPTheorems!TypeOK'
    BY <2>1 DEF CPTheorems!TypeOK
  <2>4. CPTheorems!RoundInv => CPTheorems!RoundInv'
    BY <2>1 DEF CPTheorems!RoundInv, CPTheorems!FixedPoint, CPTheorems!Underway, CPTheorems!InState, CPTheorems!Solves
  <2>5. SuitInv => SuitInv'
    BY <2>1 DEF SuitInv
  <2>6. AllDCE!RecordInv => AllDCE!RecordInv'
    BY <2>1 DEF AllDCE!RecordInv, AllDCE!Recorded, AllDCE!Quiet
  <2> QED BY <1>1, <2>1, <2>2, <2>3, <2>4, <2>5, <2>6 DEF StaticInv
<1>5. CASE RunBefore \/ RunAfter \/ \E input \in Value, effect \in Effects : RunBoth(input, effect)
  BY <1>4, <1>5 DEF RunBefore, RunAfter, RunBoth
<1>6. CASE UNCHANGED pipeVars
  BY SMTT(30), <1>4, <1>6 DEF pipeVars
<1> QED BY <1>2, <1>3, <1>5, <1>6 DEF Next

-----------------------------------------------------------------------------
(* Where the function before the passes and what they have left of it are  *)
(* at the same instruction, they do the same.                              *)

\* Machines m and a are in the same block, and hold the same, but for E.
Synced(E, m, a) ==
  /\ DOMAIN a = Fields /\ a.blk = m.blk /\ a.from = m.from /\ a.arg = m.arg
  /\ DOMAIN a.mem = DOMAIN m.mem /\ \A n \in DOMAIN m.mem : a.mem[n] = m.mem[n]
  /\ DOMAIN a.reg \ E = DOMAIN m.reg \ E /\ \A n \in DOMAIN m.reg \ E : a.reg[n] = m.reg[n]
  /\ DOMAIN a.old \ E = DOMAIN m.old \ E /\ \A n \in DOMAIN m.old \ E : a.old[n] = m.old[n]

\* f is at instruction k of block b in configuration c, and machine a before what
\* the passes have left of it, which is i.
AtSame(f, E, b, k, c, i, a) ==
  /\ Good(f, c) /\ ReachedAt(f, b, k, c) /\ Synced(E, c.m, a)
  /\ i \in Instructions /\ Matches(f, b, k, i)
  /\ \A j \in 1 .. Len(i.args) : i.args[j].kind = "register" => i.args[j].name \notin E

(* What AtSame says of the instruction and of what is left of it.          *)
LEMMA SameFacts ==
  ASSUME NEW f, IsFunction(f), NEW E, NEW b, NEW k, NEW c, NEW i, NEW a, AtSame(f, E, b, k, c, i, a)
  PROVE  LET i0 == Current(f, c.m) IN
         /\ i0 = f[b].insts[k] /\ i0 \in Instructions /\ i0 \in Insts(f)
         /\ b \in 1 .. Len(f) /\ k \in 1 .. Len(f[b].insts)
         /\ Understood(f, c) /\ Defined(i0, c.m) /\ ~Misjudges(f, c.own, i0, c.m)
         /\ i.op = i0.op /\ i.name = i0.name /\ Len(i.args) = Len(i0.args) /\ i.from = i0.from
         /\ \A j \in 1 .. Len(i.args) : i.args[j] = i0.args[j] \/ Replaces(f, b, k, j, i.args[j])
         /\ \A j \in 1 .. Len(i.args) : i0.args[j].kind \notin {"register", "function"} => i.args[j] = i0.args[j]
         /\ i.op \in {"load", "store", "phi", "alloca"} =>
              \A j \in 1 .. Len(i.args) : i.args[j] = i0.args[j]
<1> DEFINE i0 == Current(f, c.m)
<1>1. /\ i0 = f[b].insts[k] /\ i0 \in Instructions /\ i0 \in Insts(f)
      /\ b \in 1 .. Len(f) /\ k \in 1 .. Len(f[b].insts)
      /\ Understood(f, c) /\ Defined(i0, c.m) /\ ~Misjudges(f, c.own, i0, c.m)
  BY CurrentFacts DEF AtSame, ReachedAt, Understood, Good
<1> HIDE DEF i0
<1>2. /\ i.op = i0.op /\ i.name = i0.name /\ Len(i.args) = Len(i0.args) /\ i.from = i0.from
      /\ \A j \in 1 .. Len(i0.args) :
           i.args[j] = i0.args[j] \/ Replaces(f, b, k, j, i.args[j])
  BY <1>1 DEF AtSame, Matches
<1>3. ASSUME i.op \in {"load", "store", "phi", "alloca"}, NEW j \in 1 .. Len(i.args)
      PROVE  i.args[j] = i0.args[j]
  BY <1>1, <1>2, <1>3 DEF Replaces
<1>4. ASSUME NEW j \in 1 .. Len(i.args), i0.args[j].kind \notin {"register", "function"}
      PROVE  i.args[j] = i0.args[j]
  BY <1>1, <1>2, <1>4 DEF Replaces
<1> QED BY <1>1, <1>2, <1>3, <1>4 DEF i0

(* They read the same.                                                     *)
LEMMA ReadingSame ==
  ASSUME NEW E, NEW m, NEW a, Synced(E, m, a), DOMAIN m = Fields, NEW i, NEW i0, i.op = i0.op
  PROVE  LET r == Reading(i, a)
             r0 == Reading(i0, m)
         IN  /\ r.arg = r0.arg
             /\ DOMAIN r.reg \ E = DOMAIN r0.reg \ E
             /\ \A n \in DOMAIN r0.reg \ E : r.reg[n] = r0.reg[n]
<1>1. CASE i.op = "phi"
  <2>1. Reading(i, a) = [a EXCEPT !.reg = a.old] /\ Reading(i0, m) = [m EXCEPT !.reg = m.old]
    BY <1>1 DEF Reading
  <2>2. /\ Reading(i, a).reg = a.old /\ Reading(i, a).arg = a.arg
        /\ Reading(i0, m).reg = m.old /\ Reading(i0, m).arg = m.arg
    BY <2>1 DEF Synced, Fields
  <2> QED BY <2>2 DEF Synced
<1>2. CASE i.op # "phi"
  <2>1. Reading(i, a) = a /\ Reading(i0, m) = m
    BY <1>2 DEF Reading
  <2> QED BY <2>1 DEF Synced
<1> QED BY <1>1, <1>2

(* An operand is worth the same, or a constant is in its place that        *)
(* Stands for it.                                                          *)
LEMMA OperandSame ==
  ASSUME NEW f, IsFunction(f), NEW E, NEW b, NEW k, NEW c, NEW i, NEW a, AtSame(f, E, b, k, c, i, a),
         NEW j \in 1 .. Len(i.args),
         IsValue(Current(f, c.m).args[j]), Current(f, c.m).args[j] \in Reads(Current(f, c.m), c.m)
  PROVE  Stands(Current(f, c.m), j, ValueOf(i.args[j], Reading(i, a)),
                ValueOf(Current(f, c.m).args[j], Reading(Current(f, c.m), c.m)))
<1> DEFINE i0 == Current(f, c.m)
           x == i0.args[j]
           y == i.args[j]
           r == Reading(i, a)
           r0 == Reading(i0, c.m)
<1>1. /\ i0 = f[b].insts[k] /\ i0 \in Instructions /\ i0 \in Insts(f) /\ i.op = i0.op
      /\ Defined(i0, c.m) /\ Len(i.args) = Len(i0.args)
      /\ y = x \/ Replaces(f, b, k, j, y)
  BY SameFacts
<1>r. /\ r.arg = r0.arg
      /\ DOMAIN r.reg \ E = DOMAIN r0.reg \ E
      /\ \A n \in DOMAIN r0.reg \ E : r.reg[n] = r0.reg[n]
  <2>1. Synced(E, c.m, a) /\ DOMAIN c.m = Fields /\ i.op = i0.op
    BY <1>1 DEF AtSame, Good
  <2> HIDE DEF i0
  <2>2. LET ra == Reading(i, a)
            rm == Reading(i0, c.m)
        IN  /\ ra.arg = rm.arg
            /\ DOMAIN ra.reg \ E = DOMAIN rm.reg \ E
            /\ \A n \in DOMAIN rm.reg \ E : ra.reg[n] = rm.reg[n]
    BY <2>1, ReadingSame
  <2> QED BY <2>2
<1>2. Good(f, c) /\ Synced(E, c.m, a) /\ (y.kind = "register" => y.name \notin E)
  BY DEF AtSame
<1>3. HasValue(x, r0)
  <2> HIDE DEF i0
  <2>1. j \in 1 .. Len(i0.args) /\ i0.args[j] \in Reads(i0, c.m) /\ IsValue(i0.args[j])
    BY <1>1 DEF i0
  <2> QED BY <1>1, <1>2, <2>1, OperandValue, Zenon
<1> SUFFICES Stands(i0, j, ValueOf(y, r), ValueOf(x, r0))
  OBVIOUS
<1>c. Reading(i0, c.m) = c.m \/ i0.op = "phi"
  BY DEF Reading
<1> HIDE DEF i0, x, y, r
<1>4. CASE y = x /\ x.kind = "register"
  <2> HIDE DEF r0
  <2>1. x.name \in DOMAIN r0.reg \ E /\ ValueOf(x, r0) = r0.reg[x.name]
    BY <1>2, <1>3, <1>4 DEF HasValue
  <2>2. ValueOf(x, r) = r.reg[x.name]
    BY <1>4 DEF ValueOf
  <2>3. ValueOf(x, r) = ValueOf(x, r0)
    BY <1>r, <2>1, <2>2
  <2> QED BY <1>4, <2>3 DEF Stands
<1>5. CASE y = x /\ x.kind \in {"const", "argument"}
  <2> HIDE DEF r0
  <2>1. ValueOf(x, r) = ValueOf(x, r0)
    BY <1>5, <1>r DEF ValueOf
  <2> QED BY <1>5, <2>1 DEF Stands
<1>6. CASE Replaces(f, b, k, j, y)
  <2>1. x.kind # "function"
    BY <1>3 DEF HasValue
  <2>2. PICK w \in Value : y = Const(w)
    BY <1>6 DEF Replaces
  <2>3. Stands(i0, j, y.value, ValueOf(x, r0))
    <3>1. ReachedAt(f, b, k, c)
      BY DEF AtSame
    <3>2. i0.op # "phi"
      BY Zenon, <1>1, <1>6 DEF Replaces
    <3>3. r0 = c.m
      BY <1>c, <3>2
    <3> HIDE DEF r0
    <3> QED BY Zenon, <1>1, <1>6, <2>1, <3>1, <3>3 DEF Replaces, x
  <2>4. ValueOf(y, r) = y.value
    BY <2>2 DEF ValueOf, Const
  <2> QED BY <2>3, <2>4
<1> QED BY <1>1, <1>3, <1>4, <1>5, <1>6 DEF HasValue

(* Where it is not only asked whether it is 0, it is worth the same.       *)
LEMMA SameValue ==
  ASSUME NEW f, IsFunction(f), NEW E, NEW b, NEW k, NEW c, NEW i, NEW a, AtSame(f, E, b, k, c, i, a),
         NEW j \in 1 .. Len(i.args), i.op # "phi", IsValue(Current(f, c.m).args[j]),
         i.op # "ne" \/ j # 1 \/ Current(f, c.m).args[2] # Const(0)
  PROVE  ValueOf(i.args[j], a) = ValueOf(Current(f, c.m).args[j], c.m)
<1> DEFINE i0 == Current(f, c.m)
<1>1. i0 \in Instructions /\ i.op = i0.op /\ Len(i.args) = Len(i0.args)
  BY SameFacts
<1>2. i0.args[j] \in Reads(i0, c.m)
  <2> HIDE DEF i0
  <2> QED BY <1>1, AllRead
<1>3. Stands(i0, j, ValueOf(i.args[j], Reading(i, a)), ValueOf(i0.args[j], Reading(i0, c.m)))
  BY <1>2, OperandSame
<1>4. Reading(i, a) = a /\ Reading(i0, c.m) = c.m
  BY <1>1 DEF Reading
<1> QED BY <1>1, <1>3, <1>4 DEF Stands

(* A load reads the same.                                                  *)
LEMMA SameLoad ==
  ASSUME NEW f, IsFunction(f), NEW E, NEW b, NEW k, NEW c, NEW i, NEW a, AtSame(f, E, b, k, c, i, a),
         i.op = "load"
  PROVE  LoadFrom(i.args[1], a) = LoadFrom(Current(f, c.m).args[1], c.m)
<1>1. i.op = "load" => i.args[1] = Current(f, c.m).args[1]
  <2>1. Len(i.args) = 1
    BY InstructionFacts DEF AtSame
  <2> QED BY <2>1, SameFacts
<1>2. DOMAIN a.mem = DOMAIN c.m.mem /\ \A n \in DOMAIN c.m.mem : a.mem[n] = c.m.mem[n]
  BY DEF AtSame, Synced
<1> QED BY <1>1, <1>2 DEF LoadFrom

(* A phi takes the same.                                                   *)
LEMMA SamePhi ==
  ASSUME NEW f, IsFunction(f), IsVerified(f), NEW E, NEW b, NEW k, NEW c, NEW i, NEW a,
         AtSame(f, E, b, k, c, i, a), i.op = "phi"
  PROVE  ValueOf(IncomingOf(i, a), Reading(i, a))
           = ValueOf(IncomingOf(Current(f, c.m), c.m), Reading(Current(f, c.m), c.m))
<1> DEFINE i0 == Current(f, c.m)
<1>1. /\ i0 = f[b].insts[k] /\ i0 \in Instructions /\ b \in 1 .. Len(f) /\ k \in 1 .. Len(f[b].insts)
      /\ i0.op = "phi" /\ Len(i.args) = Len(i0.args) /\ Defined(i0, c.m) /\ i.from = i0.from
      /\ \A j \in 1 .. Len(i.args) : i.args[j] = i0.args[j]
  BY SameFacts
<1>2. Len(i0.from) = Len(i0.args) /\ \A j \in 1 .. Len(i0.args) : IsValue(i0.args[j])
  <2>1. /\ f[b].insts[k].op = "phi" => Len(f[b].insts[k].from) = Len(f[b].insts[k].args)
        /\ f[b].insts[k].op \notin {"load", "store", "br", "call", "sext"} =>
             \A j \in 1 .. Len(f[b].insts[k].args) : IsValue(f[b].insts[k].args[j])
    BY Zenon, <1>1, VerifiedFacts
  <2> HIDE DEF i0
  <2> QED BY <1>1, <2>1
<1>s. Synced(E, c.m, a)
  BY DEF AtSame
<1> HIDE DEF i0
<1>3. /\ \E j \in 1 .. Len(i0.args) : IncomingOf(i0, c.m) = i0.args[j]
      /\ IncomingOf(i0, c.m) \in Reads(i0, c.m)
  BY <1>1, <1>2, IncomingFacts
<1>4. PICK j \in 1 .. Len(i0.args) : IncomingOf(i0, c.m) = i0.args[j]
  BY <1>3
<1>5. IncomingOf(i, a) = i0.args[j]
  <2>1. a.from = c.m.from
    BY <1>s DEF Synced
  <2>2. DOMAIN i0.from = 1 .. Len(i0.args)
    <3>1. i0.from \in Seq(Nat)
      BY <1>1, InstructionFacts
    <3> QED BY <1>2, <3>1
  <2> DEFINE q == CHOOSE q \in DOMAIN i0.from : i0.from[q] = c.m.from
  <2>3. IncomingOf(i0, c.m) = i0.args[q] /\ IncomingOf(i, a) = i.args[q]
    BY <1>1, <2>1 DEF IncomingOf
  <2>4. q \in 1 .. Len(i0.args)
    <3>1. Reads(i0, c.m) = {i0.args[h] : h \in {z \in DOMAIN i0.from : i0.from[z] = c.m.from}} /\ Reads(i0, c.m) # {}
      BY <1>1 DEF Reads, Defined
    <3>2. \E z \in DOMAIN i0.from : i0.from[z] = c.m.from
      BY <3>1
    <3> QED BY <2>2, <3>2
  <2> HIDE DEF q
  <2> QED BY <1>1, <1>4, <2>3, <2>4
<1>6. Stands(i0, j, ValueOf(i.args[j], Reading(i, a)), ValueOf(i0.args[j], Reading(i0, c.m)))
  <2>1. j \in 1 .. Len(i.args) /\ IsValue(i0.args[j]) /\ i0.args[j] \in Reads(i0, c.m)
    BY <1>1, <1>2, <1>3, <1>4
  <2> QED BY <2>1, OperandSame DEF i0
<1>7. ValueOf(i.args[j], Reading(i, a)) = ValueOf(i0.args[j], Reading(i0, c.m))
  BY <1>1, <1>6 DEF Stands
<1> QED BY <1>1, <1>4, <1>5, <1>7 DEF i0

(* The same is computed.                                                   *)
LEMMA SameResult ==
  ASSUME NEW f, IsFunction(f), IsVerified(f), NEW E, NEW b, NEW k, NEW c, NEW i, NEW a,
         AtSame(f, E, b, k, c, i, a), i.op \notin {"store", "br", "ret"}, NEW input
  PROVE  Result(i, a, input) = Result(Current(f, c.m), c.m, input)
<1> DEFINE i0 == Current(f, c.m)
<1>1. /\ i0 = f[b].insts[k] /\ i0 \in Instructions /\ i0.op = i.op /\ i \in Instructions
      /\ b \in 1 .. Len(f) /\ k \in 1 .. Len(f[b].insts)
      /\ \A j \in 1 .. Len(i.args) : i0.args[j].kind \notin {"register", "function"} => i.args[j] = i0.args[j]
  <2>1. i \in Instructions
    BY DEF AtSame
  <2> QED BY <2>1, SameFacts
<1>2. /\ i0.op = "sext" => IsValue(i0.args[1])
      /\ i0.op \notin {"load", "store", "br", "call", "sext"} =>
           \A j \in 1 .. Len(i0.args) : IsValue(i0.args[j])
  <2>1. /\ f[b].insts[k].op = "sext" => IsValue(f[b].insts[k].args[1])
        /\ f[b].insts[k].op \notin {"load", "store", "br", "call", "sext"} =>
             \A j \in 1 .. Len(f[b].insts[k].args) : IsValue(f[b].insts[k].args[j])
    BY Zenon, <1>1, VerifiedFacts
  <2> HIDE DEF i0
  <2> QED BY <1>1, <2>1
<1>3. Len(i.args) = Len(i0.args)
  BY SameFacts
<1>4. /\ i.op \in BinaryOps \cup ICmps => Len(i.args) = 2
      /\ i.op = "sext" => Len(i.args) = 1
  BY <1>1, InstructionFacts
<1>5. \A j \in 1 .. Len(i.args) :
        i.op # "phi" /\ IsValue(i0.args[j]) /\ (i.op # "ne" \/ j # 1 \/ i0.args[2] # Const(0))
          => ValueOf(i.args[j], a) = ValueOf(i0.args[j], c.m)
  BY SameValue
<1>r. i.op # "phi" => Reading(i, a) = a /\ Reading(i0, c.m) = c.m
  BY <1>1 DEF Reading
<1>6. \A j \in 1 .. Len(i.args) :
        i.op # "phi" /\ IsValue(i0.args[j]) /\ i0.args[j] \in Reads(i0, c.m)
          => Stands(i0, j, ValueOf(i.args[j], a), ValueOf(i0.args[j], c.m))
  <2>1. \A j \in 1 .. Len(i.args) :
          IsValue(i0.args[j]) /\ i0.args[j] \in Reads(i0, c.m)
            => Stands(i0, j, ValueOf(i.args[j], Reading(i, a)), ValueOf(i0.args[j], Reading(i0, c.m)))
    BY OperandSame
  <2> HIDE DEF i0
  <2> QED BY <1>r, <2>1
<1>7. i.op = "load" => LoadFrom(i.args[1], a) = LoadFrom(i0.args[1], c.m)
  BY SameLoad
<1>8. i.op = "phi" =>
        ValueOf(IncomingOf(i, a), Reading(i, a)) = ValueOf(IncomingOf(i0, c.m), Reading(i0, c.m))
  BY SamePhi
<1>9. i.op # "phi" => \A j \in 1 .. Len(i.args) : i0.args[j] \in Reads(i0, c.m)
  <2> HIDE DEF i0
  <2> QED BY <1>1, <1>3, AllRead
<1> HIDE DEF i0
<1>10. CASE i.op \in BinaryOps
  <2>1. ValueOf(i.args[1], a) = ValueOf(i0.args[1], c.m) /\ ValueOf(i.args[2], a) = ValueOf(i0.args[2], c.m)
    <3>1. 1 \in 1 .. Len(i.args) /\ 2 \in 1 .. Len(i.args) /\ i.op \notin {"load", "store", "br", "call", "sext", "ne", "phi"}
      BY SMTT(30), <1>4, <1>10 DEF BinaryOps
    <3> QED BY <1>1, <1>2, <1>3, <1>5, <3>1
  <2>2. i.op \in BinaryOps /\ i.op \notin ICmps \cup {"sext", "load", "phi", "call", "alloca"}
    BY <1>10 DEF BinaryOps, ICmps
  <2> QED BY <1>1, <2>1, <2>2 DEF Result, i0
<1>11. CASE i.op \in ICmps
  <2>1. 1 \in 1 .. Len(i.args) /\ 2 \in 1 .. Len(i.args)
        /\ i.op \notin {"load", "store", "br", "call", "sext", "phi"}
    BY <1>4, <1>11 DEF ICmps
  <2>2. ValueOf(i.args[2], a) = ValueOf(i0.args[2], c.m)
    BY <1>1, <1>2, <1>3, <1>5, <2>1
  <2>3. \/ ValueOf(i.args[1], a) = ValueOf(i0.args[1], c.m)
        \/ /\ i.op = "ne" /\ i0.args[2] = Const(0)
           /\ (ValueOf(i.args[1], a) = 0 <=> ValueOf(i0.args[1], c.m) = 0)
    <3>1. IsValue(i0.args[1]) /\ i0.args[1] \in Reads(i0, c.m)
      BY <1>1, <1>2, <1>3, <1>9, <2>1
    <3>2. Stands(i0, 1, ValueOf(i.args[1], a), ValueOf(i0.args[1], c.m))
      BY <1>6, <2>1, <3>1
    <3> QED BY <1>1, <3>2 DEF Stands
  <2>4. Holds(i.op, ValueOf(i.args[1], a), ValueOf(i.args[2], a))
          <=> Holds(i0.op, ValueOf(i0.args[1], c.m), ValueOf(i0.args[2], c.m))
    <3>1. CASE ValueOf(i.args[1], a) = ValueOf(i0.args[1], c.m)
      BY <1>1, <2>2, <3>1
    <3>2. CASE /\ i.op = "ne" /\ i0.args[2] = Const(0)
               /\ (ValueOf(i.args[1], a) = 0 <=> ValueOf(i0.args[1], c.m) = 0)
      <4>1. ValueOf(i0.args[2], c.m) = 0
        BY <3>2 DEF ValueOf, Const
      <4>2. \A u : Holds("ne", u, 0) <=> u # 0
        BY DEF Holds
      <4> QED BY <1>1, <2>2, <3>2, <4>1, <4>2
    <3> QED BY <2>3, <3>1, <3>2
  <2>5. i.op \in ICmps /\ i.op \notin BinaryOps \cup {"sext", "load", "phi", "call", "alloca"}
    BY <1>11 DEF BinaryOps, ICmps
  <2>6. /\ Result(i, a, input) = Bit(Holds(i.op, ValueOf(i.args[1], a), ValueOf(i.args[2], a)))
        /\ Result(i0, c.m, input) = Bit(Holds(i0.op, ValueOf(i0.args[1], c.m), ValueOf(i0.args[2], c.m)))
    BY <1>1, <2>5 DEF Result
  <2> QED BY <2>4, <2>6 DEF Bit, i0
<1>12. CASE i.op = "sext"
  <2>1. ValueOf(i.args[1], a) = ValueOf(i0.args[1], c.m)
    BY <1>1, <1>2, <1>4, <1>5, <1>12
  <2> QED BY <1>1, <1>12, <2>1 DEF Result, Truth, BinaryOps, ICmps, i0
<1>13. CASE i.op = "load"
  BY <1>1, <1>7, <1>13 DEF Result, BinaryOps, ICmps, i0
<1>14. CASE i.op = "phi"
  BY <1>1, <1>8, <1>14 DEF Result, BinaryOps, ICmps, i0
<1>15. CASE i.op \in {"call", "alloca"}
  BY <1>1, <1>15 DEF Result, BinaryOps, ICmps, i0
<1>16. i.op \in Opcodes
  BY <1>1, InstructionFacts
<1> QED BY <1>10, <1>11, <1>12, <1>13, <1>14, <1>15, <1>16 DEF Opcodes

(* A branch leads to the same block.                                       *)
LEMMA SameTarget ==
  ASSUME NEW f, IsFunction(f), IsVerified(f), NEW E, NEW b, NEW k, NEW c, NEW i, NEW a,
         AtSame(f, E, b, k, c, i, a), i.op = "br"
  PROVE  TargetOf(i, a) = TargetOf(Current(f, c.m), c.m)
<1> DEFINE i0 == Current(f, c.m)
<1>1. /\ i0 = f[b].insts[k] /\ i0 \in Instructions /\ i0.op = "br" /\ Len(i.args) = Len(i0.args)
      /\ b \in 1 .. Len(f) /\ k \in 1 .. Len(f[b].insts)
      /\ \A j \in 1 .. Len(i.args) : i0.args[j].kind \notin {"register", "function"} => i.args[j] = i0.args[j]
  BY SameFacts
<1>2. f[b].insts[k].op = "br" =>
        \/ Len(f[b].insts[k].args) = 1 /\ IsLabel(f, b, f[b].insts[k].args[1])
        \/ /\ Len(f[b].insts[k].args) = 3 /\ IsValue(f[b].insts[k].args[1])
           /\ IsLabel(f, b, f[b].insts[k].args[2]) /\ IsLabel(f, b, f[b].insts[k].args[3])
  BY Zenon, <1>1, VerifiedFacts
<1>3. \A j \in 1 .. Len(i.args) : IsValue(i0.args[j]) => ValueOf(i.args[j], a) = ValueOf(i0.args[j], c.m)
  BY SameValue
<1> HIDE DEF i0
<1>4. CASE Len(i0.args) = 1 /\ IsLabel(f, b, i0.args[1])
  <2>1. i.args[1] = i0.args[1]
    BY SMTT(30), <1>1, <1>4 DEF IsLabel
  <2> QED BY SMTT(30), <1>1, <1>4, <2>1 DEF TargetOf, i0
<1>5. CASE /\ Len(i0.args) = 3 /\ IsValue(i0.args[1])
           /\ IsLabel(f, b, i0.args[2]) /\ IsLabel(f, b, i0.args[3])
  <2>1. i.args[2] = i0.args[2] /\ i.args[3] = i0.args[3]
    BY SMTT(30), <1>1, <1>5 DEF IsLabel
  <2>2. ValueOf(i.args[1], a) = ValueOf(i0.args[1], c.m)
    BY SMTT(30), <1>1, <1>3, <1>5
  <2>3. Truth(i.args[1], a) <=> Truth(i0.args[1], c.m)
    BY <2>2 DEF Truth
  <2> QED BY SMTT(30), <1>1, <1>5, <2>1, <2>3 DEF TargetOf, i0
<1> QED BY <1>1, <1>2, <1>4, <1>5 DEF i0

(* What can be seen of it is the same.                                     *)
LEMMA SeenSame ==
  ASSUME NEW f, IsFunction(f), IsVerified(f), NEW E, NEW b, NEW k, NEW c, NEW i, NEW a,
         AtSame(f, E, b, k, c, i, a), NEW g, Current(g, a) = i
  PROVE  Seen(f, c.m) = Seen(g, a)
<1> DEFINE i0 == Current(f, c.m)
           n == Len(i.args)
<1>1. /\ i0 = f[b].insts[k] /\ i0 \in Instructions /\ i0.op = i.op /\ n = Len(i0.args)
      /\ b \in 1 .. Len(f) /\ k \in 1 .. Len(f[b].insts)
      /\ ~Misjudges(f, c.own, i0, c.m)
      /\ \A j \in 1 .. n : i.args[j] = i0.args[j] \/ Replaces(f, b, k, j, i.args[j])
  BY SameFacts
<1>2. /\ f[b].insts[k].op = "call" =>
           /\ Len(f[b].insts[k].args) > 0
           /\ f[b].insts[k].args[Len(f[b].insts[k].args)].kind = "function"
           /\ \A j \in 1 .. Len(f[b].insts[k].args) - 1 : IsValue(f[b].insts[k].args[j])
      /\ f[b].insts[k].op = "ret" =>
           /\ Len(f[b].insts[k].args) > 0
           /\ \A j \in 1 .. Len(f[b].insts[k].args) : IsValue(f[b].insts[k].args[j])
  BY Zenon, <1>1, VerifiedFacts
<1>3. \A j \in 1 .. n :
        i.op \notin {"phi", "ne"} /\ IsValue(i0.args[j]) => ValueOf(i.args[j], a) = ValueOf(i0.args[j], c.m)
  BY SameValue
<1>4. i.op = "br" => TargetOf(i, a) = TargetOf(i0, c.m)
  BY SameTarget
<1>5. n \in Nat
  BY InstructionFacts DEF AtSame
<1> HIDE DEF i0, n
<1>6. CASE i.op = "call"
  <2>1. n > 0 /\ i0.args[n].kind = "function" /\ \A j \in 1 .. n - 1 : IsValue(i0.args[j])
    BY <1>1, <1>2, <1>6
  <2>2. i.args[n] = i0.args[n]
    <3>1. ~\E o \in Insts(f) : o.op # "call" /\ o.name = i0.args[n].name
      BY <1>1, <1>6 DEF Misjudges, CalleeOf
    <3>2. ~Replaces(f, b, k, n, i.args[n])
      BY Zenon, <1>1, <2>1, <3>1 DEF Replaces
    <3> QED BY SMTT(30), <1>1, <1>5, <2>1, <3>2
  <2>3. \A j \in 1 .. n - 1 : ValueOf(i.args[j], a) = ValueOf(i0.args[j], c.m)
    BY <1>3, <1>5, <1>6, <2>1
  <2>4. /\ Seen(f, c.m) = <<i0.args[n].name, [j \in 1 .. n - 1 |-> ValueOf(i0.args[j], c.m)]>>
        /\ Seen(g, a) = <<i.args[n].name, [j \in 1 .. n - 1 |-> ValueOf(i.args[j], a)]>>
    BY Zenon, <1>1, <1>6 DEF Seen, CalleeOf, i0, n
  <2> QED BY <2>2, <2>3, <2>4
<1>7. CASE i.op = "ret"
  <2>1. ValueOf(i.args[1], a) = ValueOf(i0.args[1], c.m)
    BY <1>1, <1>2, <1>3, <1>5, <1>7
  <2> QED BY <1>1, <1>7, <2>1 DEF Seen, i0
<1>8. CASE i.op = "br"
  BY <1>1, <1>4, <1>8 DEF Seen, i0
<1>9. CASE i.op \notin {"call", "ret", "br"}
  BY Zenon, <1>1, <1>9 DEF Seen, i0
<1> QED BY <1>6, <1>7, <1>8, <1>9

(* And after it the machines hold the same again.                          *)
LEMMA SyncedAfter ==
  ASSUME NEW f, IsFunction(f), IsVerified(f), NEW E, NEW b, NEW k, NEW c, NEW i, NEW a,
         AtSame(f, E, b, k, c, i, a), NEW g, Current(g, a) = i, i.op # "ret", NEW input, NEW effect
  PROVE  Synced(E, After(f, c.m, input, effect), After(g, a, input, effect))
<1> DEFINE i0 == Current(f, c.m)
           d == After(f, c.m, input, effect)
           z == After(g, a, input, effect)
<1>1. /\ i0.op = i.op /\ i0.name = i.name /\ i0 \in Instructions /\ Len(i.args) = Len(i0.args)
      /\ i0 = f[b].insts[k] /\ b \in 1 .. Len(f) /\ k \in 1 .. Len(f[b].insts)
      /\ i.op = "store" => \A j \in 1 .. Len(i.args) : i.args[j] = i0.args[j]
  BY SameFacts
<1>2. DOMAIN c.m = Fields /\ DOMAIN a = Fields /\ Synced(E, c.m, a)
  BY DEF AtSame, Good, Synced
<1>3. /\ DOMAIN d = Fields /\ d.arg = c.m.arg
      /\ i0.op = "br" => /\ d.blk = TargetOf(i0, c.m) /\ d.from = c.m.blk
                         /\ d.reg = c.m.reg /\ d.old = c.m.reg /\ d.mem = c.m.mem
      /\ i0.op # "br" => d.blk = c.m.blk /\ d.from = c.m.from /\ d.old = c.m.old
      /\ i0.op = "store" => /\ d.reg = c.m.reg
                            /\ d.mem = Assign(c.m.mem, i0.args[2].name, ValueOf(i0.args[1], c.m))
      /\ i0.op \notin {"br", "store"} =>
           /\ d.reg = IF i0.name = Unnamed THEN c.m.reg
                      ELSE Assign(c.m.reg, i0.name, Result(i0, c.m, input))
           /\ d.mem = Overlay(c.m.mem, effect)
  <2>1. PICK m : m = c.m
    OBVIOUS
  <2>2. LET j == Current(f, m)
            y == After(f, m, input, effect)
        IN  /\ DOMAIN y = Fields /\ y.arg = m.arg
            /\ j.op = "br" => /\ y.blk = TargetOf(j, m) /\ y.from = m.blk
                               /\ y.reg = m.reg /\ y.old = m.reg /\ y.mem = m.mem
            /\ j.op # "br" => y.blk = m.blk /\ y.from = m.from /\ y.old = m.old
            /\ j.op = "store" => /\ y.reg = m.reg
                                  /\ y.mem = Assign(m.mem, j.args[2].name, ValueOf(j.args[1], m))
            /\ j.op \notin {"br", "store"} =>
                 /\ y.reg = IF j.name = Unnamed THEN m.reg
                            ELSE Assign(m.reg, j.name, Result(j, m, input))
                 /\ y.mem = Overlay(m.mem, effect)
    BY <1>2, <2>1, AfterFacts
  <2> QED BY <2>1, <2>2, Zenon
<1>4. /\ DOMAIN z = Fields /\ z.arg = a.arg
      /\ i.op = "br" => /\ z.blk = TargetOf(i, a) /\ z.from = a.blk
                        /\ z.reg = a.reg /\ z.old = a.reg /\ z.mem = a.mem
      /\ i.op # "br" => z.blk = a.blk /\ z.from = a.from /\ z.old = a.old
      /\ i.op = "store" => /\ z.reg = a.reg
                           /\ z.mem = Assign(a.mem, i.args[2].name, ValueOf(i.args[1], a))
      /\ i.op \notin {"br", "store"} =>
           /\ z.reg = IF i.name = Unnamed THEN a.reg ELSE Assign(a.reg, i.name, Result(i, a, input))
           /\ z.mem = Overlay(a.mem, effect)
  BY <1>2, AfterFacts
<1>5. i.op = "br" => TargetOf(i, a) = TargetOf(i0, c.m)
  BY SameTarget
<1>6. i.op \notin {"store", "br", "ret"} => Result(i, a, input) = Result(i0, c.m, input)
  BY SameResult
<1>7. i.op = "store" => i.args[2] = i0.args[2] /\ ValueOf(i.args[1], a) = ValueOf(i0.args[1], c.m)
  <2> SUFFICES ASSUME i.op = "store" PROVE i.args[2] = i0.args[2] /\ ValueOf(i.args[1], a) = ValueOf(i0.args[1], c.m)
    BY SMTT(30)
  <2>1. IsValue(f[b].insts[k].args[1])
    BY SMTT(30), <1>1, VerifiedFacts
  <2>2. Len(i.args) = 2
    BY <1>1, InstructionFacts
  <2>3. \A j \in 1 .. Len(i.args) :
          i.op \notin {"phi", "ne"} /\ IsValue(i0.args[j]) => ValueOf(i.args[j], a) = ValueOf(i0.args[j], c.m)
    BY SameValue
  <2> HIDE DEF i0
  <2> QED BY <1>1, <2>1, <2>2, <2>3
<1> HIDE DEF i0, d, z
<1>8. CASE i.op = "br"
  BY <1>1, <1>2, <1>3, <1>4, <1>5, <1>8 DEF Synced, d, z
<1>9. CASE i.op = "store"
  <2> DEFINE p == i0.args[2].name
             v == ValueOf(i0.args[1], c.m)
  <2>1. d.mem = Assign(c.m.mem, p, v) /\ z.mem = Assign(a.mem, p, v)
    BY <1>1, <1>3, <1>4, <1>7, <1>9
  <2> HIDE DEF p, v
  <2>2. /\ DOMAIN d.mem = DOMAIN c.m.mem \cup {p} /\ d.mem[p] = v
        /\ \A n \in DOMAIN c.m.mem \ {p} : d.mem[n] = c.m.mem[n]
    BY <2>1 DEF Assign
  <2>3. /\ DOMAIN z.mem = DOMAIN a.mem \cup {p} /\ z.mem[p] = v
        /\ \A n \in DOMAIN a.mem \ {p} : z.mem[n] = a.mem[n]
    BY <2>1 DEF Assign
  <2>4. DOMAIN z.mem = DOMAIN d.mem /\ \A n \in DOMAIN d.mem : z.mem[n] = d.mem[n]
    BY <1>2, <2>2, <2>3 DEF Synced
  <2>5. /\ z.blk = d.blk /\ z.from = d.from /\ z.arg = d.arg
        /\ d.reg = c.m.reg /\ z.reg = a.reg /\ d.old = c.m.old /\ z.old = a.old
    BY <1>1, <1>2, <1>3, <1>4, <1>9 DEF Synced
  <2> QED BY <1>2, <1>4, <2>4, <2>5 DEF Synced, d, z
<1>10. CASE i.op \notin {"br", "store"}
  <2>1. /\ z.blk = d.blk /\ z.from = d.from /\ z.arg = d.arg
        /\ z.old = a.old /\ d.old = c.m.old
    BY <1>1, <1>2, <1>3, <1>4, <1>10 DEF Synced
  <2>2. d.mem = Overlay(c.m.mem, effect) /\ z.mem = Overlay(a.mem, effect)
    BY <1>1, <1>3, <1>4, <1>10
  <2>3. DOMAIN z.mem = DOMAIN d.mem /\ \A n \in DOMAIN d.mem : z.mem[n] = d.mem[n]
    <3>1. /\ DOMAIN d.mem = DOMAIN c.m.mem \cup DOMAIN effect
          /\ \A n \in DOMAIN effect : d.mem[n] = effect[n]
          /\ \A n \in DOMAIN c.m.mem \ DOMAIN effect : d.mem[n] = c.m.mem[n]
      BY <2>2 DEF Overlay
    <3>2. /\ DOMAIN z.mem = DOMAIN a.mem \cup DOMAIN effect
          /\ \A n \in DOMAIN effect : z.mem[n] = effect[n]
          /\ \A n \in DOMAIN a.mem \ DOMAIN effect : z.mem[n] = a.mem[n]
      BY <2>2 DEF Overlay
    <3> QED BY <1>2, <3>1, <3>2 DEF Synced
  <2>4. DOMAIN z.reg \ E = DOMAIN d.reg \ E /\ \A n \in DOMAIN d.reg \ E : z.reg[n] = d.reg[n]
    <3>1. CASE i.name = Unnamed
      BY <1>1, <1>2, <1>3, <1>4, <1>10, <3>1 DEF Synced
    <3>2. CASE i.name # Unnamed
      <4> DEFINE v == Result(i0, c.m, input)
      <4>1. d.reg = Assign(c.m.reg, i.name, v) /\ z.reg = Assign(a.reg, i.name, v)
        BY <1>1, <1>3, <1>4, <1>6, <1>10, <3>2
      <4> HIDE DEF v
      <4>2. /\ DOMAIN d.reg = DOMAIN c.m.reg \cup {i.name} /\ d.reg[i.name] = v
            /\ \A n \in DOMAIN c.m.reg \ {i.name} : d.reg[n] = c.m.reg[n]
        BY <4>1 DEF Assign
      <4>3. /\ DOMAIN z.reg = DOMAIN a.reg \cup {i.name} /\ z.reg[i.name] = v
            /\ \A n \in DOMAIN a.reg \ {i.name} : z.reg[n] = a.reg[n]
        BY <4>1 DEF Assign
      <4> QED BY <1>2, <4>2, <4>3 DEF Synced
    <3> QED BY <3>1, <3>2
  <2> QED BY <1>2, <1>4, <2>1, <2>3, <2>4 DEF Synced, d, z
<1> QED BY <1>8, <1>9, <1>10

-----------------------------------------------------------------------------
(* The function before the passes goes ahead, and what they have left of   *)
(* it follows. *)

\* g is what the passes have left of f.
Pair(f, g, e, E) == IsFunction(f) /\ IsVerified(f) /\ IsFunction(g) /\ Agree(f, g, e, E)

\* Machine a is at the first instruction of g that was at lo of its block or after it.
AtFirst(g, e, lo, a) ==
  /\ a.idx \in 1 .. Len(g[a.blk].insts) /\ lo <= e[a.blk][a.idx]
  /\ \A l \in 1 .. a.idx - 1 : e[a.blk][l] < lo

\* How f got from instruction lo of a block to where it is: h holds the
\* configurations in between.
LedBy(f, c, h, lo) ==
  /\ lo \in Nat /\ lo <= c.m.idx /\ h[c.m.idx] = c
  /\ \A x \in lo .. c.m.idx : Reached(f, h[x]) /\ h[x].m.blk = c.m.blk /\ h[x].m.idx = x
  /\ \A x \in lo .. c.m.idx - 1 :
       /\ Understood(f, h[x]) /\ ~Visible(f, h[x].m)
       /\ h[x + 1] = StepOf(f, h[x], 0, EmptyState)

\* Machine a runs g after f, which is at c, from where they were in step.
Trails(f, g, e, E, c, a) ==
  \E h, lo : LedBy(f, c, h, lo) /\ AtFirst(g, e, lo, a) /\ Synced(E, h[lo].m, a)

(* Nothing but an unread register is lost with an instruction erased.      *)
LEMMA SkipOne ==
  ASSUME NEW f, NEW g, NEW e, NEW E, Pair(f, g, e, E), NEW c, Good(f, c),
         Dropped(g, e, c.m.blk, c.m.idx), NEW a, Synced(E, c.m, a)
  PROVE  Synced(E, StepOf(f, c, 0, EmptyState).m, a)
<1> DEFINE i == Current(f, c.m)
           d == After(f, c.m, 0, EmptyState)
<1>1. /\ DOMAIN c.m = Fields /\ c.m.blk \in 1 .. Len(f) /\ c.m.idx \in 1 .. Len(f[c.m.blk].insts)
      /\ i = f[c.m.blk].insts[c.m.idx]
  BY DEF Good, Current
<1>2. i.op \notin {"store", "phi", "call"} /\ i.name \in E \ {Unnamed}
  BY ZenonT(30), <1>1 DEF Pair, Agree
<1>3. i.op # "br"
  <2>1. f[c.m.blk].insts[c.m.idx].op \in {"store", "br", "ret"} => f[c.m.blk].insts[c.m.idx].name = Unnamed
    BY SMTT(30), <1>1, VerifiedFacts DEF Pair
  <2> HIDE DEF i
  <2> QED BY SMTT(30), <1>1, <1>2, <2>1
<1>4. /\ i.op # "br" =>
           d.blk = c.m.blk /\ d.from = c.m.from /\ d.arg = c.m.arg /\ d.old = c.m.old
      /\ i.op \notin {"br", "store"} =>
           /\ d.reg = IF i.name = Unnamed THEN c.m.reg
                      ELSE Assign(c.m.reg, i.name, Result(i, c.m, 0))
           /\ d.mem = Overlay(c.m.mem, EmptyState)
  <2>1. PICK m : m = c.m
    OBVIOUS
  <2>2. LET j == Current(f, m)
            y == After(f, m, 0, EmptyState)
        IN  /\ j.op # "br" => y.blk = m.blk /\ y.from = m.from /\ y.arg = m.arg /\ y.old = m.old
            /\ j.op \notin {"br", "store"} =>
                 /\ y.reg = IF j.name = Unnamed THEN m.reg
                            ELSE Assign(m.reg, j.name, Result(j, m, 0))
                 /\ y.mem = Overlay(m.mem, EmptyState)
    BY <1>1, <2>1, AfterFacts
  <2> QED BY <2>1, <2>2, Zenon
<1>5. DOMAIN EmptyState = {}
  BY DEF EmptyState, CP!EmptyState
<1>6. StepOf(f, c, 0, EmptyState).m = d
  BY DEF StepOf
<1> DEFINE v == Result(i, c.m, 0)
<1>7. /\ d.blk = c.m.blk /\ d.from = c.m.from /\ d.arg = c.m.arg /\ d.old = c.m.old
      /\ d.reg = Assign(c.m.reg, i.name, v) /\ d.mem = Overlay(c.m.mem, EmptyState)
  BY <1>2, <1>3, <1>4
<1> HIDE DEF i, d, v
<1>8. /\ DOMAIN d.mem = DOMAIN c.m.mem /\ \A n \in DOMAIN c.m.mem : d.mem[n] = c.m.mem[n]
  BY <1>5, <1>7 DEF Overlay
<1>9. /\ DOMAIN d.reg = DOMAIN c.m.reg \cup {i.name}
      /\ \A n \in DOMAIN c.m.reg \ {i.name} : d.reg[n] = c.m.reg[n]
  BY <1>7 DEF Assign
<1> QED BY <1>2, <1>6, <1>7, <1>8, <1>9 DEF Synced

\* What AtFirst and Agree say of the places of block b.
PlacesKept(f, g, e, E, b) ==
  /\ b \in 1 .. Len(f) /\ Len(f[b].insts) \in Nat /\ Len(g[b].insts) \in Nat \ {0}
  /\ \A l \in 1 .. Len(g[b].insts) :
       /\ e[b][l] \in 1 .. Len(f[b].insts) /\ e[b][l] \in Nat
       /\ e[b][l] = Len(f[b].insts) <=> l = Len(g[b].insts)
       /\ g[b].insts[l] \in Instructions /\ Matches(f, b, e[b][l], g[b].insts[l])
       /\ \A j \in 1 .. Len(g[b].insts[l].args) :
            g[b].insts[l].args[j].kind = "register" => g[b].insts[l].args[j].name \notin E
  /\ \A l, m \in 1 .. Len(g[b].insts) : l < m => e[b][l] < e[b][m]

(* The places of the instructions left, from Agree.                        *)
LEMMA PairPlaces ==
  ASSUME NEW f, NEW g, NEW e, NEW E, Pair(f, g, e, E), NEW b \in 1 .. Len(f)
  PROVE  PlacesKept(f, g, e, E, b)
<1>1. IsFunction(f) /\ IsVerified(f) /\ IsFunction(g) /\ Agree(f, g, e, E)
  BY DEF Pair
<1>2. /\ Len(f[b].insts) \in Nat \ {0} /\ Len(g[b].insts) \in Nat \ {0}
      /\ \A l \in 1 .. Len(g[b].insts) :
           /\ e[b][l] \in 1 .. Len(f[b].insts) /\ e[b][l] \in Nat
           /\ e[b][l] = Len(f[b].insts) <=> l = Len(g[b].insts)
           /\ g[b].insts[l] \in Instructions
  BY <1>1, LastKept
<1> QED BY <1>1, <1>2 DEF PlacesKept, Agree

(* Between the instructions left there are only some that are skipped.     *)
LEMMA CatchUp ==
  ASSUME NEW f, NEW g, NEW e, NEW E, Pair(f, g, e, E), NEW c, NEW h, NEW lo, LedBy(f, c, h, lo),
         NEW a, AtFirst(g, e, lo, a), Synced(E, h[lo].m, a), Good(f, c)
  PROVE  \A x \in lo .. c.m.idx : x <= e[c.m.blk][a.idx] => Synced(E, h[x].m, a)
<1> DEFINE b == c.m.blk
           hi == c.m.idx
           p == e[b][a.idx]
           T == {n \in Nat : lo + n <= hi /\ lo + n <= p => Synced(E, h[lo + n].m, a)}
<1>1. /\ lo \in Nat /\ hi \in Nat /\ lo <= hi /\ b \in 1 .. Len(f)
      /\ IsFunction(f) /\ IsVerified(f)
  <2>1. IsFunction(f) /\ IsVerified(f)
    BY DEF Pair
  <2>2. hi \in Nat
    BY <2>1, CurrentFacts
  <2> QED BY <2>1, <2>2 DEF LedBy, Good
<1>2. a.blk = b
  BY <1>1 DEF LedBy, Synced
<1>3. PlacesKept(f, g, e, E, b)
  BY <1>1, PairPlaces
<1>4. /\ a.idx \in 1 .. Len(g[b].insts) /\ lo <= p /\ p \in Nat
      /\ \A l \in 1 .. a.idx - 1 : e[b][l] < lo
      /\ Len(g[b].insts) \in Nat
      /\ \A l \in 1 .. Len(g[b].insts) : e[b][l] \in Nat
      /\ \A l, m \in 1 .. Len(g[b].insts) : l < m => e[b][l] < e[b][m]
  BY Zenon, <1>2, <1>3 DEF AtFirst, PlacesKept
<1>5. ASSUME NEW x \in lo .. hi, x < p PROVE Dropped(g, e, b, x)
  <2> SUFFICES ASSUME NEW l \in 1 .. Len(g[b].insts), e[b][l] = x PROVE FALSE
    BY DEF Dropped
  <2> HIDE DEF b, p
  <2>1. l < a.idx \/ l = a.idx \/ a.idx < l
    BY <1>4
  <2>2. l < a.idx => e[b][l] < lo
    BY <1>4
  <2>3. ~(l < a.idx)
    BY <1>1, <2>2
  <2>4. a.idx < l => p < e[b][l]
    BY <1>4 DEF p
  <2> QED BY <1>1, <1>4, <1>5, <2>1, <2>3, <2>4 DEF p
<1>6. 0 \in T
  BY <1>1
<1>7. ASSUME NEW n \in Nat, n \in T PROVE n + 1 \in T
  <2> SUFFICES ASSUME lo + (n + 1) <= hi, lo + (n + 1) <= p PROVE Synced(E, h[lo + (n + 1)].m, a)
    OBVIOUS
  <2>0. lo + n \in lo .. hi - 1 /\ lo + n \in lo .. hi /\ lo + n < p /\ lo + (n + 1) = (lo + n) + 1
        /\ lo + n <= hi /\ lo + n <= p
    BY SMTT(30), <1>1, <1>4
  <2> DEFINE x == lo + n
  <2>1. Synced(E, h[x].m, a)
    BY <1>7, <2>0
  <2>2. /\ Reached(f, h[x]) /\ h[x].m.blk = b /\ h[x].m.idx = x
        /\ h[x + 1] = StepOf(f, h[x], 0, EmptyState)
    BY <2>0 DEF LedBy
  <2>3. Good(f, h[x])
    BY <1>1, <2>2, ReachedGood
  <2>4. Dropped(g, e, h[x].m.blk, h[x].m.idx)
    BY <1>5, <2>0, <2>2
  <2>5. Synced(E, StepOf(f, h[x], 0, EmptyState).m, a)
    BY <2>1, <2>3, <2>4, SkipOne
  <2> QED BY <2>0, <2>2, <2>5
<1>8. Nat \subseteq T
  <2> HIDE DEF T
  <2> QED BY <1>6, <1>7, NaturalInduction
<1> SUFFICES ASSUME NEW x \in lo .. hi, x <= p PROVE Synced(E, h[x].m, a)
  OBVIOUS
<1>9. x - lo \in Nat /\ lo + (x - lo) = x /\ x <= hi
  BY <1>1
<1>10. x - lo \in T
  BY <1>8, <1>9
<1> HIDE DEF hi, p
<1> QED BY <1>9, <1>10

(* What f waits at is left: the follower is not past it.                   *)
LEMMA NotPast ==
  ASSUME NEW f, NEW g, NEW e, NEW E, Pair(f, g, e, E), NEW c, NEW h, NEW lo, LedBy(f, c, h, lo),
         NEW a, AtFirst(g, e, lo, a), Synced(E, h[lo].m, a), Good(f, c), Visible(f, c.m)
  PROVE  e[c.m.blk][a.idx] <= c.m.idx
<1> DEFINE b == c.m.blk
           hi == c.m.idx
           i == Current(f, c.m)
<1>1. /\ lo \in Nat /\ hi \in 1 .. Len(f[b].insts) /\ hi \in Nat /\ lo <= hi /\ b \in 1 .. Len(f)
      /\ IsFunction(f) /\ IsVerified(f) /\ i = f[b].insts[hi]
  <2>1. IsFunction(f) /\ IsVerified(f)
    BY DEF Pair
  <2>2. hi \in Nat /\ i = f[b].insts[hi]
    BY <2>1, CurrentFacts
  <2> QED BY <2>1, <2>2 DEF LedBy, Good
<1>2. a.blk = b
  BY <1>1 DEF LedBy, Synced
<1>3. PlacesKept(f, g, e, E, b)
  BY <1>1, PairPlaces
<1>4. ~Dropped(g, e, b, hi)
  <2>1. i.op \in {"call", "br", "ret"}
    BY DEF Visible
  <2>2. i.op \in {"br", "ret"} => i.name = Unnamed
    <3>1. f[b].insts[hi].op \in {"store", "br", "ret"} => f[b].insts[hi].name = Unnamed
      BY SMTT(30), <1>1, VerifiedFacts
    <3> QED BY SMTT(30), <1>1, <3>1
  <2>3. Dropped(g, e, b, hi) => i.op \notin {"store", "phi", "call"} /\ i.name \in E \ {Unnamed}
    BY Zenon, <1>1 DEF Pair, Agree
  <2> HIDE DEF i
  <2> QED BY <2>1, <2>2, <2>3
<1>5. PICK l \in 1 .. Len(g[b].insts) : e[b][l] = hi
  BY <1>4 DEF Dropped
<1>6. /\ a.idx \in 1 .. Len(g[b].insts) /\ e[b][a.idx] \in Nat
      /\ \A m \in 1 .. a.idx - 1 : e[b][m] < lo
      /\ Len(g[b].insts) \in Nat
      /\ \A m, n \in 1 .. Len(g[b].insts) : m < n => e[b][m] < e[b][n]
  BY Zenon, <1>2, <1>3 DEF AtFirst, PlacesKept
<1> HIDE DEF b, hi
<1>7. ~(l < a.idx)
  <2>1. l < a.idx => e[b][l] < lo
    BY <1>6
  <2> QED BY <1>1, <1>5, <2>1
<1>8. l = a.idx \/ a.idx < l
  BY <1>6, <1>7
<1>9. a.idx < l => e[b][a.idx] < e[b][l]
  BY <1>6
<1>10. e[b][a.idx] <= hi
  BY <1>1, <1>5, <1>6, <1>8, <1>9
<1> QED BY <1>10 DEF b, hi

(* Where f has understood an instruction that is left, and the follower    *)
(* holds the same.                                                         *)
LEMMA SameThere ==
  ASSUME NEW f, NEW g, NEW e, NEW E, Pair(f, g, e, E), NEW c, Reached(f, c), Understood(f, c),
         NEW a, Synced(E, c.m, a), a.idx \in 1 .. Len(g[a.blk].insts), c.m.idx = e[c.m.blk][a.idx]
  PROVE  AtSame(f, E, c.m.blk, c.m.idx, c, Current(g, a), a)
<1>1. IsFunction(f) /\ IsVerified(f)
  BY DEF Pair
<1>2. Good(f, c)
  BY <1>1, ReachedGood
<1>3. PlacesKept(f, g, e, E, c.m.blk) /\ a.blk = c.m.blk
  BY <1>2, PairPlaces DEF Good, Synced
<1>4. ReachedAt(f, c.m.blk, c.m.idx, c)
  BY DEF ReachedAt
<1>5. Current(g, a) = g[c.m.blk].insts[a.idx]
  BY <1>3 DEF Current
<1> QED BY Zenon, <1>2, <1>3, <1>4, <1>5 DEF AtSame, PlacesKept

(* Where a step leads f gets to.                                           *)
LEMMA StepIsReached ==
  ASSUME NEW f, NEW c, Reached(f, c), Understood(f, c), Current(f, c.m).op # "ret",
         NEW input \in Value, NEW effect \in Effects,
         Current(f, c.m).op # "call" => effect = EmptyState
  PROVE  Reached(f, StepOf(f, c, input, effect))
<1>1. Steps(f, c, StepOf(f, c, input, effect))
  BY DEF Steps
<1> QED BY <1>1, StepReached

(* Where the step of a machine that is at no branch leads.                 *)
LEMMA IdxAfter ==
  ASSUME NEW f, NEW m, DOMAIN m = Fields, NEW input, NEW effect
  PROVE  /\ DOMAIN After(f, m, input, effect) = Fields
         /\ Current(f, m).op = "br" => /\ After(f, m, input, effect).idx = 1
                                       /\ After(f, m, input, effect).blk = TargetOf(Current(f, m), m)
         /\ Current(f, m).op # "br" => /\ After(f, m, input, effect).idx = m.idx + 1
                                       /\ After(f, m, input, effect).blk = m.blk
BY AfterFacts

(* f goes ahead.                                                           *)
LEMMA LeadStep ==
  ASSUME NEW f, NEW g, NEW e, NEW E, Pair(f, g, e, E), NEW c, NEW a, Trails(f, g, e, E, c, a),
         Reached(f, c), Understood(f, c), ~Visible(f, c.m)
  PROVE  Trails(f, g, e, E, StepOf(f, c, 0, EmptyState), a)
<1> DEFINE d == StepOf(f, c, 0, EmptyState)
           hi == c.m.idx
<1>1. PICK h, lo : LedBy(f, c, h, lo) /\ AtFirst(g, e, lo, a) /\ Synced(E, h[lo].m, a)
  BY DEF Trails
<1>2. Good(f, c) /\ hi \in Nat
  <2>1. IsFunction(f) /\ IsVerified(f)
    BY DEF Pair
  <2>2. Good(f, c)
    BY <2>1, ReachedGood
  <2> QED BY <2>1, <2>2, CurrentFacts
<1>3. Current(f, c.m).op \notin {"call", "br", "ret"}
  BY DEF Visible
<1>4. Reached(f, d)
  <2>1. 0 \in Value /\ EmptyState \in Effects
    BY SmallInts, EffectsAssumption
  <2> QED BY <1>3, <2>1, StepIsReached
<1>5. d.m.blk = c.m.blk /\ d.m.idx = hi + 1
  <2>1. d.m = After(f, c.m, 0, EmptyState) /\ DOMAIN c.m = Fields
    BY <1>2 DEF StepOf, Good
  <2> HIDE DEF d
  <2> QED BY <1>3, <2>1, IdxAfter
<1> DEFINE z == [x \in lo .. hi + 1 |-> IF x = hi + 1 THEN d ELSE h[x]]
<1>l. /\ lo \in Nat /\ lo <= hi /\ h[hi] = c
      /\ \A x \in lo .. hi : Reached(f, h[x]) /\ h[x].m.blk = c.m.blk /\ h[x].m.idx = x
      /\ \A x \in lo .. hi - 1 :
           /\ Understood(f, h[x]) /\ ~Visible(f, h[x].m)
           /\ h[x + 1] = StepOf(f, h[x], 0, EmptyState)
  BY <1>1 DEF LedBy
<1>6. z[hi + 1] = d /\ \A x \in lo .. hi : z[x] = h[x]
  <2> HIDE DEF d
  <2> QED BY <1>2, <1>l
<1>d. d = StepOf(f, c, 0, EmptyState)
  OBVIOUS
<1> HIDE DEF z, d, hi
<1>7. \A x \in lo .. hi + 1 : Reached(f, z[x]) /\ z[x].m.blk = c.m.blk /\ z[x].m.idx = x
  <2> TAKE x \in lo .. hi + 1
  <2>1. x \in lo .. hi \/ x = hi + 1
    BY <1>2, <1>l
  <2> QED BY <1>4, <1>5, <1>6, <1>l, <2>1
<1>8. \A x \in lo .. hi : /\ Understood(f, z[x]) /\ ~Visible(f, z[x].m)
                          /\ z[x + 1] = StepOf(f, z[x], 0, EmptyState)
  <2> TAKE x \in lo .. hi
  <2>1. CASE x = hi
    BY <1>d, <1>6, <1>l, <2>1
  <2>2. CASE x # hi
    <3>1. x \in lo .. hi - 1 /\ x + 1 \in lo .. hi
      BY <1>2, <1>l, <2>2
    <3> QED BY <1>6, <1>l, <3>1
  <2> QED BY <2>1, <2>2
<1>9. LedBy(f, d, z, lo)
  <2>1. (hi + 1) - 1 = hi /\ lo <= hi + 1 /\ lo \in lo .. hi
    BY <1>2, <1>l
  <2> QED BY <1>5, <1>6, <1>7, <1>8, <1>l, <2>1 DEF LedBy
<1>10. z[lo] = h[lo]
  <2>1. lo \in lo .. hi
    BY <1>2, <1>l
  <2> QED BY <1>6, <2>1
<1>11. Trails(f, g, e, E, d, a)
  BY <1>1, <1>9, <1>10 DEF Trails
<1> QED BY <1>11 DEF d

(* One instruction on is the first that was after it.                      *)
LEMMA NextFirst ==
  ASSUME NEW f, NEW g, NEW e, NEW E, Pair(f, g, e, E), NEW a, a.blk \in 1 .. Len(f),
         a.idx \in 1 .. Len(g[a.blk].insts), Current(g, a).op \notin {"br", "ret"},
         NEW z, z.blk = a.blk, z.idx = a.idx + 1
  PROVE  AtFirst(g, e, e[a.blk][a.idx] + 1, z)
<1> DEFINE b == a.blk
           k == a.idx
           p == e[b][k]
           n == Len(g[b].insts)
<1>1. PlacesKept(f, g, e, E, b)
  BY PairPlaces
<1>2. /\ n \in Nat /\ p \in 1 .. Len(f[b].insts) /\ Matches(f, b, p, g[b].insts[k])
      /\ p = Len(f[b].insts) <=> k = n
      /\ \A l \in 1 .. n : e[b][l] \in Nat
      /\ \A l, m \in 1 .. n : l < m => e[b][l] < e[b][m]
  BY <1>1 DEF PlacesKept
<1>3. k # n
  <2>1. Current(g, a).op = f[b].insts[p].op
    BY Zenon, <1>2 DEF Current, Matches
  <2>2. f[b].insts[p].op \in {"br", "ret"} <=> p = Len(f[b].insts)
    BY Zenon, <1>2, VerifiedFacts DEF Pair
  <2> HIDE DEF p, k, n
  <2> QED BY <1>2, <2>1, <2>2
<1>4. k \in 1 .. n /\ k + 1 \in 1 .. n
  BY <1>2, <1>3
<1> HIDE DEF n
<1>5. p < e[b][k + 1] /\ p \in Nat /\ e[b][k + 1] \in Nat
  BY <1>2, <1>4
<1>6. \A l \in 1 .. k : e[b][l] <= p
  <2> TAKE l \in 1 .. k
  <2>1. l \in 1 .. n /\ (l = k \/ l < k)
    BY <1>2, <1>4
  <2> QED BY <1>2, <1>4, <2>1
<1>7. \A l \in 1 .. k : e[b][l] \in Nat
  BY <1>2, <1>4
<1>8. /\ z.idx \in 1 .. n /\ p + 1 <= e[b][z.idx] /\ \A l \in 1 .. z.idx - 1 : e[b][l] < p + 1
  <2>1. z.idx = k + 1 /\ (k + 1) - 1 = k
    BY <1>4
  <2> HIDE DEF p, k
  <2> QED BY SMTT(30), <1>4, <1>5, <1>6, <1>7, <2>1
<1> QED BY <1>8 DEF AtFirst, n

(* The follower steps over an instruction f is past.                       *)
LEMMA FollowStep ==
  ASSUME NEW f, NEW g, NEW e, NEW E, Pair(f, g, e, E), NEW c, NEW a, Trails(f, g, e, E, c, a),
         Reached(f, c), Visible(f, c.m), ~Visible(g, a)
  PROVE  Trails(f, g, e, E, c, After(g, a, 0, EmptyState))
<1> DEFINE b == c.m.blk
           hi == c.m.idx
           p == e[b][a.idx]
           z == After(g, a, 0, EmptyState)
<1>1. PICK h, lo : LedBy(f, c, h, lo) /\ AtFirst(g, e, lo, a) /\ Synced(E, h[lo].m, a)
  BY DEF Trails
<1>2. /\ IsFunction(f) /\ IsVerified(f) /\ Good(f, c) /\ hi \in Nat
      /\ b \in 1 .. Len(f)
  <2>1. IsFunction(f) /\ IsVerified(f)
    BY DEF Pair
  <2>2. Good(f, c)
    BY <2>1, ReachedGood
  <2> QED BY <2>1, <2>2, CurrentFacts DEF Good
<1>l. /\ lo \in Nat /\ lo <= hi /\ h[hi] = c
      /\ \A x \in lo .. hi : Reached(f, h[x]) /\ h[x].m.blk = b /\ h[x].m.idx = x
      /\ \A x \in lo .. hi - 1 :
           /\ Understood(f, h[x]) /\ ~Visible(f, h[x].m)
           /\ h[x + 1] = StepOf(f, h[x], 0, EmptyState)
  BY <1>1 DEF LedBy
<1>3. a.blk = b /\ a.idx \in 1 .. Len(g[b].insts) /\ lo <= p /\ DOMAIN a = Fields
  <2>1. h[lo].m.blk = b
    BY <1>2, <1>l
  <2> QED BY <1>1, <2>1 DEF AtFirst, Synced
<1>4. PlacesKept(f, g, e, E, b)
  BY <1>2, PairPlaces
<1>5. p \in Nat /\ p \in 1 .. Len(f[b].insts) /\ Matches(f, b, p, g[b].insts[a.idx])
  BY Zenon, <1>3, <1>4 DEF PlacesKept
<1>6. p <= hi
  BY <1>1, <1>2, NotPast
<1>7. Current(g, a).op = f[b].insts[p].op /\ Current(g, a).op \notin {"call", "br", "ret"}
  BY Zenon, <1>3, <1>5 DEF Current, Matches, Visible
<1>8. p # hi
  <2>1. Current(f, c.m) = f[b].insts[hi]
    BY DEF Current
  <2>2. Current(f, c.m).op \in {"call", "br", "ret"}
    BY SMTT(30) DEF Visible
  <2> HIDE DEF p, hi, b
  <2> QED BY <1>7, <2>1, <2>2
<1>9. p \in lo .. hi - 1 /\ p \in lo .. hi /\ p + 1 \in lo .. hi /\ p + 1 \in Nat
  BY SMTT(30), <1>2, <1>3, <1>5, <1>6, <1>8, <1>l
<1>10. Synced(E, h[p].m, a)
  <2>1. \A x \in lo .. hi : x <= p => Synced(E, h[x].m, a)
    BY <1>1, <1>2, CatchUp
  <2> HIDE DEF p, hi
  <2> QED BY <1>5, <1>9, <2>1
<1>11. /\ Reached(f, h[p]) /\ Understood(f, h[p]) /\ h[p].m.blk = b /\ h[p].m.idx = p
       /\ h[p + 1] = StepOf(f, h[p], 0, EmptyState)
  <2> HIDE DEF p, hi, b
  <2> QED BY SMTT(30), <1>9, <1>l
<1>12. AtSame(f, E, b, p, h[p], Current(g, a), a)
  <2>1. h[p].m.idx = e[h[p].m.blk][a.idx] /\ a.idx \in 1 .. Len(g[a.blk].insts)
    BY Zenon, <1>3, <1>11
  <2>2. AtSame(f, E, h[p].m.blk, h[p].m.idx, h[p], Current(g, a), a)
    BY Zenon, <1>10, <1>11, <2>1, SameThere
  <2> QED BY SMTT(30), <1>11, <2>2
<1>13. Synced(E, h[p + 1].m, z)
  <2>1. Synced(E, After(f, h[p].m, 0, EmptyState), z)
    BY Zenon, <1>2, <1>7, <1>12, SyncedAfter
  <2>2. h[p + 1].m = After(f, h[p].m, 0, EmptyState)
    <3>1. StepOf(f, h[p], 0, EmptyState).m = After(f, h[p].m, 0, EmptyState)
      BY DEF StepOf
    <3> QED BY Zenon, <1>11, <3>1
  <2> QED BY Zenon, <2>1, <2>2
<1>14. AtFirst(g, e, p + 1, z)
  <2>1. z.blk = a.blk /\ z.idx = a.idx + 1
    BY SMTT(30), <1>3, <1>7, IdxAfter
  <2>2. AtFirst(g, e, e[a.blk][a.idx] + 1, z)
    BY Zenon, <1>2, <1>3, <1>7, <2>1, NextFirst
  <2> QED BY SMTT(30), <1>3, <2>2
<1>15. LedBy(f, c, h, p + 1)
  <2>1. p + 1 <= hi /\ \A x : (x \in p + 1 .. hi => x \in lo .. hi) /\ (x \in p + 1 .. hi - 1 => x \in lo .. hi - 1)
    <3> HIDE DEF p, hi
    <3> QED BY <1>9, <1>2, <1>l
  <2> HIDE DEF p
  <2> QED BY <1>9, <1>l, <2>1 DEF LedBy
<1> QED BY <1>13, <1>14, <1>15 DEF Trails

(* Where both are at something that is seen, they are at the same place.   *)
LEMMA MeetThere ==
  ASSUME NEW f, NEW g, NEW e, NEW E, Pair(f, g, e, E), NEW c, NEW a, Trails(f, g, e, E, c, a),
         Reached(f, c), Understood(f, c), Visible(f, c.m), Visible(g, a)
  PROVE  /\ AtSame(f, E, c.m.blk, c.m.idx, c, Current(g, a), a)
         /\ a.blk = c.m.blk /\ a.blk \in 1 .. Len(f) /\ DOMAIN a = Fields
         /\ a.idx \in 1 .. Len(g[a.blk].insts) /\ e[a.blk][a.idx] = c.m.idx /\ c.m.idx \in Nat
<1> DEFINE b == c.m.blk
           hi == c.m.idx
           p == e[b][a.idx]
<1>1. PICK h, lo : LedBy(f, c, h, lo) /\ AtFirst(g, e, lo, a) /\ Synced(E, h[lo].m, a)
  BY DEF Trails
<1>2. /\ IsFunction(f) /\ IsVerified(f) /\ Good(f, c) /\ hi \in Nat
      /\ b \in 1 .. Len(f)
  <2>1. IsFunction(f) /\ IsVerified(f)
    BY DEF Pair
  <2>2. Good(f, c)
    BY <2>1, ReachedGood
  <2> QED BY <2>1, <2>2, CurrentFacts DEF Good
<1>l. /\ lo \in Nat /\ lo <= hi /\ h[hi] = c
      /\ \A x \in lo .. hi : h[x].m.blk = b /\ h[x].m.idx = x
      /\ \A x \in lo .. hi - 1 : ~Visible(f, h[x].m)
  BY <1>1 DEF LedBy
<1>3. a.blk = b /\ a.idx \in 1 .. Len(g[b].insts) /\ lo <= p /\ DOMAIN a = Fields
  <2>1. h[lo].m.blk = b
    BY <1>2, <1>l
  <2> QED BY <1>1, <2>1 DEF AtFirst, Synced
<1>4. PlacesKept(f, g, e, E, b)
  BY <1>2, PairPlaces
<1>5. p \in Nat /\ Matches(f, b, p, g[b].insts[a.idx])
  BY Zenon, <1>3, <1>4 DEF PlacesKept
<1>6. p <= hi
  BY <1>1, <1>2, NotPast
<1>7. Current(g, a).op = f[b].insts[p].op /\ Current(g, a).op \in {"call", "br", "ret"}
  BY Zenon, <1>3, <1>5 DEF Current, Matches, Visible
<1>8. ~(p < hi)
  <2> SUFFICES ASSUME p < hi PROVE FALSE
    OBVIOUS
  <2> HIDE DEF p, hi, b
  <2>1. p \in lo .. hi - 1 /\ p \in lo .. hi
    BY <1>2, <1>3, <1>5, <1>l
  <2>2. ~Visible(f, h[p].m) /\ h[p].m.blk = b /\ h[p].m.idx = p
    BY <1>l, <2>1
  <2> QED BY <1>7, <2>2 DEF Visible, Current
<1>9. p = hi
  <2> HIDE DEF p, hi
  <2> QED BY <1>2, <1>5, <1>6, <1>8
<1>10. Synced(E, c.m, a)
  <2>1. \A x \in lo .. hi : x <= p => Synced(E, h[x].m, a)
    BY <1>1, <1>2, CatchUp
  <2> HIDE DEF p, hi
  <2>2. hi \in lo .. hi /\ hi <= p
    BY <1>2, <1>9, <1>l
  <2> QED BY <1>l, <2>1, <2>2
<1>11. a.idx \in 1 .. Len(g[a.blk].insts) /\ c.m.idx = e[c.m.blk][a.idx]
  BY <1>3, <1>9
<1>12. AtSame(f, E, c.m.blk, c.m.idx, c, Current(g, a), a)
  BY <1>10, <1>11, SameThere
<1> QED BY <1>2, <1>3, <1>11, <1>12

(* Both step.                                                              *)
LEMMA BothStep ==
  ASSUME NEW f, NEW g, NEW e, NEW E, Pair(f, g, e, E), NEW c, NEW a, Trails(f, g, e, E, c, a),
         Reached(f, c), Understood(f, c), Visible(f, c.m), Visible(g, a), Current(f, c.m).op # "ret",
         NEW input \in Value, NEW effect \in Effects,
         Current(f, c.m).op # "call" => effect = EmptyState
  PROVE  Trails(f, g, e, E, StepOf(f, c, input, effect), After(g, a, input, effect))
<1> DEFINE d == StepOf(f, c, input, effect)
           z == After(g, a, input, effect)
           i == Current(g, a)
<1>1. /\ AtSame(f, E, c.m.blk, c.m.idx, c, i, a)
      /\ a.blk = c.m.blk /\ a.blk \in 1 .. Len(f) /\ DOMAIN a = Fields
      /\ a.idx \in 1 .. Len(g[a.blk].insts) /\ e[a.blk][a.idx] = c.m.idx /\ c.m.idx \in Nat
  BY MeetThere
<1>2. IsFunction(f) /\ IsVerified(f)
  BY DEF Pair
<1>3. Good(f, c) /\ DOMAIN c.m = Fields
  BY <1>1 DEF AtSame, Good
<1>4. i.op = Current(f, c.m).op
  BY <1>1, <1>2, SameFacts
<1>5. d.m = After(f, c.m, input, effect)
  BY DEF StepOf
<1>6. Reached(f, d)
  BY StepIsReached
<1>7. Synced(E, d.m, z)
  BY <1>1, <1>2, <1>4, <1>5, SyncedAfter
<1>8. Good(f, d) /\ d.m.idx \in Nat
  <2>1. Good(f, d)
    BY <1>2, <1>6, ReachedGood
  <2> HIDE DEF d
  <2> QED BY <1>2, <2>1, CurrentFacts
<1>9. AtFirst(g, e, d.m.idx, z)
  <2>1. CASE i.op = "br"
    <3>1. d.m.idx = 1 /\ z.idx = 1 /\ d.m.blk = TargetOf(Current(f, c.m), c.m)
      <4>1. /\ Current(f, c.m).op = "br" => /\ After(f, c.m, input, effect).idx = 1
                                            /\ After(f, c.m, input, effect).blk = TargetOf(Current(f, c.m), c.m)
            /\ i.op = "br" => z.idx = 1
        BY <1>1, <1>3, IdxAfter
      <4> HIDE DEF d, z, i
      <4> QED BY <1>4, <1>5, <2>1, <4>1
    <3>2. z.blk = d.m.blk /\ z.blk \in 1 .. Len(f)
      BY <1>7, <1>8 DEF Synced, Good
    <3>3. PlacesKept(f, g, e, E, z.blk)
      BY <3>2, PairPlaces
    <3> HIDE DEF d, z
    <3>4. 1 \in 1 .. Len(g[z.blk].insts) /\ 1 <= e[z.blk][1] /\ 1 .. 1 - 1 = {}
      BY <3>3 DEF PlacesKept
    <3> QED BY <3>1, <3>4 DEF AtFirst
  <2>2. CASE i.op # "br"
    <3>1. d.m.idx = c.m.idx + 1 /\ z.idx = a.idx + 1 /\ z.blk = a.blk
      BY <1>1, <1>3, <1>4, <1>5, <2>2, IdxAfter
    <3>2. AtFirst(g, e, e[a.blk][a.idx] + 1, z)
      BY <1>1, <1>4, <2>2, <3>1, NextFirst
    <3> QED BY <1>1, <3>1, <3>2
  <2> QED BY <2>1, <2>2
<1> DEFINE h == [x \in {d.m.idx} |-> d]
<1>10. h[d.m.idx] = d
  <2> HIDE DEF d
  <2> QED OBVIOUS
<1> HIDE DEF h, d, z
<1>11. LedBy(f, d, h, d.m.idx)
  <2>1. (\A x \in d.m.idx .. d.m.idx : x = d.m.idx) /\ d.m.idx .. d.m.idx - 1 = {} /\ d.m.idx <= d.m.idx
    BY <1>8
  <2> QED BY <1>6, <1>8, <1>10, <2>1 DEF LedBy
<1>12. Trails(f, g, e, E, d, z)
  BY <1>7, <1>9, <1>10, <1>11 DEF Trails
<1> QED BY <1>12 DEF d, z

(* At the start they are in step.                                          *)
LEMMA TrailsAtStart ==
  ASSUME NEW f, NEW g, NEW e, NEW E, Pair(f, g, e, E), NEW c \in Starts(f)
  PROVE  Trails(f, g, e, E, c, c.m)
<1> DEFINE h == [x \in {1} |-> c]
<1>1. h[1] = c
  OBVIOUS
<1> HIDE DEF h
<1>2. c.m.blk = 1 /\ c.m.idx = 1 /\ DOMAIN c.m = Fields
  BY DEF Starts, StartMachine, Fields
<1>3. IsFunction(f) /\ IsVerified(f)
  BY DEF Pair
<1>4. 1 \in 1 .. Len(f)
  <2>1. Len(f) \in Nat \ {0}
    BY <1>3, FunctionFacts
  <2> QED BY <2>1
<1>5. PlacesKept(f, g, e, E, 1)
  BY <1>4, PairPlaces
<1>6. AtFirst(g, e, 1, c.m)
  <2>1. 1 \in 1 .. Len(g[1].insts) /\ 1 <= e[1][1] /\ 1 .. 1 - 1 = {}
    BY <1>5 DEF PlacesKept
  <2> QED BY <1>2, <2>1 DEF AtFirst
<1>7. LedBy(f, c, h, 1)
  <2>1. (\A x \in 1 .. 1 : x = 1) /\ 1 .. 1 - 1 = {} /\ Reached(f, c)
    BY StartReached
  <2> QED BY <1>1, <1>2, <2>1 DEF LedBy
<1>8. Synced(E, c.m, c.m)
  BY <1>2 DEF Synced
<1> QED BY <1>1, <1>6, <1>7, <1>8 DEF Trails

\* Where source is.
Here == [m |-> before, own |-> own]

(* As long as source has done nothing that ai_cp misjudges, func trails    *)
(* it.                                                                     *)
TrackInv ==
  ~misjudged =>
    /\ ~Opted => Here \in Starts(source) /\ after = before
    /\ Opted => /\ Reached(source, Here)
                /\ \E e, E : Pair(source, func, e, E) /\ Trails(source, func, e, E, Here, after)

(* What the invariant of the passes says of func.                          *)
LEMMA PairOfInv ==
  ASSUME StaticInv
  PROVE  \E e, E : Pair(source, func, e, E)
BY SourceFacts DEF AgreeInv, Pair

(* When the last pass has ended, both begin.                               *)
LEMMA BeginsTracked ==
  StaticInv /\ Here \in Starts(source) /\ after = before => TrackInv
<1> SUFFICES ASSUME StaticInv, Here \in Starts(source), after = before
             PROVE  TrackInv
  OBVIOUS
<1>1. Here.m = before
  BY DEF Here
<1>2. PICK e, E : Pair(source, func, e, E)
  BY PairOfInv
<1>3. Trails(source, func, e, E, Here, Here.m)
  BY <1>2, TrailsAtStart
<1>4. Reached(source, Here)
  BY StartReached
<1> QED BY <1>1, <1>2, <1>3, <1>4 DEF TrackInv

(* Machines and functions are left as they are.                            *)
LEMMA TrackStays ==
  ASSUME TrackInv, Opted' <=> Opted, UNCHANGED <<func, source, runVars>>
  PROVE  TrackInv'
BY DEF TrackInv, Here, runVars

(* When source steps over something that is not seen.                      *)
LEMMA BeforeTracked ==
  ASSUME StaticInv, TrackInv, RunBefore
  PROVE  TrackInv'
<1> DEFINE i == Current(source, before)
<1>1. /\ Opted /\ ~Visible(source, before) /\ Defined(i, before)
      /\ before' = After(source, before, 0, EmptyState)
      /\ own' = IF i.op = "store" THEN own \cup {i.args[2].name} ELSE own
      /\ misjudged' = (misjudged \/ Misjudges(source, own, i, before))
      /\ UNCHANGED <<interpreterVars, source, passes, after>>
  BY DEF RunBefore
<1>2. Opted' /\ func' = func /\ source' = source /\ after' = after
  BY <1>1 DEF Opted, interpreterVars
<1> SUFFICES ASSUME ~misjudged' PROVE TrackInv'
  BY DEF TrackInv
<1>3. ~misjudged /\ ~Misjudges(source, own, i, before)
  BY <1>1
<1>4. Here.m = before /\ Here.own = own
  BY DEF Here
<1>5. Understood(source, Here) /\ ~Visible(source, Here.m)
  BY <1>1, <1>3, <1>4 DEF Understood
<1>6. Reached(source, Here)
  BY <1>1, <1>3 DEF TrackInv
<1>7. PICK e, E : Pair(source, func, e, E) /\ Trails(source, func, e, E, Here, after)
  BY <1>1, <1>3 DEF TrackInv
<1>8. PICK d : d = StepOf(source, Here, 0, EmptyState)
  OBVIOUS
<1>9. Trails(source, func, e, E, d, after)
  BY <1>5, <1>6, <1>7, <1>8, LeadStep
<1>10. Reached(source, d)
  <2>1. 0 \in Value /\ EmptyState \in Effects
    BY SmallInts, EffectsAssumption
  <2>2. Current(source, Here.m).op \notin {"call", "ret"}
    BY <1>5 DEF Visible
  <2> QED BY <1>5, <1>6, <1>8, <2>1, <2>2, StepIsReached
<1>11. Here' = d
  <2>1. DOMAIN EmptyState = {}
    BY DEF EmptyState, CP!EmptyState
  <2>2. Here' = [m |-> before', own |-> own']
    BY DEF Here
  <2>3. d = [m |-> After(source, before, 0, EmptyState),
             own |-> (IF i.op = "store" THEN own \cup {i.args[2].name} ELSE own) \ DOMAIN EmptyState]
    BY <1>4, <1>8 DEF StepOf
  <2>4. \A S : S \ DOMAIN EmptyState = S
    BY <2>1
  <2> HIDE DEF i
  <2> QED BY <1>1, <2>2, <2>3, <2>4
<1> QED BY <1>2, <1>7, <1>9, <1>10, <1>11 DEF TrackInv

(* When func follows.                                                      *)
LEMMA AfterTracked ==
  ASSUME StaticInv, TrackInv, RunAfter
  PROVE  TrackInv'
<1>1. /\ Opted /\ Visible(source, before) /\ ~Visible(func, after)
      /\ after' = After(func, after, 0, EmptyState)
      /\ UNCHANGED <<interpreterVars, source, passes, before, own, misjudged>>
  BY DEF RunAfter
<1>2. Opted' /\ func' = func /\ source' = source /\ Here' = Here
  BY <1>1 DEF Opted, interpreterVars, Here
<1> SUFFICES ASSUME ~misjudged' PROVE TrackInv'
  BY DEF TrackInv
<1>3. ~misjudged /\ Here.m = before
  BY <1>1 DEF Here
<1>4. Reached(source, Here) /\ Visible(source, Here.m)
  BY <1>1, <1>3 DEF TrackInv
<1>5. PICK e, E : Pair(source, func, e, E) /\ Trails(source, func, e, E, Here, after)
  BY <1>1, <1>3 DEF TrackInv
<1>6. Trails(source, func, e, E, Here, After(func, after, 0, EmptyState))
  BY <1>1, <1>4, <1>5, FollowStep
<1> QED BY <1>1, <1>2, <1>4, <1>5, <1>6 DEF TrackInv

(* When both step over something that is seen.                             *)
LEMMA BothTracked ==
  ASSUME StaticInv, TrackInv, NEW input \in Value, NEW effect \in Effects, RunBoth(input, effect)
  PROVE  TrackInv'
<1> DEFINE i == Current(source, before)
<1>1. /\ Opted /\ Visible(source, before) /\ Visible(func, after) /\ Defined(i, before)
      /\ i.op # "ret" /\ (effect # EmptyState => CallsUserFunction(i))
      /\ before' = After(source, before, input, effect)
      /\ after' = After(func, after, input, effect)
      /\ own' = own \ DOMAIN effect
      /\ misjudged' = (misjudged \/ Misjudges(source, own, i, before))
      /\ UNCHANGED <<interpreterVars, source, passes>>
  BY DEF RunBoth, MeetVisibly
<1>2. Opted' /\ func' = func /\ source' = source
  BY <1>1 DEF Opted, interpreterVars
<1> SUFFICES ASSUME ~misjudged' PROVE TrackInv'
  BY DEF TrackInv
<1>3. ~misjudged /\ ~Misjudges(source, own, i, before)
  BY <1>1
<1>4. Here.m = before /\ Here.own = own
  BY DEF Here
<1>5. /\ Understood(source, Here) /\ Visible(source, Here.m)
      /\ Current(source, Here.m).op # "ret"
      /\ Current(source, Here.m).op # "call" => effect = EmptyState
  BY <1>1, <1>3, <1>4 DEF Understood, CallsUserFunction
<1>6. Reached(source, Here)
  BY <1>1, <1>3 DEF TrackInv
<1>7. PICK e, E : Pair(source, func, e, E) /\ Trails(source, func, e, E, Here, after)
  BY <1>1, <1>3 DEF TrackInv
<1>8. PICK d : d = StepOf(source, Here, input, effect)
  OBVIOUS
<1>9. Trails(source, func, e, E, d, After(func, after, input, effect))
  BY <1>1, <1>5, <1>6, <1>7, <1>8, BothStep
<1>10. Reached(source, d)
  BY <1>5, <1>6, <1>8, StepIsReached
<1>11. Here' = d
  <2>1. i.op # "store"
    BY <1>1 DEF Visible
  <2>2. Here' = [m |-> before', own |-> own']
    BY DEF Here
  <2>3. d = [m |-> After(source, before, input, effect), own |-> own \ DOMAIN effect]
    BY <1>4, <1>8, <2>1 DEF StepOf
  <2> HIDE DEF i
  <2> QED BY <1>1, <2>2, <2>3
<1> QED BY <1>1, <1>2, <1>7, <1>9, <1>10, <1>11 DEF TrackInv

(* Every step keeps func on the track of source.                           *)
LEMMA TrackInductive ==
  ASSUME StaticInv, StaticInv', TrackInv, [Next]_pipeVars
  PROVE  TrackInv'
<1>1. CASE RunPass
  <2>1. UNCHANGED <<source, passes, before, after, own, misjudged>>
    BY <1>1 DEF RunPass, runVars
  <2>2. CASE Opted
    <3>1. phase' = phase /\ func' = func
      BY <1>1, <2>2 DEF Opted, RunPass, CP!Next, CP!SetInitialStates, CP!StartRound, CP!MergePredecessorState,
         CP!InterpretInst, CP!Interpreting, CP!Abort, CP!SetOutState, CP!Finish, CP!Stopped, CP!vars,
         DCE!Next, DCE!SetInitialStates, DCE!StartRound, DCE!MergePredecessorState,
         DCE!InterpretInst, DCE!Interpreting, DCE!Abort, DCE!SetOutState, DCE!Finish, DCE!Stopped, DCE!vars
    <3> QED BY <2>1, <3>1, TrackStays DEF Opted, runVars
  <2>3. CASE ~Opted
    <3>1. ~misjudged => Here \in Starts(source) /\ after = before
      BY <2>3 DEF TrackInv
    <3>2. StaticInv' /\ (Here \in Starts(source))' /\ (after = before)' => TrackInv'
      BY BeginsTracked, PTL
    <3>3. misjudged' => TrackInv'
      BY DEF TrackInv
    <3>4. Here' = Here /\ source' = source /\ after' = after /\ before' = before
      BY <2>1 DEF Here
    <3>5. Here \in Starts(source) => (Here \in Starts(source))'
      BY <3>4
    <3> QED BY <2>1, <3>1, <3>2, <3>3, <3>4, <3>5
  <2> QED BY <2>2, <2>3
<1>2. CASE NextPass
  <2>1. ~Opted /\ ~Opted' /\ UNCHANGED <<func, source, runVars>>
    BY <1>2 DEF NextPass, Opted
  <2> QED BY <2>1, TrackStays
<1>3. CASE RunBefore
  BY <1>3, BeforeTracked
<1>4. CASE RunAfter
  BY <1>4, AfterTracked
<1>5. CASE \E input \in Value, effect \in Effects : RunBoth(input, effect)
  BY <1>5, BothTracked
<1>6. CASE UNCHANGED pipeVars
  BY <1>6, TrackStays DEF pipeVars, interpreterVars, Opted
<1> QED BY <1>1, <1>2, <1>3, <1>4, <1>5, <1>6 DEF Next

(* Where the machines meet, they are at the same.                          *)
LEMMA MeetsSame ==
  ASSUME StaticInv, TrackInv
  PROVE  DiffersOnlyMisjudged
<1> SUFFICES ASSUME MeetVisibly, ~misjudged, ~Misjudges(source, own, Current(source, before), before)
             PROVE  SameSeen
  BY DEF DiffersOnlyMisjudged
<1>1. /\ Opted /\ Visible(source, before) /\ Visible(func, after)
      /\ Defined(Current(source, before), before)
  BY DEF MeetVisibly
<1>2. Here.m = before /\ Here.own = own
  BY DEF Here
<1>3. Understood(source, Here) /\ Visible(source, Here.m)
  BY <1>1, <1>2 DEF Understood
<1>4. Reached(source, Here)
  BY <1>1 DEF TrackInv
<1>5. PICK e, E : Pair(source, func, e, E) /\ Trails(source, func, e, E, Here, after)
  BY <1>1 DEF TrackInv
<1>6. AtSame(source, E, Here.m.blk, Here.m.idx, Here, Current(func, after), after)
  BY <1>1, <1>3, <1>4, <1>5, MeetThere
<1>7. Seen(source, Here.m) = Seen(func, after)
  <2>1. IsFunction(source) /\ IsVerified(source)
    BY <1>5 DEF Pair
  <2> QED BY <1>6, <2>1, SeenSame
<1> QED BY <1>2, <1>7 DEF SameSeen

(* On every function made of the instructions src/compiler.h emits and     *)
(* mem2reg leaves of them, as IsVerified has it, in every order of the     *)
(* passes, for ints of every width, on every input and for every argument, *)
(* the function the passes leave calls the same functions with the same    *)
(* arguments, takes the same branches and returns the same value as the    *)
(* one they were given, until that one does something that ai_cp misjudges *)
(* (MyPasses.cc:254-329, 824-867).                                         *)
THEOREM BehaviourKeptUntilMisjudged == Spec => []DiffersOnlyMisjudged
<1>1. Init => StaticInv /\ TrackInv
  <2>1. Init => StaticInv
    BY StaticInit
  <2>2. Init => Here \in Starts(source) /\ after = before
    BY DEF Init, Here, Starts
  <2> QED BY <2>1, <2>2, BeginsTracked
<1>2. StaticInv /\ TrackInv /\ [Next]_pipeVars => (StaticInv /\ TrackInv)'
  BY StaticInductive, TrackInductive
<1>3. StaticInv /\ TrackInv => DiffersOnlyMisjudged
  BY MeetsSame
<1> QED BY <1>1, <1>2, <1>3, PTL DEF Spec
=============================================================================
