------------------------------- MODULE DataFlow -------------------------------
(***************************************************************************)
(* What my_passes::AbstractInterpretation promises an analysis, without    *)
(* its rounds, its orders and its flag: a chaotic iteration of the data    *)
(* flow equations.  There is one equation for the state at each            *)
(* instruction and one for the out state of each block; any of them may be *)
(* made true at any time from what the others are then, and only a         *)
(* solution of all of them is ever handed to postprocess().                *)
(***************************************************************************)
EXTENDS Naturals, Sequences

CONSTANTS
  Name, Elem, Leq(_, _),    \* the states: maps from names to elements
  FlowState(_, _),          \* the state after an instruction
  Postprocess(_, _, _),     \* the function rewritten by a solution
  Functions

VARIABLES
  func,      \* the function
  at,        \* the state before each instruction
  out,       \* the out state of each block
  ended      \* postprocess() has been called

vars == <<func, at, out, ended>>

State == UNION {[D -> Elem] : D \in SUBSET Name}

EmptyState == [n \in {} |-> n]

StateLeq(A, B) ==
  DOMAIN A \subseteq DOMAIN B /\ \A n \in DOMAIN A : Leq(A[n], B[n])

Blocks == 1 .. Len(func)

Insts(b) == func[b].insts

Points == UNION {{b} \X (1 .. Len(Insts(b))) : b \in Blocks}

Above(b, s) == \A p \in func[b].preds : StateLeq(out[p], s)

\* s is the least upper bound of the out states of the predecessors of b; the
\* entry block starts empty.
Merged(b, s) ==
  IF b = 1 THEN s = EmptyState
  ELSE Above(b, s) /\ \A u \in State : Above(b, u) => StateLeq(s, u)

-----------------------------------------------------------------------------
Init ==
  /\ func \in Functions
  /\ at = [p \in Points |-> EmptyState]
  /\ out = [b \in Blocks |-> EmptyState]
  /\ ended = FALSE

EnterBlock(b) ==
  /\ \E s \in State : Merged(b, s) /\ at' = [at EXCEPT ![<<b, 1>>] = s]
  /\ UNCHANGED <<func, out, ended>>

Interpret(b, k) ==
  /\ at' = [at EXCEPT ![<<b, k + 1>>] = FlowState(Insts(b)[k], at[<<b, k>>])]
  /\ UNCHANGED <<func, out, ended>>

LeaveBlock(b) ==
  LET n == Len(Insts(b)) IN
  /\ out' = [out EXCEPT ![b] = FlowState(Insts(b)[n], at[<<b, n>>])]
  /\ UNCHANGED <<func, at, ended>>

Solved(b) ==
  LET n == Len(Insts(b)) IN
  /\ Merged(b, at[<<b, 1>>])
  /\ \A k \in 1 .. n - 1 : at[<<b, k + 1>>] = FlowState(Insts(b)[k], at[<<b, k>>])
  /\ out[b] = FlowState(Insts(b)[n], at[<<b, n>>])

\* The out states are dropped; what was found before each instruction stays.
End ==
  /\ \A b \in Blocks : Solved(b)
  /\ ended' = TRUE
  /\ func' = Postprocess(func, out, at)
  /\ out' = <<>>
  /\ UNCHANGED at

Next ==
  /\ ~ ended
  /\ \/ \E b \in Blocks : EnterBlock(b) \/ LeaveBlock(b)
     \/ \E b \in Blocks : \E k \in 1 .. Len(Insts(b)) - 1 : Interpret(b, k)
     \/ End

Spec == Init /\ [][Next]_vars
=============================================================================
