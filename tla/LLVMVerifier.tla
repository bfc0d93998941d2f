---------------------------- MODULE LLVMVerifier ----------------------------
(***************************************************************************)
(* The IR src/compiler.h builds, and verifyModule() (external: the LLVM    *)
(* library), as far as the shape of the generated code can offend it.      *)
(*                                                                         *)
(* The body of a function is a map from its blocks to their instructions;  *)
(* blocks and instructions are numbered in the order of their creation, so *)
(* that the entry block is the least.                                      *)
(***************************************************************************)
EXTENDS Naturals, Sequences, FiniteSets, FiniteSetsExt

\* The value of an expression; a ret yields none that could be used.
Nullptr      == [kind |-> "nullptr", id |-> 0]
Constant     == [kind |-> "const", id |-> 0]
Result(id)   == [kind |-> "inst", id |-> id]
ReturnInst(id) == [kind |-> "ret", id |-> id]

\* to are the targets of a branch, from the incoming blocks of a phi.
Inst(id, op, uses)       == [id |-> id, op |-> op, uses |-> uses, to |-> {}, from |-> <<>>]
Branch(id, uses, to)     == [Inst(id, "br", uses) EXCEPT !.to = to]
PhiNode(id, uses, from)  == [Inst(id, "phi", uses) EXCEPT !.from = from]

IsTerminator(i) == i.op \in {"br", "ret"}

Entry(body) == Min(DOMAIN body)

Successors(body, b) ==
  IF body[b] = <<>> THEN {} ELSE body[b][Len(body[b])].to

\* The blocks control reaches without entering block a.
Reach(body, a) ==
  LET step[n \in 0 .. Cardinality(DOMAIN body)] ==
        IF n = 0 THEN {Entry(body)} \ {a}
        ELSE step[n - 1] \cup (UNION {Successors(body, b) : b \in step[n - 1]} \ {a})
  IN  step[Cardinality(DOMAIN body)]

Dominates(body, a, b) == b \notin Reach(body, a)

\* Where the instruction id stands, as <<block, position>>.
Places(body, id) ==
  UNION {{<<b, k>> : k \in {j \in 1 .. Len(body[b]) : body[b][j].id = id}} : b \in DOMAIN body}

\* The value x is computed on every way to the k-th instruction of block b.
Available(body, x, b, k) ==
  \/ x.kind = "const"
  \/ /\ x.kind = "inst"
     /\ \E p \in Places(body, x.id) :
          \/ p[1] = b /\ p[2] < k
          \/ p[1] # b /\ Dominates(body, p[1], b)

Terminated(body) ==
  \A b \in DOMAIN body :
    /\ body[b] # <<>>
    /\ \A k \in 1 .. Len(body[b]) : IsTerminator(body[b][k]) <=> k = Len(body[b])

PhiVerifies(body, b, i) ==
  /\ {i.from[k] : k \in 1 .. Len(i.from)} = {p \in DOMAIN body : b \in Successors(body, p)}
  /\ \A k \in 1 .. Len(i.from) :
       Available(body, i.uses[k], i.from[k], Len(body[i.from[k]]) + 1)

Verifies(body) ==
  /\ Terminated(body)
  /\ \A b \in DOMAIN body : \A k \in 1 .. Len(body[b]) :
       LET i == body[b][k] IN
       IF i.op = "phi" THEN PhiVerifies(body, b, i)
       ELSE \A j \in 1 .. Len(i.uses) : Available(body, i.uses[j], b, k)
=============================================================================
