---------------------------- MODULE LLVMFunction ----------------------------
(***************************************************************************)
(* The LLVM IR the passes read (external: the LLVM library), as far as     *)
(* they look at it: an instruction's opcode, its name, and its operands    *)
(* with their names.  Built by src/compiler.h and by mem2reg, see the      *)
(* constructors at the end.                                                *)
(*                                                                         *)
(* A function is a sequence of blocks, [insts, preds], the entry block     *)
(* first; a block is known by its position.                                *)
(***************************************************************************)
EXTENDS Integers, Sequences, FiniteSets

SeqsExt == INSTANCE SequencesExt

Unnamed == ""

\* Operands.  Constants have no name; the value of a label is its block.
Const(v)  == [kind |-> "const",    name |-> Unnamed, value |-> v]
Undef     == [kind |-> "undef",    name |-> Unnamed, value |-> 0]
Reg(n)    == [kind |-> "register", name |-> n,       value |-> 0]
Arg(n)    == [kind |-> "argument", name |-> n,       value |-> 0]
Global(n) == [kind |-> "global",   name |-> n,       value |-> 0]
Callee(n) == [kind |-> "function", name |-> n,       value |-> 0]
Label(n, b) == [kind |-> "block",  name |-> n,       value |-> b]

Names == STRING \cup {Unnamed}

Operand ==
  [kind : {"const", "undef", "register", "argument", "global", "function", "block"},
   name : Names, value : Int]

\* An instruction.  The opcode of an icmp is its predicate; from holds the
\* incoming blocks of a phi, which are no operands of it.
Instruction(op, name, args) == [op |-> op, name |-> name, args |-> args, from |-> <<>>]

BinaryOps == {"add", "sub", "mul", "sdiv"}
ICmps     == {"eq", "ne", "sgt", "sge", "slt", "sle"}

Binary(op, n, x, y)  == Instruction(op, n, <<x, y>>)
Load(n, p)           == Instruction("load", n, <<p>>)
Store(x, p)          == Instruction("store", Unnamed, <<x, p>>)
SExt(n, x)           == Instruction("sext", n, <<x>>)
Call(n, xs, f)       == Instruction("call", n, Append(xs, f))
Br(l)                == Instruction("br", Unnamed, <<l>>)
CondBr(x, yes, no)   == Instruction("br", Unnamed, <<x, no, yes>>)
Ret(x)               == Instruction("ret", Unnamed, <<x>>)
Alloca(n)            == Instruction("alloca", n, <<Const(1)>>)
Phi(n, xs, blocks)   == [Instruction("phi", n, xs) EXCEPT !.from = blocks]

-----------------------------------------------------------------------------
Operands(i) == {i.args[k] : k \in DOMAIN i.args}

\* The blocks a terminator may go to.
Targets(insts) == {x.value : x \in {y \in Operands(SeqsExt!Last(insts)) : y.kind = "block"}}

\* The function made of these bodies, with predecessors(): a block's are
\* those that end in a branch to it.
FunctionOf(bodies) ==
  [b \in 1 .. Len(bodies) |->
     [insts |-> bodies[b],
      preds |-> {p \in 1 .. Len(bodies) : b \in Targets(bodies[p])}]]

Insts(f) == UNION {{f[b].insts[k] : k \in DOMAIN f[b].insts} : b \in 1 .. Len(f)}

\* The arguments the instructions of f read.
Parameters(f) ==
  {x.name : x \in {y \in UNION {Operands(i) : i \in Insts(f)} : y.kind = "argument"}}

\* Every name an instruction of f has or mentions.
NamesOf(f) ==
  ({i.name : i \in Insts(f)} \cup UNION {{x.name : x \in Operands(i)} : i \in Insts(f)})
    \ {Unnamed}
=============================================================================
