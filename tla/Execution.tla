----------------------------- MODULE Execution -----------------------------
(***************************************************************************)
(* What running a function of LLVMFunction does (external: LLVM's          *)
(* semantics of the instructions src/compiler.h emits, with read_ and      *)
(* write_ of src/runtime.cpp).  A machine stands before one instruction    *)
(* and steps over it.                                                      *)
(***************************************************************************)
EXTENDS BasicArithmetic, LLVMFunction

\* map with the entries of more put over its own.
Overlay(map, more) ==
  [m \in DOMAIN map \cup DOMAIN more |-> IF m \in DOMAIN more THEN more[m] ELSE map[m]]

Assign(map, n, v) == [m \in DOMAIN map \cup {n} |-> IF m = n THEN v ELSE map[m]]

EmptyMap == [n \in {} |-> 0]

\* The machine that runs a function on the arguments arg.  from is the block the
\* current one was entered from, and old the registers as they were then.
StartMachine(arg) ==
  [blk |-> 1, idx |-> 1, from |-> 0, arg |-> arg, reg |-> EmptyMap, old |-> EmptyMap, mem |-> EmptyMap]

Current(f, m) == f[m.blk].insts[m.idx]

ValueOf(x, m) ==
  CASE x.kind = "const"    -> x.value
    [] x.kind = "argument" -> m.arg[x.name]
    [] OTHER               -> m.reg[x.name]

\* Global variables are initialised to 0.
LoadFrom(p, m) == IF p.name \in DOMAIN m.mem THEN m.mem[p.name] ELSE 0

\* The bit of an i1.
Truth(x, m) == ValueOf(x, m) % 2 = 1

\* The phis of a block are evaluated together: each reads the registers as they
\* were when the block was entered.
Reading(i, m) == IF i.op = "phi" THEN [m EXCEPT !.reg = m.old] ELSE m

IncomingOf(i, m) == i.args[CHOOSE k \in DOMAIN i.from : i.from[k] = m.from]

CalleeOf(i) == i.args[Len(i.args)].name

TargetOf(i, m) ==
  IF Len(i.args) = 1 THEN i.args[1].value
  ELSE IF Truth(i.args[1], m) THEN i.args[3].value ELSE i.args[2].value

\* Both operands of an arithmetic instruction, and whether the sign rules of
\* the pass, which disregard the width of an int and the rounding of a
\* quotient, speak of it at all.  Division is defined here too.
Exactly(i, m) ==
  LET u == ValueOf(i.args[1], m)
      v == ValueOf(i.args[2], m)
  IN  /\ i.op = "sdiv" => v # 0
      /\ Exact(i.op, u, v) \in Value
      /\ ~TruncatesToZero(i.op, u, v)

\* A division by zero, and that of the least int by -1.
Traps(i, m) ==
  /\ i.op = "sdiv"
  /\ \/ ValueOf(i.args[2], m) = 0
     \/ ValueOf(i.args[1], m) = MinInt /\ ValueOf(i.args[2], m) = -1

\* The operands i reads: of a phi, the one for the block control came from.
Reads(i, m) ==
  IF i.op = "phi" THEN {i.args[k] : k \in {j \in DOMAIN i.from : i.from[j] = m.from}}
  ELSE Operands(i)

\* LLVM says what i does.
Defined(i, m) ==
  /\ Reads(i, m) # {}
  /\ \A x \in Reads(i, m) :
       x.kind # "undef" /\ (x.kind = "register" => x.name \in DOMAIN Reading(i, m).reg)
  /\ ~Traps(i, m)

\* The value an instruction gives its register; a call returns input, and
\* nobody looks at an address.
Result(i, m, input) ==
  CASE i.op \in BinaryOps -> Wrap(Exact(i.op, ValueOf(i.args[1], m), ValueOf(i.args[2], m)))
    [] i.op \in ICmps     -> Bit(Holds(i.op, ValueOf(i.args[1], m), ValueOf(i.args[2], m)))
    [] i.op = "sext"      -> IF Truth(i.args[1], m) THEN -1 ELSE 0
    [] i.op = "load"      -> LoadFrom(i.args[1], m)
    [] i.op = "phi"       -> ValueOf(IncomingOf(i, m), Reading(i, m))
    [] i.op = "call"      -> input
    [] i.op = "alloca"    -> 0

\* Is i a call of a function of the program, which may write variables?
CallsUserFunction(i) == i.op = "call" /\ CalleeOf(i) \notin {"read_", "write_"}

\* The machine after its current instruction, which is not a ret; a call
\* returns input and leaves the variables in effect changed.
After(f, m, input, effect) ==
  LET i == Current(f, m) IN
  CASE i.op = "br"    -> [m EXCEPT !.blk = TargetOf(i, m), !.idx = 1, !.from = m.blk, !.old = m.reg]
    [] i.op = "store" -> [m EXCEPT !.idx = @ + 1,
                                   !.mem = Assign(@, i.args[2].name, ValueOf(i.args[1], m))]
    [] OTHER          -> [m EXCEPT !.idx = @ + 1,
                                   !.reg = IF i.name = Unnamed THEN @
                                           ELSE Assign(@, i.name, Result(i, m, input)),
                                   !.mem = Overlay(@, effect)]

\* What can be seen of the current instruction from outside: the arguments
\* of a call, the value returned, the way a branch takes.
Seen(f, m) ==
  LET i == Current(f, m) IN
  CASE i.op = "call" -> <<CalleeOf(i), [k \in 1 .. Len(i.args) - 1 |-> ValueOf(i.args[k], m)]>>
    [] i.op = "ret"  -> <<"ret", <<ValueOf(i.args[1], m)>> >>
    [] i.op = "br"   -> <<"br", <<TargetOf(i, m)>> >>
    [] OTHER         -> <<"", <<>> >>
=============================================================================
