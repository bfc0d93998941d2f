---------------------------- MODULE PassPipeline ----------------------------
(***************************************************************************)
(* opt with some of the passes one after the other, as src/Makefile:26-27  *)
(* calls it, and then the function before the passes and the function      *)
(* after them, which run side by side on the same input.                   *)
(*                                                                         *)
(* The passes keep their own lattices and states; what one hands to the    *)
(* next is the function it has rewritten.                                  *)
(***************************************************************************)
EXTENDS Execution

CONSTANTS
  Functions,     \* the functions opt is given
  Passes,        \* the sequences of passes it is called with
  Effects        \* what a user function may write, as maps from variables

VARIABLES func, phase, bb_state, inst_state_in, changed, blk, idx, pending,
          cur_state

CP  == INSTANCE ConstantPropagation
DCE == INSTANCE DeadCodeElimination

EmptyState == CP!EmptyState

\* What LLVM guarantees of the functions it hands to a pass.
Opcodes == BinaryOps \cup ICmps
           \cup {"alloca", "load", "store", "sext", "phi", "call", "br", "ret"}

Instructions ==
  {i \in [op : Opcodes, name : Names, args : Seq(Operand), from : Seq(Nat)] :
     /\ \A x \in Operands(i) : x.kind = "const" => x.value \in Value
     /\ i.op = "phi" => i.args # <<>>
     /\ i.op \in {"load", "sext", "alloca"} => Len(i.args) = 1
     /\ i.op \in BinaryOps \cup ICmps \cup {"store"} => Len(i.args) = 2}

IsFunction(f) ==
  /\ f \in Seq([insts : Seq(Instructions), preds : SUBSET (1 .. Len(f))])
  /\ f # <<>>

\* A value is a constant, in a register or an argument; a pointer is the address of a global
\* variable or of one on the stack.
IsValue(x) ==
  \/ x.kind \in {"const", "undef"} /\ x.name = Unnamed
  \/ x \in {Reg(x.name), Arg(x.name)} /\ x.name # Unnamed

Registers(f) == {i.name : i \in Insts(f)} \ {Unnamed}

GlobalsOf(f) ==
  {x.name : x \in {y \in UNION {Operands(i) : i \in Insts(f)} : y.kind = "global"}}

IsPointer(f, x) ==
  \/ x = Global(x.name) /\ x.name \notin Registers(f) \cup {Unnamed}
  \/ x = Reg(x.name) /\ \E i \in Insts(f) : i.op = "alloca" /\ i.name = x.name

IsLabel(f, b, x) ==
  /\ x.kind = "block" /\ x.name \notin Registers(f) \cup GlobalsOf(f)
  /\ x.value \in 2 .. Len(f) /\ b \in f[x.value].preds

OperandsFit(f, b, i) ==
  LET n == Len(i.args) IN
  CASE i.op = "load"  -> IsPointer(f, i.args[1])
    [] i.op = "store" -> IsValue(i.args[1]) /\ IsPointer(f, i.args[2])
    [] i.op = "br"    -> /\ n \in {1, 3} /\ (n = 3 => IsValue(i.args[1]))
                         /\ \A k \in {1, 2, 3} : k <= n /\ (n = 3 => k # 1) => IsLabel(f, b, i.args[k])
    [] i.op = "call"  -> /\ n > 0 /\ i.args[n].kind = "function" /\ i.args[n].name \notin GlobalsOf(f)
                         /\ \A k \in 1 .. n - 1 : IsValue(i.args[k])
    [] i.op = "sext"  -> /\ IsValue(i.args[1]) /\ i.args[1].kind = "register"
                         /\ \A j \in Insts(f) : j.name = i.args[1].name => j.op \in ICmps
    [] OTHER          -> n > 0 /\ \A k \in 1 .. n : IsValue(i.args[k])

\* No two instructions have the same name, and none that of an argument.
NamesAreUnique(f) ==
  /\ \A b, d \in 1 .. Len(f) : \A k \in 1 .. Len(f[b].insts), l \in 1 .. Len(f[d].insts) :
       f[b].insts[k].name = f[d].insts[l].name =>
         f[b].insts[k].name = Unnamed \/ <<b, k>> = <<d, l>>
  /\ Parameters(f) \cap (Registers(f) \cup GlobalsOf(f)) = {}

\* What verifyModule(), the names src/compiler.h gives and LLVM's symbol tables
\* guarantee of the functions opt is given.
IsVerified(f) ==
  /\ NamesAreUnique(f)
  /\ \A b \in 1 .. Len(f) :
       /\ f[b].insts # <<>>
       /\ \A k \in 1 .. Len(f[b].insts) :
            LET i == f[b].insts[k] IN
            /\ i.op \in {"br", "ret"} <=> k = Len(f[b].insts)
            /\ i.op \in {"store", "br", "ret"} => i.name = Unnamed
            /\ i.op \notin {"store", "br", "ret", "call"} => i.name # Unnamed
            /\ i.op = "phi" => Len(i.from) = Len(i.args)
            /\ OperandsFit(f, b, i)

ASSUME FunctionsAssumption == \A f \in Functions : IsFunction(f) /\ IsVerified(f)

ASSUME EffectsAssumption ==
  EmptyState \in Effects /\ \A e \in Effects : \A n \in DOMAIN e : e[n] \in Value

VARIABLES
  source,         \* the function opt was given
  passes,         \* the pass that runs, and those to come
  before, after,  \* the machines that run source and func
  own,            \* the variables whose value source itself has stored last
  misjudged       \* source has done what ai_cp takes for something else

interpreterVars == <<func, phase, bb_state, inst_state_in, changed, blk, idx, pending, cur_state>>
runVars  == <<before, after, own, misjudged>>
pipeVars == <<interpreterVars, source, passes, runVars>>

Init ==
  /\ CP!Init
  /\ source = func
  /\ passes \in Passes
  /\ \E arg \in [Parameters(func) -> Value] : before = StartMachine(arg)
  /\ after = before
  /\ own = {} /\ misjudged = FALSE

RunPass ==
  /\ \/ Head(passes) = "ai_cp"  /\ CP!Next
     \/ Head(passes) = "ai_dce" /\ DCE!Next
  /\ UNCHANGED <<source, passes, runVars>>

\* The next pass gets the function the last one has rewritten, and no more.
NextPass ==
  /\ phase = "done" /\ Len(passes) > 1
  /\ passes' = Tail(passes)
  /\ phase' = "start"
  /\ bb_state' = <<>> /\ inst_state_in' = <<>>
  /\ changed' = FALSE
  /\ blk' = 1 /\ idx' = 1
  /\ pending' = {} /\ cur_state' = EmptyState
  /\ UNCHANGED <<func, source, runVars>>

-----------------------------------------------------------------------------
Opted == phase = "done" /\ Len(passes) = 1

Visible(f, m) == Current(f, m).op \in {"call", "br", "ret"}

MeetVisibly ==
  /\ Opted
  /\ Visible(source, before) /\ Visible(func, after)
  /\ Defined(Current(source, before), before)

SameSeen == Seen(source, before) = Seen(func, after)

Stored(f) == {i.args[2].name : i \in {j \in Insts(f) : j.op = "store"}}

\* i uses register n, and not only to ask whether it is 0.
UsesNumber(i, n) == Reg(n) \in Operands(i) /\ ~(i.op = "ne" /\ i.args[2] = Const(0))

\* What ai_cp misjudges of the instruction i of f that machine m is about to
\* step over, where f itself has stored the variables vars last: an int that
\* wraps around or a quotient cut down to zero, a variable that another function
\* or nobody has given its value, a true comparison used as the number -1, a
\* function with the name of a register.
Misjudges(f, vars, i, m) ==
  \/ i.op \in BinaryOps /\ ~Exactly(i, m)
  \/ i.op = "load" /\ i.args[1].name \in Stored(f) \ vars
  \/ i.op = "sext" /\ Truth(i.args[1], m) /\ \E j \in Insts(f) : UsesNumber(j, i.name)
  \/ i.op = "call" /\ \E j \in Insts(f) : j.op # "call" /\ j.name = CalleeOf(i)

\* source steps over an instruction that is not seen from outside.
RunBefore ==
  LET i == Current(source, before) IN
  /\ Opted
  /\ ~Visible(source, before) /\ Defined(i, before)
  /\ before' = After(source, before, 0, EmptyState)
  /\ own' = IF i.op = "store" THEN own \cup {i.args[2].name} ELSE own
  /\ misjudged' = (misjudged \/ Misjudges(source, own, i, before))
  /\ UNCHANGED <<interpreterVars, source, passes, after>>

\* func does, up to where source waits.
RunAfter ==
  LET i == Current(func, after) IN
  /\ Opted
  /\ Visible(source, before)
  /\ ~Visible(func, after) /\ ~Traps(i, after)
  /\ after' = After(func, after, 0, EmptyState)
  /\ UNCHANGED <<interpreterVars, source, passes, before, own, misjudged>>

\* Both step over what is seen of them.
RunBoth(input, effect) ==
  LET i == Current(source, before) IN
  /\ MeetVisibly
  /\ i.op # "ret"
  /\ i.op # "call" => input = 0
  /\ effect # EmptyState => CallsUserFunction(i)
  /\ SameSeen
  /\ before' = After(source, before, input, effect)
  /\ after' = After(func, after, input, effect)
  /\ own' = own \ DOMAIN effect
  /\ misjudged' = (misjudged \/ Misjudges(source, own, i, before))
  /\ UNCHANGED <<interpreterVars, source, passes>>

Next ==
  \/ RunPass \/ NextPass
  \/ RunBefore \/ RunAfter \/ \E input \in Value, effect \in Effects : RunBoth(input, effect)

Spec == Init /\ [][Next]_pipeVars

-----------------------------------------------------------------------------
(* The passes keep what the function does (MyPasses.cc:254-329, 824-867):  *)
(* it calls the same functions with the same arguments, takes the same     *)
(* branches and returns the same value.                                    *)
SameBehaviour == MeetVisibly => SameSeen

(* Where they do not, the run has come by something that ai_cp misjudges,  *)
(* one of the four kinds of Misjudges; all else is kept, on every input,   *)
(* whatever the order of the passes.                                       *)
DiffersOnlyMisjudged ==
  MeetVisibly /\ ~misjudged /\ ~Misjudges(source, own, Current(source, before), before)
    => SameSeen

(* A pass is stopped by an assertion only where an instruction has more    *)
(* than three operands, one that is undefined, or is an alloca; where a    *)
(* divisor is known to be zero; or where two zeros meet.  The others,      *)
(* those on Bottom and Top (MyPasses.cc:187-206, 551-775, 891-892), never  *)
(* fail.                                                                   *)
AbortsForACause ==
  phase = "aborted" =>
    LET i == func[blk].insts[idx]
        Element(k) == CP!ElementOf(i.args[k], cur_state)
    IN  \/ Len(i.args) > 3
        \/ \E x \in Operands(i) : x.kind = "undef"
        \/ i.op = "alloca"
        \/ i.op = "sdiv" /\ Element(2) \in {SingleValue(0), Zero}
        \/ {Element(1), Element(2)} \in {{Zero}, {Zero, SingleValue(0)}}
=============================================================================
