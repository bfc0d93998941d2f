# A TLA+ verification of mila+ and its LLVM passes

mila+ compiles a small Pascal-like language to LLVM IR (`src/`, C++), and
`passes/` holds passes for `opt` that analyse and rewrite that IR by abstract
interpretation. Everything runs on one thread; what is hard here is not
concurrency but fixed points, analyses that must be right for every input, a
code generator whose state (`bb`, `result`, the contexts) is left over from
whatever was compiled before, and a front end whose grammar is ambiguous and
whose input may end anywhere. Paths below are relative to the repository.

## Inventory

| Component | State | Operations | What makes it correct |
| --- | --- | --- | --- |
| `AbstractInterpretation<T>`, `passes/src/AbstractInterpretation.h` | `bb_state_`, the state under way, `changed` | `mergeStates`, `mergePredecessorStates`, `runOnFunction` | it ends; when it ends the states solve the data flow equations; merging does not depend on an order |
| `BasicLattice`, `passes/src/MyPasses.cc` | none | `getParent`, `toSameRank`, `getLeastUpperBound`, `isGreaterThan`, the rules in `flowState` | least upper bounds; the rules describe what the instructions compute and are monotone |
| `ConstantPropagation` (`ai_cp`) | `inst_state_in_` | `flowState`, `postprocess` | the rewritten function does the same; no assertion fails |
| `DCELattice`, `DeadCodeElimination` (`ai_dce`) | none of its own | `flowState`, `postprocess` | erases what no instruction uses, and nothing that is used |
| `Compiler`, `src/compiler.h` | `m`, `f`, `bb`, `c`, `result` | one `visit` per node | rejects exactly the illegal programs; emits well formed IR |
| `Scanner`, `src/mila/scanner.h` | position, line, column, tokens, cursor | `next`, `top`, `pop`, `revert` | comes to the end of every file; the tokens are its lexemes, each at its place; the cursor stays on a token |
| `Parser`, `src/mila/parser.h` | the scanner's cursor, the stack of calls | one `parse` per rule | builds the one reading meant of an ambiguous grammar, and rejects exactly what has none; takes back only what it took |
| AST, `src/mila/ast.h` | the tree | constructors, `accept` | data |
| `Printer`, `src/mila/printer.h` | none | one `visit` per node | prints the program that is compiled |
| Driver, `src/main.cpp` | the arguments | `main` | ends as the arguments and the file call for |
| Pass pipeline, `Makefile` | the file between two passes | `opt` | passes do not depend on what another left behind |
| JIT, Runtime | none | `JIT::compile`, `read_`, `write_` | run what was compiled |
| CFG walker, `src/abstractinterpretation.cc` | `visited_` | `visitBasicBlock` | unused: its calls are commented out |
| `DummyAI`, `CheckNames`, `Hello` | none | print | output |

The parts are joined by calls and by files: the driver hands the scanner's
tokens to the parser, its tree to the compiler, and the module either to the
JIT or, with `--emit`, to a file. The `Makefile` runs `opt -mem2reg` on that
file and then `opt` with the passes. The passes call back: `runOnFunction()` of
the template calls the virtual `flowState()` and `postprocess()` of the
analysis.

## Modules

| Module | Models |
| --- | --- |
| `BasicLattice` | elements, `getParent`, `toSameRank`, `getLeastUpperBound`; integers are `MinInt .. MaxInt`, two's complement |
| `BasicArithmetic` | `isGreaterThan`, the rules of `flowState` for instructions with two operands (`Transfer`), where they do not return (`Aborts`), and beside them what the instructions compute |
| `LatticeMerge` | what becomes of one name while predecessors are merged, in any order |
| `LatticeArithmetic` | a register beside its element through chains of instructions; the concrete and the abstract side of the rules |
| `AbstractInterpretation` | `runOnFunction()`, for any lattice, analysis and functions; they are its CONSTANTs |
| `LLVMFunction`, `Execution` | external: the IR as the passes read it, and what running it does |
| `ConstantPropagation`, `DeadCodeElimination` | the two analyses; each INSTANCEs `AbstractInterpretation` with its own lattice, `FlowState` and `Postprocess` |
| `PassPipeline` | `opt` with a sequence of passes, then the original and the rewritten function side by side |
| `DataFlow` | what the interpreter promises: a chaotic iteration of the data flow equations |
| `AbstractInterpretationRefinement` | the mapping under which `AbstractInterpretation` implements `DataFlow` |
| `LLVMVerifier` | external: the IR as the compiler builds it, and `verifyModule()` |
| `Compiler` | the code generator; what a method does between two `accept()` calls is an action, the calls still to be made are a stack |
| `CompilerBlocks` | where the compiler builds; its ASSUME is the grammar of trees the constructors of `ast.h` allow |
| `CompilerRules` | the rules of the language, stated on the tree: which nodes return, what each demands of the declarations around it |
| `CompilerLegality` | that the compiler rejects what breaks them and nothing else |
| `CompilerProperties` | when the IR is well formed |
| `Scanner` | `next()` and the methods it calls, a character at a time |
| `Parser` | the recursive descent, a call at a time, and the token cursor |
| `Printer` | the lexemes `--verbose` prints of a tree |
| `Driver` | `main()`: the arguments, and `Scanner`, `Parser`, `Printer` and `Compiler` one after the other |
| `ScannerProperties`, `ParserProperties`, `DriverProperties` | the lexemes of a text, the readings of tokens by the grammar, both stated without the machines; and the properties of the three |
| `BasicLatticeTheorems`, `LatticeTheorems`, `AbstractInterpretationTheorems`, `DeadCodeEliminationTheorems`, `PassPipelineTheorems`, `CompilerTheorems`, `ScannerTheorems`, `ParserTheorems` | theorems and proofs, and the invariants that only the proofs need |
| `MC...`, `MCPrograms` | instances for TLC, and the programs they run on |

`AbstractInterpretation`: `phase` is where `runOnFunction()` is. `SetInitialStates`
is lines 61-75, `StartRound` the head of the `while`, `MergePredecessorState`
one turn of the loop in `mergePredecessorStates`, `InterpretInst` one call of
`flowState`, `Abort` a call that does not return, `SetOutState` lines 92-96 with
the step to the next block, `Finish` the end with `postprocess`. The order of the
predecessors is any order; `FlowState` is a function of instruction and state,
as the virtual method is.

`ConstantPropagation`: `inst_state_in` is the pass's own map `inst_state_in_`,
kept in the interpreter's module since it is the state each instruction was last
given. A state maps names to elements; a key of the code that is not there is a
name outside the domain, and `ElementOf` gives it `Any` as the code does.

`PassPipeline` composes the two analyses over the same state of the interpreter:
`RunPass` is a step of the pass that runs, `NextPass` hands the function it has
rewritten, and nothing else, to the next. Then `RunBefore` and `RunAfter` step the
two functions over what is not seen from outside, and `RunBoth` over what is, with
the same answer of `read_` and the same assignments by a function called. `misjudged`
remembers that the original has come by something the analysis takes for something
else; `Misjudges` names the four kinds. The original goes on only where LLVM says what
an instruction does (`Defined`): not where it divides by zero, divides the least int by
-1, or reads a value that is undefined or was never computed. The arguments of the
function are any ints, the same for both; they are operands of a kind of their own, which
no instruction writes and for which `ai_cp`, that finds no such name in its states, takes
`Any`. The phis of a block are evaluated together, as LLVM has it: a machine keeps the
registers as they were when it entered the block (`old`), and a phi reads those, also
where another phi of the block has been stepped over (a swap of two locals in a loop).
`IsFunction` and `IsVerified` are what the functions are known to be: that they are made of
the instructions `compiler.h` emits, less what mem2reg removes; what `verifyModule()` checks
of these; and which names can meet. No two instructions have the same name, and none that
of an argument (`NamesAreUnique`); LLVM's symbol tables keep labels and registers of a
function apart, and functions and globals of a module, and the names `compiler.h` gives
keep globals apart from both. A function and a register may have the same name.

`DataFlow` has one action for each data flow equation, which makes it true, and
`End`, which needs all of them to be. `AbstractInterpretationRefinement` maps the
states of the interpreter to those of `DataFlow` by identity, but before it has set
them up. A step of `mergePredecessorStates` is a stutter: the state under way is no
state of `DataFlow`. `InterpretInst` is `EnterBlock` for the first instruction of a
block and `Interpret` for the others, `SetOutState` is `LeaveBlock`.

`Scanner` (the part of `Driver` that it extends, with a specification `ScanSpec` of its own):
`at` is the method that reads, `t` its variable. Characters are strings
of one character, the end of the file the empty one; `col` counts on at the end of
the file, up to `MaxCol`. `MinInt` is the least int; a number wraps around to it, as
signed overflow does in what is built. `tokens` are those of the constructor's loop.

`Parser`: `todo` is the stack of calls, `values` what the methods under way hold.
An action is what a method does up to its first call; the calls it will make are
pushed (`Predict`). Two details are kept that a grammar would lose: `pop()` does not
move past the last token while `revert()` always moves, and in
`new Module(top(), ..., parseBlock())` the compiler may evaluate the arguments in any
order (`ParseMain`), so that the assertion of `MakeModule` may see the token after
the program.

`Driver`: `stage` is where `main()` is. Each part is an INSTANCE with its own
variables; `EndScan`, `EndParse` and `EndCompiler` hand a result on or `Catch` the
exception. A last `--emit` reads the null pointer after the arguments; printing it
makes `std::cout` fail (`muted`). `Emit` does not ask whether the file could be opened
either; LLVM's stream ends the program where it could not, and mila+ is then neither
done nor has it failed in its own way (`aborted`). A compiled program that runs (`Execute`) may return,
trap or go on.

`Compiler`: `code`, `arity`, `f`, `bb`, `c`, `result` are the members of the class.
The block 0 is `nullptr`. Which arithmetic operator or which comparison a
binary expression applies is left out, and so is the value of a number: neither
changes what the compiler does next. A `phi` operand that is a null pointer (on
which LLVM asserts or crashes) counts as IR that is not well formed.

## Runs

All bounds are constants of the `.cfg` files and `MC` modules.

| Run | Question | Bounds |
| --- | --- | --- |
| `lattice_merge` | is the merge the least upper bound, in any order? | ints -4..3: every sign with several values; all subsets of the 14 elements |
| `lattice_arithmetic` | do elements describe registers, is the arithmetic monotone? | ints -8..7: room for sums and products that do not wrap; every operand |
| `arithmetic_truncates` | ... also when a quotient truncates? No | ints -4..3 |
| `interpreter` | does the loop end, in a solution, and is every step one of the equations? | every graph of three blocks (self loops, blocks without predecessors), bodies of one and two instructions, one that aborts |
| `cp_soundness` | does the rewritten function do what the original did? where do the passes stop? | ints -4..3; `ai_cp` and `ai_dce` in both orders; conditionals, loops, a loop in a branch whose blocks come late, early returns; functions with arguments, loops whose phis read one another; programs with each of the causes named; all arguments, all inputs at every `read`, and functions called that assign a global or do not |
| `cp_join` | ... also when only one branch assigns a variable? No | one program |
| `cp_termination` | does the loop end for constant propagation? No | one program of seven blocks |
| `cp_zero` | does the assertion about two zeros hold? No | one program |
| `dce` | does DCE end, erase the unused and keep the used? | every choice of operands in a loop over a local variable and in a branch, and the programs of `cp_soundness` |
| `compiler` | which programs are rejected, where is code built, which IR is invalid? | 8944 programs: nesting two deep, pairs of a function and a main block, one name declared at up to four levels, two functions and their names |
| `compiler_return` | does every body end in a return? No | an empty function and an empty main block |
| `front_end` | what are the tokens, the tree, the output and the end of mila+? | texts of up to three of fourteen characters (letters that make a keyword, digits, braces, operators that continue and that do not, white space, an unknown one) and of four of eight; main blocks of up to four of seven words of expressions, and of up to three of fourteen words of statements; six programs with every construct, each word left out or replaced, and each cut off at every word; up to four of four arguments; ints from -32, so that two digits overflow; `MaxCol` 100, beyond every text |

What the passing runs say:

- `MergeIsLeastUpperBound`, `UnrolledIsRecursive`: the merge is an upper bound
  and the least, so it has no order; the modules' closed form of
  `getLeastUpperBound` agrees with the recursion of the source.
- `ValueDescribed`, `ArithmeticMonotone`: without wrapping and truncation the
  rules are right and monotone. The element of the operand may be any that
  describes it, so that every rule is met.
- `FixedPoint`, `RoundInv`, `MergedNoFurther`, `Termination`: `changed` is enough to
  know that a round in which every block saw a mixture of old and new states is a
  solution, and the least one can merge.
- `IteratesTheEquations`: rounds, the order of blocks and predecessors and the flag
  are one way to iterate the equations; in particular a block starts from its
  predecessors alone.
- `DiffersOnlyMisjudged`: the calls of `read_`, `write_` and other functions, the
  branches and the value returned stay the same, unless the run has come by an int
  that wraps or a quotient that truncates, a global that another function or nobody
  has given its value, a true comparison used as a number, or a function with the
  name of a register. It speaks of the places where both stand before something seen
  from outside and the original is defined. See the proofs. Leaving out any of the four kinds violates the property on the
  programs of the run, so each of them really changes what is done.
- `AbortsForACause`: `opt` is stopped by more than three operands, an undefined
  operand, an alloca left by mem2reg, a divisor known to be zero or two zeros; the
  assertions about `Bottom` and `Top`, that of `ai_dce` included, do not fail.
- `ErasesTheUnused`, `OperandsRemain`, `OutStatesRise`, `Termination`: dead code
  elimination is right, in every order of definition and use across blocks.
- `RejectsTheIllegal`: the walk of the compiler with its contexts and `bb`
  decides the rules that `LegalModule` (`CompilerRules`) states on the tree, scoping
  and code after `return` included. See the proofs.
- `BuildsIntoAnOpenBlock`: no instruction goes to a null block or after a
  terminator; where the compiler asks whether there is a block (the end of a body, of
  the cases of an `if` and of a loop) and there is one, it is still open.
- `InvalidOnlyByOldResult`: "Invalid LLVM bitcode produced" has one cause, that
  `result` is used where this function or this case has not set it: an empty
  block or a `while` at the start of a body or of the false case of an `if`.
- `TokensAreLexemes`: the tokens are the longest lexemes outside of comments, each
  with its value and at its line and column, and a failure is at a character that
  starts none.
- `ParsesByTheGrammar`: the grammar of the comments in `parser.h`, with optional
  semicolons, gives some programs several readings (`a - 1` may be one statement or
  two, an `else` may belong to two ifs). The parser builds the one in which every
  phrase is as long as it can be, rejects exactly what has no reading, and only
  aborts where the token after the program is not `begin`, by the order of
  evaluation.
- `TakesBackIdentifiers`: see the proofs.
- `PrintsTheProgram`: what `--verbose` prints reads as the program compiled exactly if
  its tree needs no parentheses, no declarations in blocks, no semicolon before a
  sign and has no negative number.
- `ExitsByTheInput`: mila+ emits or runs only the legal programs it was asked to, and
  fails only for a cause in its arguments, characters, tokens or tree. It says of each end
  which arguments lead to it: emitted if the last `--emit` has a name that can be
  written, ended by LLVM if it has one that cannot, run if it has none. Two mutants show
  that it tells these apart: an `--emit` whose name is read again as an argument, and a
  file that is taken as emitted although it could not be opened.
- `EndsUnlessInComment`: it ends, or runs what it has compiled, or is in a comment
  that is never closed.

`lattice_merge` does not check for deadlock, because a merge comes to its end.

The violation runs show disagreements with a comment, an assertion or the
purpose of the code; each is a finding in `PROJECT.json`: the loop of the
interpreter need not end (`cp_termination`), a sign rule disregards that division
truncates (`arithmetic_truncates`), a join keeps a constant that only one side
knows (`cp_join`), an assertion about zeros does not hold (`cp_zero`), and a stale
`result` leaves a function without a return (`compiler_return`).

### Fairness

`FairSpec` is `Spec /\ WF_vars(Next)` for the passes: `opt` runs a pass on one thread
and to its end, so that a step that can be taken is taken. That of `Driver` is
`Spec /\ WF_vars(Step)`: the same holds of mila+ up to `Execute`, which is left out,
because a compiled program need not end. No fairness is put on any action of its
own. `Termination` and `EndsUnlessInComment` are the properties that need it.

## Proofs

Proved by TLAPS, for every value of the constants:

- `BasicLatticeTheorems`, for every width of int (`IntRangeAssumption`): the
  tree order is a partial order, `getLeastUpperBound` is an upper bound, the
  least one, and commutative. `RecursionUnrolled`: the closed form in which the
  modules write it is a solution of the recursion of the source, so that what is
  proved of the one holds of the other.
- `LatticeTheorems`: `MergeSpec => []MergeIsLeastUpperBound`, by an induction over
  the merges in which the invariant is the property with its types. For every width
  of int, `RulesAreMonotone` and `ElementDescribesValue`. Both assume `~Wraps` and
  `~Truncates`, and neither holds without: 1 / 2 is 0, which is not below the `Positive`
  that the signs of 1 and 2 give. That is the choice of chains the run `lattice_arithmetic` makes; the
  run `arithmetic_truncates` shows that the second fails where a quotient truncates.
  The invariant is the two properties with their types. Beneath it are the rules of
  signs for each operation and the cases of each lattice element.
- `AbstractInterpretationTheorems`, for every lattice, analysis and function:
  `TypeCorrect`, `RoundsSolve` and `FixedPointReached`. The constants are assumed
  to be as the code has them: functions are well formed (`FunctionsAssumption`),
  the bound is above its arguments (`LatticeAssumption`), the order is reflexive and
  transitive (`OrderAssumption`), `flowState` returns states
  (`FlowAssumption`); TLC evaluates these on the instance of `interpreter`. No
  monotonicity is assumed. `FixedPoint` is not inductive: it speaks of the end of
  a round. The invariant `RoundInv` adds that in a round without a change so far
  the equations hold of the blocks already interpreted, and `Underway` that the
  block under interpretation has its merged predecessors below its in state and
  its instructions applied up to the next one. The step that needs thought is
  `SetOutState` with `~changed'`: then the out state kept is the one replaced, and
  no equation solved before it is disturbed.

  With `LeastAssumption` (the bound is below every other one) also `MergesNoFurther`,
  by an invariant that says how low the state under way is, as `Underway` says how
  high; and `ImplementsDataFlow`, that is `Spec => IteratesTheEquations`: every step
  is an equation made true or a stutter. `End` is where both invariants are needed.

  Last comes `OutStatesOnlyRise`. It is about a set of states the analysis keeps to
  (`Kept`), on which `flowState` is monotone. That an out state is not above the next
  one cannot be told from the states of one round; the invariant `RiseInv` says that
  it is below what the block would leave when interpreted from anything above the out
  states of its predecessors (`Chains`), and the interpretation under way is one of
  these.
- `DeadCodeEliminationTheorems`: `ErasesExactlyTheUnused`, by the invariant that
  states call used only what is read (`Quiet`), and know what has been interpreted
  in the round (`Recorded`); and `UsesOnlyRise`, an instance of `OutStatesOnlyRise`. The
  states kept to are those without `Bottom`: with it `flowState` is not monotone.
  Assumed is only that the functions are well formed. `NoDanglingUse` says
  that no operand of what is left has been erased; it assumes of the functions
  that the registers their instructions read are computed in them (`OperandsComputed`),
  as the verifier of LLVM requires, and rests on the same invariant. Arguments, constants,
  globals, functions and blocks are no registers, and the functions may read them.
- `PassPipelineTheorems`, for every function and every sequence of the two passes,
  for every width of int. `FunctionsAssumption` of `PassPipeline` says that the
  functions are made of the instructions `compiler.h` emits, less what mem2reg removes, and
  what LLVM's verifier lets a pass rely on (`IsFunction`: which operands an opcode has, that
  constants are ints, that a predecessor is a block; `IsVerified`: where terminators are,
  what is named and by how many, what a pointer or a label is). Functions with other
  instructions are not spoken of. An argument of a function is any int; TLC evaluates it on the functions of
  `cp_soundness`.
  `StopsOnlyForACause`, that is `Spec => []AbortsForACause`. The invariant `PipeInv`
  adds three facts. A function a pass has rewritten is still one, so that the next pass
  may rely on the same. No state of `ai_dce` knows a name as `Bottom`. And the states of `ai_cp`, kept or under way, know a name by
  `Informed` elements, neither `Bottom` nor `Top`: `ToSameRank` and the rules end in
  `assert` or the lack of a case on these, and only these; a merge with nothing and
  every rule (`TransferStays`) stays among them. TLC checked `PipeInv` on the instance
  of `cp_soundness` before it was proved.
  `BehaviourKeptUntilMisjudged`, that is `Spec => []DiffersOnlyMisjudged`: the passes are
  right, but for the four kinds. It goes in four steps.
  - What `ai_cp` knows in the end is right (`ReachedSound`): in any configuration the
    function gets to without misjudging anything, on any input, each register and each
    variable the function has itself stored last is known and described by its element.
    This is an induction over runs, with the equations the interpreter has solved and
    the soundness of the rules (`DescribesFacts`, shared with `ElementDescribesValue`).
    A `sext` of a comparison is the exception that `Tells` allows: it holds -1 where the
    element says 1, as long as it is only asked whether it is 0. As a phi reads the
    registers as they were at the entry of its block, the states have to be right of those
    as well (`Fits`); they are because what an instruction makes known of its register
    is right wherever the register has a value, long after the step (`Born`), and names are
    unique, so that it is the only one to do so. An argument is `Any` throughout.
  - So what a pass leaves agrees with the function `opt` was given (`Agree`): `e` says
    which instruction each of those left was, `E` which registers are gone. An operand
    that has been replaced is a constant equal to what is read there in every run that
    has misjudged nothing. The agreement is with the first function and not with the one the pass was
    given, for any pass after the first reads what another has rewritten; `StaticInv`
    carries it from pass to pass, with the invariants of the two interpreters taken
    from their own theorems. `IsVerified` itself need not survive a pass, and does not.
  - Where the two machines are at the same instruction they do the same (`AtSame`).
  - The invariant `TrackInv` says how they get there: the rewritten function is where
    the original was when it last met it, or at the first instruction left after that
    place (`Trails`), with equal variables and equal registers but for those in `E`
    (`Synced`). The original may be ahead by instructions that have been erased and by
    some that are still to be done.
  What is not said is that the rewritten function comes along: that is liveness.
- `CompilerTheorems`, for every tree of the grammar (`GrammarAssumption`):
  `BuildsOnlyIntoOpenBlocks`. That a block is open where one builds into it is not
  inductive, as `bb` is left over from the call before. `BlocksInv` speaks of the
  whole stack of calls: the ones up to the `finish` of the body under way are
  those of statements, the others those of functions; the blocks that conditionals
  and loops are going to enter are empty, not the current one, and no two calls
  hold the same; and a call that builds without asking for `nullptr` comes after
  one that keeps the block open, which is one for an expression, since only
  `return` sets `bb` to `nullptr` inside a body and only statements contain it. Each action replaces
  the first call by those that follow from it, so two lemmas, `InnerStep`
  inside a body and `OuterStep` outside of one, carry most of the proof. TLC checked
  `BlocksInv` on the instance of `compiler` before it was proved.
  `RejectsExactlyTheIllegal`, that is `Spec => []RejectsTheIllegal`. `CompilerRules` does
  not walk the tree with a context: a node demands names, variables and functions,
  a block meets those of the names it declares, and what is left has to be met by the
  module. The walk finds the first rule broken in its own order, with contexts that come
  and go and a `bb` that is `nullptr` or not, so the invariant `LegalInv` has to tell at
  each moment what the rest of the walk will say. It gives each call on the stack a
  view, what that call will find: whether `bb` is open, the scope of each context, and
  the functions known (`StackLegal`). The first view is the present state (`Finds`), each
  call leads from its view to the next one (`Leads`), and the program is legal exactly
  if every call accepts what it finds (`Accepts`). A step replaces a call by those that
  follow from it, which have to lead from and to the same views and together accept
  what it accepted (`Advance`); `ThrowIsIllegal` is for the ones that throw. `BlocksInv` is
  needed to know that `bb` is open inside an expression. `Returns` and `Demands` are
  recursive functions on the nodes, which have to be shown to exist for a set of
  nodes that is not known to be finite: they are fixed points of monotonic functions
  (`MonotonicHasFixedPoint`). The view of the present state is determined by it and
  those after it by `Leads`; with these, TLC checked the invariant on the instance of
  `compiler` before it was proved.
- `ScannerTheorems`, for every text, of any length, and every width of int
  (`TextsAssumption`, `IntAssumption`): `ReadsTheText` and from it `TokensCorrect`, that is
  `Spec => []TokensAreLexemes`. The property speaks of the end, where the whole text
  has been read. The invariant `ScanInv` says at every character what the
  machine holds, in words that do not know it: the tokens are the lexemes that start
  up to there (`ReadUpTo`), none goes on behind it, `skip` is whether a comment is
  open (`Open`), and `line` and `col` count the newlines of the text (`PlaceOf`). In
  the middle of a lexeme `InvLexeme` has its first character and the digits or word
  characters up to the last got. TLC checked `ScanInv` on short texts before it was
  proved; no run does, since it follows the whole text in every state. Beneath it are the equations of the recursive
  functions, which have to be shown to have a solution (`StartsEquations`,
  `NumeralEquations`, `SpellingEquations`); that each kind of lexeme ends where the
  machine ends it (`OperatorEnds`, `DoubleOperatorEnds`, `NumberEnds`, `WordEnds`); that
  wrapping around at each digit is wrapping around once (`WrapStep`); and that a character
  of a failure stays a lexeme that starts nothing, whatever comes after it
  (`StoppedAt`). That the text is short enough for `MaxCol` is assumed, since the bound
  is the model's.
- `ParserTheorems`, for all tokens that end in `eof` (`WellFormed`, which `front_end` checks of
  the scanner's as part of `ParsesByTheGrammar`): `CursorStaysInside` and
  `TakesBackOnlyIdentifiers`. Both rest on one invariant: while the call that may
  take a token back is on the stack, it is on top, and the token before the cursor
  is an identifier, so that taking it has moved the cursor.

Inductions over numbers have the form of a set without a least element
(`NaturalInduction`), as no operator can be handed to a theorem.

Only model-checked:

- the liveness properties, which are out of reach of the prover;
- what needs induction over trees: the readings, the printing and what is valid IR
  (`ParsesByTheGrammar`, `PrintsTheProgram`, `ExitsByTheInput`, `InvalidOnlyByOldResult`);
- `UnrolledIsRecursive`, since its RECURSIVE operator cannot be used in a proof;
  `RecursionUnrolled` is what is proved in its place.

`CompilerProperties`, `ParserProperties`, `Printer`, `DriverProperties` and
`MCLatticeMerge` use RECURSIVE operators and hold no theorem.

## Not modelled

- mem2reg: it is LLVM's; the programs of the `MC` modules are written as it leaves
  them, allocas and undefined values it cannot remove included.
- JIT and runtime: `Driver.Execute` and the calls of `PassPipeline` are what is seen
  of them. What `read_` returns where the input has ended is not initialised; nothing
  in the repository says what it should be.
- The memory of the tree: nodes and their destructors. mila+ never deletes the tree of
  a program it accepts.
- The IR that `--verbose` prints, dumps to `errs()`, names of instructions and blocks
  for debugging, white space in what is printed.
- The table of symbols: equal names get equal numbers, so that names stand for them.
- The CFG walker and the passes `DummyAI`, `CheckNames` and `Hello` only print; the first
  is not called.
- Names ending in `_` in `ai_dce`: only globals have them, as the scanner lets no
  identifier contain the character.
- The pass identities (`char ID` given by value to `FunctionPass`): they keep no state
  that a property could be about.
