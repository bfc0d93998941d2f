--------------------------- MODULE DriverProperties ---------------------------
(***************************************************************************)
(* What a user of mila+ may rely on: the arguments and the file decide how *)
(* it ends.                                                                *)
(***************************************************************************)
EXTENDS Driver, ScannerProperties

ParseProps == INSTANCE ParserProperties WITH todo <- calls, TokenSeqs <- {}
CompileProps == INSTANCE CompilerProperties WITH Modules <- {}

\* What the parser would make of the lexemes printed.
Reread ==
  INSTANCE ParserProperties
    WITH tokens <- printed \o <<[type |-> "eof"]>>, todo <- calls, TokenSeqs <- {}

(* While mila+ parses, what it builds is a reading of the scanner's tokens *)
(* by the grammar, and it rejects those that have none (parser.h:36-318).  *)
ParsesByTheGrammar ==
  stage = "parse" /\ parsed # "parsing" =>
    Parse!WellFormed(tokens) /\ ParseProps!ParsesByTheGrammar

-----------------------------------------------------------------------------
\* Argument k is the name that an --emit before it takes: an odd number of
\* arguments --emit end just before it.
IsEmitName(k) ==
  Cardinality({j \in 1 .. k - 1 : \A n \in j .. k - 1 : argv[n] = "--emit"}) % 2 = 1

IsEmit(k) == argv[k] = "--emit" /\ ~IsEmitName(k)

Emits == {k \in DOMAIN argv : IsEmit(k)}

\* The arguments that name files to compile.
FileArguments ==
  {k \in DOMAIN argv : ~IsEmitName(k) /\ argv[k] \notin {"--emit", "--verbose"}}

WellUsed == \E k \in DOMAIN argv : FileArguments = {k} /\ argv[k] \in DOMAIN files

\* The name the last --emit takes, if one follows it.
EmitNames == {argv[k + 1] : k \in {j \in Emits : j < Len(argv) /\ \A l \in Emits : l <= j}}

LegalProgram ==
  CompileProps!LegalModule(module, UNION {CompileProps!Nodes(n) : n \in CompileProps!BodiesOf(module)})

(* mila+ compiles a file only if it is used as the message of              *)
(* main.cpp:38 says, all its characters are known, it has a reading by the *)
(* grammar and the program follows the rules of the language.  It then     *)
(* emits the result if the last --emit has a name that can be written,     *)
(* is ended by LLVM if it has one that cannot, and runs it if it has none. *)
(* It fails only if the arguments, the characters, the grammar or the      *)
(* program are at fault, or the IR is invalid (main.cpp:29-74).            *)
ExitsByTheInput ==
  /\ stage \in {"emitted", "returned", "killed"} \/ (stage = "aborted" /\ parsed # "aborted") =>
       /\ WellUsed
       /\ ~HasUnknown(text)
       /\ ParseProps!Modules(TRUE) # {}
       /\ LegalProgram
       /\ (stage = "emitted") = (EmitNames \cap Writable # {})
       /\ (stage = "aborted") = (EmitNames \ Writable # {})
  /\ stage = "failed" =>
       \/ ~WellUsed
       \/ HasUnknown(text)
       \/ at = "done" /\ ParseProps!Modules(FALSE) = {}
       \/ module.kind = "module" /\ (status = "invalid" \/ ~LegalProgram)

-----------------------------------------------------------------------------
LevelOf(n) ==
  CASE n.kind = "binary" -> CHOOSE k \in 1 .. 3 : n.op \in Parse!OperatorsOf[k]
    [] n.kind = "unary"  -> 4
    [] OTHER             -> 5

\* Statement n is printed with an expression at its end.
RECURSIVE EndsInExpression(_)
EndsInExpression(n) ==
  CASE n.kind \in {"block", "read"} -> FALSE
    [] n.kind = "if"    -> EndsInExpression(n.falseCase)
    [] n.kind = "while" -> EndsInExpression(n.body)
    [] OTHER            -> TRUE

StartsWithSign(n) == Printing!Printed(n)[1].type \in {"+", "-"}

\* Printing loses the parentheses, the declarations of blocks and the
\* semicolons, and gives a number that overflowed a sign; node n needs none of
\* the former, as a sign belongs to the expression before it, and has no such
\* number.
RECURSIVE ReadsBack(_)
ReadsBack(n) ==
  LET All(ns) == \A k \in 1 .. Len(ns) : ReadsBack(ns[k]) IN
  CASE n.kind = "module" -> All(n.functions) /\ ReadsBack(n.body)
                              /\ \A k \in 1 .. Len(n.declarations) :
                                   n.declarations[k].constant =>
                                     ReadsBack(n.declarations[k].value)
    [] n.kind = "function" -> ReadsBack(n.body)
    [] n.kind = "block"  ->
         /\ n.declarations = <<>>
         /\ All(n.statements)
         /\ \A k \in 1 .. Len(n.statements) - 1 :
              ~(EndsInExpression(n.statements[k]) /\ StartsWithSign(n.statements[k + 1]))
    [] n.kind = "write"  -> ReadsBack(n.expression)
    [] n.kind \in {"return", "assignment"} -> ReadsBack(n.value)
    [] n.kind = "if"     -> ReadsBack(n.condition) /\ ReadsBack(n.trueCase) /\ ReadsBack(n.falseCase)
    [] n.kind = "while"  -> ReadsBack(n.condition) /\ ReadsBack(n.body)
    [] n.kind = "call"   -> All(n.arguments)
    [] n.kind = "binary" -> /\ LevelOf(n.lhs) >= LevelOf(n) /\ LevelOf(n.rhs) > LevelOf(n)
                            /\ ReadsBack(n.lhs) /\ ReadsBack(n.rhs)
    [] n.kind = "unary"  -> LevelOf(n.operand) >= LevelOf(n) /\ ReadsBack(n.operand)
    [] n.kind = "number" -> n.literal >= 0
    [] OTHER             -> TRUE

(* What --verbose prints is the program that is compiled, exactly where    *)
(* the tree needs neither parentheses nor declarations in blocks nor a     *)
(* semicolon before a sign (printer.h:127-170); where it does, what is     *)
(* printed reads as another program or as none.                            *)
PrintsTheProgram ==
  stage = "tree" /\ printed # <<>> =>
    (Reread!Modules(TRUE) = {Reread!Reading(Head(values), Len(printed) + 1)}
       <=> ReadsBack(Head(values)))

-----------------------------------------------------------------------------
(* As the parser of mila+ takes back only the identifier that it has taken *)
(* last (parser.h:180-188).                                                *)
TakesBackIdentifiers == Parse!TakesBackIdentifiers

(* mila+ gets to the end of every file, however it is cut off, but for a   *)
(* comment that is never closed, in which it stays (scanner.h:377-384).    *)
EndsUnlessInComment ==
  <>(stage \in Ended \cup {"execute"}) \/ <>[](stage = "scan" /\ pos = Len(text) /\ LeftOpen(text))
=============================================================================
