-------------------------------- MODULE Driver --------------------------------
(***************************************************************************)
(* mila+, the main() of src/main.cpp: it reads its arguments, then scans   *)
(* and parses the file, prints the tree, compiles it and emits or runs     *)
(* what has been compiled.  The parts are the modules Scanner, Parser,     *)
(* Printer and Compiler; each hands its result to the next, and the        *)
(* exception of any of them ends the program.                              *)
(***************************************************************************)
EXTENDS Scanner

CONSTANTS
  Commands,           \* the arguments and the files mila+ is started with
  Writable            \* the names of files that can be opened for writing

ASSUME FilesAssumption ==
  \A command \in Commands : \A n \in DOMAIN command.files : command.files[n] \in Texts

NullPtr == "nullptr"

VARIABLES
  argv, files,        \* the arguments and the contents of the files
  i,                  \* the argument that is read next
  filename, verbose, emitir,
  muted,              \* std::cout has failed, and prints nothing any more
  stage,              \* what main() is doing, or how it ended
  printed             \* the lexemes printed of the tree

mainVars == <<argv, files, i, filename, verbose, emitir, muted, printed>>

VARIABLES current, calls, values, parsed

Parse == INSTANCE Parser WITH todo <- calls, TokenSeqs <- {}

VARIABLES module, todo, status, code, arity, f, bb, c, result, fresh

Compile == INSTANCE Compiler WITH Modules <- {}

Printing == INSTANCE Printer

scannerVars  == <<text, pos, line, col, at, t, skip, start, lexeme>>
parserVars   == <<current, calls, values, parsed>>
compilerVars == <<module, todo, status, code, arity, f, bb, c, result, fresh>>
vars == <<mainVars, stage, scannerVars, tokens, parserVars, compilerVars>>

Ended == {"emitted", "returned", "failed", "aborted", "killed"}

-----------------------------------------------------------------------------
Init ==
  /\ \E command \in Commands : argv = command.argv /\ files = command.files
  /\ i = 1
  /\ filename = NullPtr /\ verbose = FALSE /\ emitir = NullPtr
  /\ muted = FALSE
  /\ stage = "arguments"
  /\ printed = <<>>
  /\ text = <<>> /\ Constructed
  /\ current = 1 /\ calls = <<Parse!Parse("module")>> /\ values = <<>> /\ parsed = "parsing"
  /\ module = [kind |-> "none"] /\ todo = <<>> /\ Compile!Constructed

\* The exception is caught by main(), which returns EXIT_FAILURE.
Catch == stage' = "failed"

Argument(option) == stage = "arguments" /\ i <= Len(argv) /\ argv[i] = option

ReadVerbose ==
  /\ Argument("--verbose")
  /\ verbose' = TRUE
  /\ i' = i + 1
  /\ UNCHANGED <<argv, files, filename, emitir, muted, stage, printed>>
  /\ UNCHANGED <<scannerVars, tokens, parserVars, compilerVars>>

\* A bug: the name to emit to is left to be read as the file to compile.
ReadEmitStays ==
  /\ Argument("--emit")
  /\ emitir' = IF i < Len(argv) THEN argv[i + 1] ELSE NullPtr
  /\ muted' = (muted \/ i = Len(argv))
  /\ i' = i + 1
  /\ UNCHANGED <<argv, files, filename, verbose, stage, printed>>
  /\ UNCHANGED <<scannerVars, tokens, parserVars, compilerVars>>

\* The argument after the last is a null pointer; printing it, which is
\* undefined, makes std::cout fail.
ReadEmit ==
  /\ Argument("--emit")
  /\ emitir' = IF i < Len(argv) THEN argv[i + 1] ELSE NullPtr
  /\ muted' = (muted \/ i = Len(argv))
  /\ i' = i + 2
  /\ UNCHANGED <<argv, files, filename, verbose, stage, printed>>
  /\ UNCHANGED <<scannerVars, tokens, parserVars, compilerVars>>

ReadFilename ==
  /\ stage = "arguments" /\ i <= Len(argv) /\ argv[i] \notin {"--verbose", "--emit"}
  /\ IF filename # NullPtr THEN Catch /\ UNCHANGED <<i, filename>>
     ELSE filename' = argv[i] /\ i' = i + 1 /\ UNCHANGED stage
  /\ UNCHANGED <<argv, files, verbose, emitir, muted, printed>>
  /\ UNCHANGED <<scannerVars, tokens, parserVars, compilerVars>>

\* Scanner::file() fails without a file, and without a name: a std::string of
\* a null pointer throws.
OpenFile ==
  /\ stage = "arguments" /\ i > Len(argv)
  /\ IF filename \in DOMAIN files
     THEN stage' = "scan" /\ text' = files[filename]
     ELSE Catch /\ UNCHANGED text
  /\ UNCHANGED <<mainVars, pos, line, col, at, t, skip, start, lexeme, tokens>>
  /\ UNCHANGED <<parserVars, compilerVars>>

-----------------------------------------------------------------------------
ScanStep == stage = "scan" /\ ScanNext /\ UNCHANGED <<mainVars, stage, parserVars, compilerVars>>

EndScan ==
  /\ stage = "scan" /\ at \in {"done", "failed"}
  /\ IF at = "failed" THEN Catch ELSE stage' = "parse"
  /\ UNCHANGED <<mainVars, scannerVars, tokens, parserVars, compilerVars>>

ParseStep == stage = "parse" /\ Parse!Next /\ UNCHANGED <<mainVars, stage, scannerVars, compilerVars>>

\* A failed assertion aborts; the tree is printed on demand.
EndParse ==
  /\ stage = "parse" /\ parsed # "parsing"
  /\ IF parsed = "rejected" THEN Catch ELSE stage' = IF parsed = "accepted" THEN "tree" ELSE "aborted"
  /\ printed' = IF parsed = "accepted" /\ verbose /\ ~muted THEN Printing!Printed(Head(values)) ELSE <<>>
  /\ UNCHANGED <<argv, files, i, filename, verbose, emitir, muted>>
  /\ UNCHANGED <<scannerVars, tokens, parserVars, compilerVars>>

StartCompiler ==
  /\ stage = "tree" /\ stage' = "compile"
  /\ module' = Head(values)
  /\ todo' = <<Compile!Visit(Head(values))>>
  /\ UNCHANGED <<mainVars, scannerVars, tokens, parserVars>>
  /\ UNCHANGED <<status, code, arity, f, bb, c, result, fresh>>

CompileStep ==
  /\ stage = "compile"
  /\ status = "running" /\ Compile!Next
  /\ UNCHANGED <<mainVars, stage, scannerVars, tokens, parserVars>>

EndCompiler ==
  /\ stage = "compile" /\ status # "running"
  /\ IF status = "compiled" THEN stage' = "execute" ELSE Catch
  /\ UNCHANGED <<mainVars, scannerVars, tokens, parserVars, compilerVars>>

\* A bug: a file that could not be opened is taken as written.
EmitAnyway ==
  /\ stage = "execute" /\ emitir # NullPtr
  /\ stage' = "emitted"
  /\ UNCHANGED <<mainVars, scannerVars, tokens, parserVars, compilerVars>>

\* Whether the file could be opened is not looked at; LLVM ends the program
\* where it could not.
Emit ==
  /\ stage = "execute" /\ emitir # NullPtr
  /\ stage' = IF emitir \in Writable THEN "emitted" ELSE "aborted"
  /\ UNCHANGED <<mainVars, scannerVars, tokens, parserVars, compilerVars>>

\* JIT::compile(f)(): the program is run, and may return, trap or go on.
Execute ==
  /\ stage = "execute" /\ emitir = NullPtr
  /\ stage' \in {"returned", "killed"}
  /\ UNCHANGED <<mainVars, scannerVars, tokens, parserVars, compilerVars>>

Step ==
  \/ ReadVerbose \/ ReadEmit \/ ReadFilename \/ OpenFile
  \/ ScanStep \/ EndScan
  \/ ParseStep \/ EndParse
  \/ StartCompiler \/ CompileStep \/ EndCompiler
  \/ Emit

Stopped == stage \in Ended /\ UNCHANGED vars

Next == Step \/ Execute \/ Stopped

Spec == Init /\ [][Next]_vars

\* mila+ has one thread; only a compiled program may go on forever.
FairSpec == Spec /\ WF_vars(Step)
=============================================================================
