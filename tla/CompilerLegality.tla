--------------------------- MODULE CompilerLegality ---------------------------
(***************************************************************************)
(* Which programs the compiler of src/compiler.h rejects: those that break *)
(* a rule of the language.                                                 *)
(***************************************************************************)
EXTENDS CompilerBlocks, CompilerRules

Trees == Statements \cup Expressions

\* The compiler rejects a program exactly when it breaks a rule: a name
\* redefined, unknown or a constant assigned to, a call of no function or with
\* other arguments, code after a return, a function called main (the throws of
\* the visit methods, compiler.h:48-370).
RejectsTheIllegal ==
  status # "running" => (status = "rejected" <=> ~LegalModule(module, Trees))
=============================================================================
