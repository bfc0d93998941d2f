------------------------------- MODULE Printer -------------------------------
(***************************************************************************)
(* The output of --verbose, ast::Printer of src/mila/printer.h: a tree     *)
(* written out as the lexemes that the scanner would find in it.           *)
(***************************************************************************)
EXTENDS Integers, Sequences

LOCAL INSTANCE SequencesExt

Lexeme(type)   == <<[type |-> type, symbol |-> "", value |-> 0]>>
SymbolOf(name) == <<[type |-> "ident", symbol |-> name, value |-> 0]>>
Digits(n)      == <<[type |-> "number", symbol |-> "", value |-> n]>>

\* A number that has overflowed may be negative, and is printed with a sign.
LiteralOf(n) == IF n < 0 THEN Lexeme("-") \o Digits(- n) ELSE Digits(n)

\* A bug: the first argument is followed by no comma.
CommasLate(parts) ==
  FoldLeft(LAMBDA all, p : IF Len(all) < 2 THEN all \o p ELSE all \o Lexeme(",") \o p, <<>>, parts)

\* The parts with commas between them.
Commas(parts) ==
  FoldLeft(LAMBDA all, p : IF all = <<>> THEN p ELSE all \o Lexeme(",") \o p, <<>>, parts)

\* A declaration is printed alone, and without a semicolon.
DeclarationOf(d) ==
  IF d.constant
  THEN Lexeme("const") \o SymbolOf(d.symbol) \o Lexeme("=") \o LiteralOf(d.value.literal)
  ELSE Lexeme("var") \o SymbolOf(d.symbol)

\* What the visit method for node n prints.
RECURSIVE Printed(_)

ExpressionPrinted(n) ==
  CASE n.kind = "binary" -> Printed(n.lhs) \o Lexeme(n.op) \o Printed(n.rhs)
    [] n.kind = "unary"  -> Lexeme(n.op) \o Printed(n.operand)
    [] n.kind = "call"   -> SymbolOf(n.function) \o Lexeme("(")
                              \o Commas([k \in 1 .. Len(n.arguments) |-> Printed(n.arguments[k])])
                              \o Lexeme(")")
    [] n.kind = "variable" -> SymbolOf(n.symbol)
    [] n.kind = "number" -> LiteralOf(n.literal)

\* Of a block only the statements are printed, and nothing between them.
StatementPrinted(n) ==
  CASE n.kind = "block"  -> Lexeme("begin")
                              \o FlattenSeq([k \in 1 .. Len(n.statements) |-> Printed(n.statements[k])])
                              \o Lexeme("end")
    [] n.kind = "write"  -> Lexeme("write") \o Printed(n.expression)
    [] n.kind = "read"   -> Lexeme("read") \o SymbolOf(n.symbol)
    [] n.kind = "return" -> Lexeme("return") \o Printed(n.value)
    [] n.kind = "assignment" -> SymbolOf(n.symbol) \o Lexeme(":=") \o Printed(n.value)
    [] n.kind = "if"     -> Lexeme("if") \o Printed(n.condition) \o Lexeme("then")
                              \o Printed(n.trueCase) \o Lexeme("else") \o Printed(n.falseCase)
    [] n.kind = "while"  -> Lexeme("while") \o Printed(n.condition) \o Lexeme("do") \o Printed(n.body)

Printed(n) ==
  CASE n.kind = "module" ->
         FlattenSeq([k \in 1 .. Len(n.functions) |-> Printed(n.functions[k])])
           \o FlattenSeq([k \in 1 .. Len(n.declarations) |-> DeclarationOf(n.declarations[k])])
           \o Printed(n.body)
    [] n.kind = "function" ->
         Lexeme("function") \o SymbolOf(n.name) \o Lexeme("(")
           \o Commas([k \in 1 .. Len(n.arguments) |-> SymbolOf(n.arguments[k])])
           \o Lexeme(")") \o Printed(n.body)
    [] n.kind \in {"binary", "unary", "call", "variable", "number"} -> ExpressionPrinted(n)
    [] OTHER -> StatementPrinted(n)
=============================================================================
