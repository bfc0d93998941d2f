--------------------------- MODULE ParserProperties ---------------------------
(***************************************************************************)
(* The grammar of the comments of src/mila/parser.h, and what the parser   *)
(* makes of it.  A reading is a tree with the position after the tokens it *)
(* is a reading of.  As semicolons are optional the grammar is ambiguous:  *)
(* a + b may be one statement or, with a sign, two.  Where longest is TRUE *)
(* a reading ends only where it cannot be continued.                       *)
(***************************************************************************)
EXTENDS Parser

Type(i) == tokens[i].type
Symbol(i) == tokens[i].symbol

Reading(tree, next) == [tree |-> tree, next |-> next]

\* What ends before a token of these types could have gone on.
MayEnd(longest, next, types) == longest => Type(next) \notin types

\* The readings rs with an optional semicolon after them.
WithSemicolon(longest, rs) ==
  {r \in rs : MayEnd(longest, r.next, {";"})}
    \cup {Reading(r.tree, r.next + 1) : r \in {q \in rs : Type(q.next) = ";"}}

\* The readings rs that a token of this type follows, past it.
Before(rs, type) == {Reading(r.tree, r.next + 1) : r \in {q \in rs : Type(q.next) = type}}

Binary(op, l, r) == [kind |-> "binary", op |-> op, lhs |-> l, rhs |-> r]

RECURSIVE ExpressionsAt(_, _, _), Chains(_, _, _), ArgumentsAt(_, _)

\* The readings ls of the first operands of level k, and those of what becomes
\* of them with the operators that follow.
Chains(longest, k, ls) ==
  LET longer == {l \in ls : Type(l.next) \in OperatorsOf[k]} IN
  IF ls = {} THEN {}
  ELSE {l \in ls : MayEnd(longest, l.next, OperatorsOf[k])}
         \cup Chains(longest, k,
                UNION {{Reading(Binary(Type(l.next), l.tree, r.tree), r.next) :
                          r \in ExpressionsAt(longest, k + 1, l.next + 1)} : l \in longer})

\* expression, E1 and E2 are the levels 1 to 3, E3 and factor level 4.
ExpressionsAt(longest, k, i) ==
  CASE k < 4 -> Chains(longest, k, ExpressionsAt(longest, k + 1, i))
    [] k = 4 /\ Type(i) \in {"+", "-"} ->
         {Reading([kind |-> "unary", op |-> Type(i), negates |-> Type(i) = "-",
                   operand |-> r.tree], r.next) : r \in ExpressionsAt(longest, 4, i + 1)}
    [] k = 4 /\ Type(i) = "(" -> Before(ExpressionsAt(longest, 1, i + 1), ")")
    [] k = 4 /\ Type(i) = "number" -> {Reading(Number(tokens[i].value), i + 1)}
    [] k = 4 /\ Type(i) = "ident" ->
         {r \in {Reading([kind |-> "variable", symbol |-> Symbol(i)], i + 1)} :
            MayEnd(longest, r.next, {"("})}
           \cup IF Type(i + 1) # "(" THEN {}
                ELSE {Reading([kind |-> "call", function |-> Symbol(i), arguments |-> r.tree],
                              r.next) :
                        r \in IF Type(i + 2) = ")" THEN {Reading(<<>>, i + 3)}
                              ELSE ArgumentsAt(longest, i + 2)}
    [] OTHER -> {}

ArgumentsAt(longest, i) ==
  LET es == ExpressionsAt(longest, 1, i) IN
  {Reading(<<r.tree>>, r.next) : r \in Before(es, ")")}
    \cup UNION {{Reading(<<e.tree>> \o r.tree, r.next) : r \in ArgumentsAt(longest, e.next)} :
                  e \in Before(es, ",")}

-----------------------------------------------------------------------------
\* One declaration after another, with commas; the keyword is before i.
RECURSIVE DeclarationListsAt(_, _), DeclarationsAt(_, _)
DeclarationListsAt(constant, i) ==
  LET ds == IF constant
            THEN IF Type(i) = "ident" /\ Type(i + 1) = "=" /\ Type(i + 2) = "number"
                 THEN {Reading([symbol |-> Symbol(i), constant |-> TRUE,
                                value |-> Number(tokens[i + 2].value)], i + 3)}
                 ELSE {}
            ELSE IF Type(i) = "ident"
                 THEN {Reading([symbol |-> Symbol(i), constant |-> FALSE], i + 1)} ELSE {}
  IN  {Reading(<<d.tree>>, d.next) : d \in {e \in ds : Type(e.next) # ","}}
        \cup UNION {{Reading(<<d.tree>> \o r.tree, r.next) :
                       r \in DeclarationListsAt(constant, d.next)} : d \in Before(ds, ",")}

DeclarationsAt(longest, i) ==
  IF Type(i) \notin {"var", "const"} THEN {Reading(<<>>, i)}
  ELSE UNION {{Reading(l.tree \o r.tree, r.next) : r \in DeclarationsAt(longest, l.next)} :
                l \in WithSemicolon(longest, DeclarationListsAt(Type(i) = "const", i + 1))}

RECURSIVE StatementsAt(_, _), BlocksAt(_, _), BodiesAt(_, _)

\* The readings of a statement, its semicolon included.
StatementsAt(longest, i) ==
  LET E(j) == ExpressionsAt(longest, 1, j)
      S(j) == StatementsAt(longest, j)
      Node(rs, Tree(_)) == {Reading(Tree(r.tree), r.next) : r \in rs}
      readings ==
        CASE Type(i) = "write"  -> Node(E(i + 1), LAMBDA e : [kind |-> "write", expression |-> e])
          [] Type(i) = "return" -> Node(E(i + 1), LAMBDA e : [kind |-> "return", value |-> e])
          [] Type(i) = "read"   -> IF Type(i + 1) # "ident" THEN {}
                                   ELSE {Reading([kind |-> "read", symbol |-> Symbol(i + 1)], i + 2)}
          [] Type(i) = "begin"  -> BlocksAt(longest, i)
          [] Type(i) = "ident" /\ Type(i + 1) = ":=" ->
               Node(E(i + 2), LAMBDA e : [kind |-> "assignment", symbol |-> Symbol(i), value |-> e])
          [] Type(i) = "while"  ->
               UNION {Node(S(c.next), LAMBDA s : [kind |-> "while", condition |-> c.tree, body |-> s]) :
                        c \in Before(E(i + 1), "do")}
          [] Type(i) = "if"     ->
               UNION {UNION {
                 LET If(s) == [kind |-> "if", condition |-> c.tree, trueCase |-> a.tree, falseCase |-> s]
                 IN  {r \in {Reading(If(Number(0)), a.next)} : MayEnd(longest, r.next, {"else"})}
                       \cup IF Type(a.next) = "else" THEN Node(S(a.next + 1), If) ELSE {}
                 : a \in S(c.next)} : c \in Before(E(i + 1), "then")}
          [] OTHER -> E(i)
  IN  WithSemicolon(longest, readings)

\* The statements up to the end of a block.
BodiesAt(longest, i) ==
  IF Type(i) = "end" THEN {Reading(<<>>, i + 1)}
  ELSE UNION {{Reading(<<s.tree>> \o r.tree, r.next) : r \in BodiesAt(longest, s.next)} :
                s \in StatementsAt(longest, i)}

BlocksAt(longest, i) ==
  IF Type(i) # "begin" THEN {}
  ELSE UNION {{Reading([kind |-> "block", declarations |-> d.tree, statements |-> r.tree], r.next) :
                 r \in BodiesAt(longest, d.next)} : d \in DeclarationsAt(longest, i + 1)}

-----------------------------------------------------------------------------
\* The parameters from i, up to the closing parenthesis.
RECURSIVE ParametersAt(_), FunctionsAt(_, _)
ParametersAt(i) ==
  IF Type(i) # "ident" THEN {}
  ELSE IF Type(i + 1) = ")" THEN {Reading(<<Symbol(i)>>, i + 2)}
  ELSE IF Type(i + 1) # "," THEN {}
  ELSE {Reading(<<Symbol(i)>> \o r.tree, r.next) : r \in ParametersAt(i + 2)}

FunctionsAt(longest, i) ==
  IF Type(i) # "function" THEN {Reading(<<>>, i)}
  ELSE IF Type(i + 1) # "ident" THEN {} ELSE IF Type(i + 2) # "(" THEN {}
  ELSE UNION {UNION {
         LET f == [kind |-> "function", name |-> Symbol(i + 1), arguments |-> p.tree, body |-> s.tree]
         IN  {Reading(<<f>> \o r.tree, r.next) : r \in FunctionsAt(longest, s.next)}
         : s \in WithSemicolon(longest, StatementsAt(longest, p.next))}
         : p \in IF Type(i + 3) = ")" THEN {Reading(<<>>, i + 4)} ELSE ParametersAt(i + 3)}

Modules(longest) ==
  UNION {UNION {
    {Reading([kind |-> "module", functions |-> f.tree, declarations |-> d.tree, body |-> b.tree], b.next) :
       b \in BlocksAt(longest, d.next)} : d \in DeclarationsAt(longest, f.next)}
    : f \in FunctionsAt(longest, 1)}

(* The parser accepts what is a module by the grammar of its comments, and *)
(* nothing else; looking at one token, and taking one back, it never       *)
(* misses a reading, although semicolons are optional.  The tree is the    *)
(* one reading all of whose parts are as long as possible (parser.h:65-318).*)
(* The assertion of the module's node fails only where no other block      *)
(* follows the main block (ast.h:123).                                     *)
ParsesByTheGrammar ==
  /\ parsed = "accepted" => Modules(TRUE) = {Reading(Head(values), current)}
  /\ parsed = "rejected" => Modules(FALSE) = {}
  /\ parsed = "aborted"  => Type(current) # "begin" /\ \E r \in Modules(TRUE) : r.next = current
=============================================================================
