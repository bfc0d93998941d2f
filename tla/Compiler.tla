------------------------------ MODULE Compiler ------------------------------
(***************************************************************************)
(* The code generator, mila::Compiler of src/compiler.h: a visitor that    *)
(* walks the tree of a module and appends instructions to the current      *)
(* block.  What its methods do between two accept() calls is an action;    *)
(* the calls still to be made, with the local variables of the methods     *)
(* that made them, are the stack todo.                                     *)
(*                                                                         *)
(* A node of the tree is a record with its kind and its children; which    *)
(* operator a binary expression applies is left out.                       *)
(***************************************************************************)
EXTENDS LLVMVerifier

SeqsExt == INSTANCE SequencesExt

CONSTANT Modules     \* the module nodes compiled

VARIABLES
  module,    \* the tree compile() was given
  todo,      \* the stack of calls
  status,    \* "running", or how compile() ended
  code,      \* the bodies of the functions of m that have one, by name
  arity,     \* the number of arguments of each function of m
  f, bb,     \* the current function and block; block 0 is nullptr
  c,         \* the stack of BlockContexts, the innermost first
  result,    \* the value of the expression visited last
  fresh      \* the number of the next block or instruction

vars == <<module, todo, status, code, arity, f, bb, c, result, fresh>>

Visit(n)   == [at |-> "visit", node |-> n]
Top        == Head(todo)
Then(calls) == todo' = calls \o Tail(todo) /\ UNCHANGED <<module, status>>

Running(stage) == status = "running" /\ todo # <<>> /\ Top.at = stage
Visiting(kind) == Running("visit") /\ Top.node.kind = kind

\* Appending instructions to the end of block b of the current function, and
\* the same with new, empty blocks bs.
Into(b, insts) == [code EXCEPT ![f][b] = @ \o insts]
IntoWithBlocks(b, insts, bs) ==
  [code EXCEPT ![f] = [n \in DOMAIN @ \cup bs |->
                         IF n \in bs THEN <<>> ELSE IF n = b THEN @[n] \o insts ELSE @[n]]]

\* throw CompilerError; what has been built is lost with the Compiler.
Throw == status' = "rejected" /\ UNCHANGED <<module, todo, code, arity, f, bb, c, result, fresh>>

\* The instructions are appended to bb and the result is the last of them;
\* the calls follow.
Emit(insts, value, calls) ==
  /\ Then(calls)
  /\ code' = Into(bb, insts)
  /\ result' = value
  /\ fresh' = fresh + 1
  /\ UNCHANGED <<arity, f, bb, c>>

\* Only calls follow, no instruction.
Continue(calls) == Then(calls) /\ UNCHANGED <<code, arity, f, bb, c, result, fresh>>

-----------------------------------------------------------------------------
\* BlockContext::get(): the location of a symbol in the innermost context
\* that has one.
Contexts(s) == {k \in 1 .. Len(c) : s \in DOMAIN c[k]}
Location(s) == c[Min(Contexts(s))][s]

\* A location is a constant or the address of a variable.
ConstantLocation    == [constant |-> TRUE,  value |-> Constant]
VariableLocation(v) == [constant |-> FALSE, value |-> v]

Symbols(ds) == {ds[k].symbol : k \in 1 .. Len(ds)}

\* Declaration k of ds is of a symbol already declared there.
Redefines(ds) == Cardinality(Symbols(ds)) < Len(ds)

\* The context the declarations ds make; a local variable's address is its
\* alloca, whose number is fresh + its place among ds.
ContextOf(ds, isGlobal) ==
  [s \in Symbols(ds) |->
     LET k == CHOOSE j \in 1 .. Len(ds) : ds[j].symbol = s IN
     IF ds[k].constant THEN ConstantLocation
     ELSE VariableLocation(IF isGlobal THEN Constant ELSE Result(fresh + k))]

Allocas(ds) ==
  SeqsExt!FlattenSeq([k \in 1 .. Len(ds) |->
    IF ds[k].constant THEN <<>> ELSE <<Inst(fresh + k, "alloca", <<>>)>>])

\* compileDeclarations() leaves the value of the last constant in result.
DeclaredResult(ds) ==
  IF \E k \in 1 .. Len(ds) : ds[k].constant THEN Constant ELSE result

-----------------------------------------------------------------------------
(* Functions and the module *)

\* The Compiler, its module and the functions of the runtime.
Constructed ==
  /\ status = "running"
  /\ code = [n \in {} |-> n]
  /\ arity = [n \in {"read_", "write_"} |-> IF n = "read_" THEN 0 ELSE 1]
  /\ f = "" /\ bb = 0
  /\ c = <<>>
  /\ result = Nullptr
  /\ fresh = 1

Init ==
  /\ \E m \in Modules : module = m /\ todo = <<Visit(m)>>
  /\ Constructed

\* visit(ast::Module *), up to the functions; the main function follows them.
VisitModule ==
  LET m == Top.node IN
  /\ Visiting("module")
  /\ IF Redefines(m.declarations) THEN Throw
     ELSE /\ c' = <<ContextOf(m.declarations, TRUE)>>
          /\ result' = DeclaredResult(m.declarations)
          /\ Then([k \in 1 .. Len(m.functions) |-> Visit(m.functions[k])]
                    \o <<[at |-> "main", node |-> m]>>)
          /\ UNCHANGED <<code, arity, f, bb, fresh>>

\* Making the function called name, its entry block with these instructions.
CreateFunction(name, args, insts) ==
  /\ code' = [n \in DOMAIN code \cup {name} |->
                IF n = name THEN [b \in {fresh} |-> insts] ELSE code[n]]
  /\ arity' = [n \in DOMAIN arity \cup {name} |-> IF n = name THEN args ELSE arity[n]]
  /\ f' = name
  /\ bb' = fresh

\* An argument is kept in an alloca, into which it is stored.
ArgumentInsts(id) == <<Inst(id, "alloca", <<>>), Inst(0, "store", <<Constant, Result(id)>>)>>

VisitFunction ==
  LET n == Top.node
      args == n.arguments
      insts == SeqsExt!FlattenSeq([k \in 1 .. Len(args) |-> ArgumentInsts(fresh + k)])
  IN
  /\ Visiting("function")
  /\ IF \/ n.name = "main"
        \/ n.name \in DOMAIN arity
        \/ \E j, k \in 1 .. Len(args) : j # k /\ args[j] = args[k]
     THEN Throw
     ELSE /\ CreateFunction(n.name, Len(args), insts)
          /\ c' = <<[s \in {args[k] : k \in 1 .. Len(args)} |->
                       VariableLocation(Result(fresh + CHOOSE k \in 1 .. Len(args) : args[k] = s))]>>
                    \o c
          /\ fresh' = fresh + Len(args) + 1
          /\ Then(<<Visit(n.body), [at |-> "finish"], [at |-> "unroll"]>>)
          /\ UNCHANGED result

VisitMain ==
  /\ Running("main")
  /\ CreateFunction("main", 0, <<>>)
  /\ fresh' = fresh + 1
  /\ Then(<<Visit(Top.node.body), [at |-> "finish"]>>)
  /\ UNCHANGED <<c, result>>

\* The end of compileFunctionBody(): return the value of the body.
FinishBody ==
  /\ Running("finish")
  /\ Then(<<>>)
  /\ IF bb = 0 \/ result.kind = "ret"
     THEN UNCHANGED <<code, result, fresh>>
     ELSE /\ code' = Into(bb, <<Inst(fresh, "ret",
                                     <<IF result = Nullptr THEN Constant ELSE result>>)>>)
          /\ result' = ReturnInst(fresh)
          /\ fresh' = fresh + 1
  /\ UNCHANGED <<arity, f, bb, c>>

\* A bug: the context of a block or function is kept.
UnrollKeeps ==
  /\ Running("unroll")
  /\ Continue(<<>>)

\* The context of a block or function is left.
Unroll ==
  /\ Running("unroll")
  /\ c' = Tail(c)
  /\ Then(<<>>)
  /\ UNCHANGED <<code, arity, f, bb, result, fresh>>

-----------------------------------------------------------------------------
(* Statements *)

VisitBlock ==
  LET n == Top.node IN
  /\ Visiting("block")
  /\ IF Redefines(n.declarations) THEN Throw
     ELSE /\ c' = <<ContextOf(n.declarations, FALSE)>> \o c
          /\ code' = Into(bb, Allocas(n.declarations))
          /\ result' = DeclaredResult(n.declarations)
          /\ fresh' = fresh + Len(n.declarations) + 1
          /\ Then([k \in 1 .. Len(n.statements) |->
                     [at |-> "statement", node |-> n.statements[k]]]
                    \o <<[at |-> "unroll"]>>)
          /\ UNCHANGED <<arity, f, bb>>

\* A bug: the statements after a return are compiled.
VisitStatementAnyway == Running("statement") /\ Continue(<<Visit(Top.node)>>)

\* One turn of the loop over the statements of a block.
VisitStatement ==
  /\ Running("statement")
  /\ IF bb = 0 THEN Throw ELSE Continue(<<Visit(Top.node)>>)

\* Write, Return, Assignment and Unary visit their operand first, and do the
\* rest in an action of its own.
VisitOperand ==
  LET n == Top.node IN
  \/ Visiting("write") /\ Continue(<<Visit(n.expression), [at |-> "write"]>>)
  \/ Visiting("return") /\ Continue(<<Visit(n.value), [at |-> "return"]>>)
  \/ Visiting("assignment") /\ Continue(<<Visit(n.value), [at |-> "assign", symbol |-> n.symbol]>>)
  \/ Visiting("unary") /\ Continue(<<Visit(n.operand), [at |-> "unary", negates |-> n.negates]>>)

Write == Running("write") /\ Emit(<<Inst(fresh, "call", <<result>>)>>, result, <<>>)

Assignable(symbol) == Contexts(symbol) # {} /\ ~Location(symbol).constant

VisitRead ==
  LET symbol == Top.node.symbol IN
  /\ Visiting("read")
  /\ IF ~Assignable(symbol) THEN Throw
     ELSE Emit(<<Inst(fresh, "call", <<>>),
                 Inst(0, "store", <<Result(fresh), Location(symbol).value>>)>>, Result(fresh), <<>>)

Assign ==
  /\ Running("assign")
  /\ IF ~Assignable(Top.symbol) THEN Throw
     ELSE Emit(<<Inst(0, "store", <<result, Location(Top.symbol).value>>)>>, result, <<>>)

Return ==
  /\ Running("return")
  /\ Then(<<>>)
  /\ code' = Into(bb, <<Inst(fresh, "ret", <<result>>)>>)
  /\ result' = ReturnInst(fresh)
  /\ bb' = 0
  /\ fresh' = fresh + 1
  /\ UNCHANGED <<arity, f, c>>

VisitIf ==
  /\ Visiting("if")
  /\ Continue(<<Visit(Top.node.condition), [at |-> "ifCondition", node |-> Top.node]>>)

\* The blocks trueCase, falseCase and next are numbered from fresh on.
IfCondition ==
  /\ Running("ifCondition")
  /\ code' = IntoWithBlocks(bb, <<Inst(fresh + 3, "icmp", <<result>>),
                                  Branch(0, <<Result(fresh + 3)>>, {fresh, fresh + 1})>>,
                            fresh .. fresh + 2)
  /\ bb' = fresh
  /\ fresh' = fresh + 4
  /\ Then(<<Visit(Top.node.trueCase),
            [at |-> "ifTrue", node |-> Top.node, falseCase |-> fresh + 1, next |-> fresh + 2]>>)
  /\ UNCHANGED <<arity, f, c, result>>

\* The branch to block next, from a case that has not returned.
Jump(next) == IF bb = 0 THEN code ELSE Into(bb, <<Branch(0, <<>>, {next})>>)

IfTrue ==
  /\ Running("ifTrue")
  /\ code' = Jump(Top.next)
  /\ bb' = Top.falseCase
  /\ Then(<<Visit(Top.node.falseCase),
            [at |-> "ifJoin", next |-> Top.next, trueCase |-> bb, trueResult |-> result]>>)
  /\ UNCHANGED <<arity, f, c, result, fresh>>

\* A bug: the phi names a case that has returned.
IfJoinNamesBoth ==
  /\ Running("ifJoin")
  /\ bb' = Top.next
  /\ code' = [Jump(Top.next) EXCEPT ![f][Top.next] =
                <<PhiNode(fresh, <<Top.trueResult, result>>, <<Top.trueCase, bb>>)>>]
  /\ result' = Result(fresh)
  /\ fresh' = fresh + 1
  /\ Then(<<>>)
  /\ UNCHANGED <<arity, f, c>>

\* If both cases have returned, next is erased; a phi joins the values else.
IfJoin ==
  LET cases == IF Top.trueCase = 0 THEN <<[block |-> bb, value |-> result]>>
               ELSE IF bb = 0 THEN <<[block |-> Top.trueCase, value |-> Top.trueResult]>>
               ELSE <<[block |-> Top.trueCase, value |-> Top.trueResult],
                      [block |-> bb, value |-> result]>>
  IN
  /\ Running("ifJoin")
  /\ Then(<<>>)
  /\ IF bb = 0 /\ Top.trueCase = 0
     THEN /\ code' = [code EXCEPT ![f] = [b \in DOMAIN @ \ {Top.next} |-> @[b]]]
          /\ result' = Nullptr
          /\ bb' = 0
     ELSE /\ code' = [Jump(Top.next) EXCEPT ![f][Top.next] =
                        <<PhiNode(fresh, [k \in DOMAIN cases |-> cases[k].value],
                                         [k \in DOMAIN cases |-> cases[k].block])>>]
          /\ result' = Result(fresh)
          /\ bb' = Top.next
  /\ fresh' = fresh + 1
  /\ UNCHANGED <<arity, f, c>>

\* The blocks condition, cycleBody and next are numbered from fresh on; the phi
\* joins the result from before the loop with that of its body.
VisitWhile ==
  /\ Visiting("while")
  /\ code' = [IntoWithBlocks(bb, <<Branch(0, <<>>, {fresh})>>, fresh .. fresh + 2)
                EXCEPT ![f][fresh] = <<PhiNode(fresh + 3, <<result>>, <<bb>>)>>]
  /\ bb' = fresh
  /\ fresh' = fresh + 4
  /\ Then(<<Visit(Top.node.condition),
            [at |-> "whileCondition", body |-> Top.node.body, condition |-> fresh]>>)
  /\ UNCHANGED <<arity, f, c, result>>

WhileCondition ==
  LET cycleBody == Top.condition + 1
      next == Top.condition + 2
  IN
  /\ Running("whileCondition")
  /\ code' = Into(bb, <<Inst(fresh, "icmp", <<result>>),
                        Branch(0, <<Result(fresh)>>, {cycleBody, next})>>)
  /\ bb' = cycleBody
  /\ fresh' = fresh + 1
  /\ Then(<<Visit(Top.body), [at |-> "whileBody", condition |-> Top.condition]>>)
  /\ UNCHANGED <<arity, f, c, result>>

\* If the body has returned, the phi is erased.
WhileBody ==
  LET condition == Top.condition IN
  /\ Running("whileBody")
  /\ code' = IF bb = 0
             THEN [code EXCEPT ![f][condition] = Tail(@)]
             ELSE [Jump(condition) EXCEPT ![f][condition] =
                     <<PhiNode(Head(@).id, Append(Head(@).uses, result), Append(Head(@).from, bb))>>
                       \o Tail(@)]
  /\ result' = Constant
  /\ bb' = condition + 2
  /\ Then(<<>>)
  /\ UNCHANGED <<arity, f, c, fresh>>

-----------------------------------------------------------------------------
(* Expressions *)

VisitNumber ==
  /\ Visiting("number")
  /\ Emit(<<>>, Constant, <<>>)

VisitVariable ==
  LET symbol == Top.node.symbol IN
  /\ Visiting("variable")
  /\ IF Contexts(symbol) = {} THEN Throw
     ELSE IF Location(symbol).constant THEN Emit(<<>>, Location(symbol).value, <<>>)
     ELSE Emit(<<Inst(fresh, "load", <<Location(symbol).value>>)>>, Result(fresh), <<>>)

Unary ==
  /\ Running("unary")
  /\ IF Top.negates THEN Emit(<<Inst(fresh, "sub", <<result>>)>>, Result(fresh), <<>>)
     ELSE Continue(<<>>)

VisitBinary ==
  /\ Visiting("binary")
  /\ Continue(<<Visit(Top.node.lhs), [at |-> "binaryLeft", node |-> Top.node]>>)

BinaryLeft ==
  /\ Running("binaryLeft")
  /\ Continue(<<Visit(Top.node.rhs), [at |-> "binary", lhsValue |-> result]>>)

\* A comparison is an icmp and a sext; the other operators are one instruction.
Binary ==
  /\ Running("binary")
  /\ Emit(<<Inst(fresh, "binary", <<Top.lhsValue, result>>)>>, Result(fresh), <<>>)

\* The arguments are visited one by one, their values collected in args.
VisitCall ==
  /\ Visiting("call")
  /\ Continue(<<[at |-> "call", node |-> Top.node, args |-> <<>>]>>)

CallArgument ==
  /\ Running("call")
  /\ Len(Top.args) < Len(Top.node.arguments)
  /\ Continue(<<Visit(Top.node.arguments[Len(Top.args) + 1]),
                [at |-> "argument", node |-> Top.node, args |-> Top.args]>>)

ArgumentValue ==
  /\ Running("argument")
  /\ Continue(<<[at |-> "call", node |-> Top.node, args |-> Append(Top.args, result)]>>)

Call ==
  LET n == Top.node IN
  /\ Running("call")
  /\ Len(Top.args) = Len(n.arguments)
  /\ IF n.function \notin DOMAIN arity \/ arity[n.function] # Len(Top.args) THEN Throw
     ELSE Emit(<<Inst(fresh, "call", Top.args)>>, Result(fresh), <<>>)

-----------------------------------------------------------------------------
\* verifyModule(), and the CompilerError if it refuses.
Verify ==
  /\ status = "running"
  /\ todo = <<>>
  /\ status' = IF \A n \in DOMAIN code : Verifies(code[n]) THEN "compiled" ELSE "invalid"
  /\ UNCHANGED <<module, todo, code, arity, f, bb, c, result, fresh>>

\* compile() has returned, or thrown.
Stopped == status # "running" /\ UNCHANGED vars

Statement ==
  \/ VisitBlock \/ VisitStatement \/ VisitOperand \/ Write \/ VisitRead \/ Assign \/ Return
  \/ VisitIf \/ IfCondition \/ IfTrue \/ IfJoin
  \/ VisitWhile \/ WhileCondition \/ WhileBody

Expression ==
  \/ VisitNumber \/ VisitVariable \/ Unary
  \/ VisitBinary \/ BinaryLeft \/ Binary
  \/ VisitCall \/ CallArgument \/ ArgumentValue \/ Call

Next ==
  \/ VisitModule \/ VisitFunction \/ VisitMain \/ FinishBody \/ Unroll
  \/ Statement \/ Expression
  \/ Verify \/ Stopped

Spec == Init /\ [][Next]_vars
=============================================================================
