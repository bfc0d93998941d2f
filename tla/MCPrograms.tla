----------------------------- MODULE MCPrograms -----------------------------
(* Functions as src/compiler.h and mem2reg leave them, in the names of     *)
(* LLVM's value symbol table: what a statement is compiled to, and the     *)
(* functions the instances are run on.                                     *)
EXTENDS LLVMFunction

A == Global("a_")
B == Global("b_")
C == Global("c_")
T == Global("t_")
Read(n)  == Call(n, <<>>, Callee("read_"))
Write(x) == Call(Unnamed, <<x>>, Callee("write_"))

\* A statement is its instructions and its result; n makes its names unique.
Statement(insts, result) == [insts |-> insts, result |-> result]

\* a := 1
AssignConst(n) == Statement(<<Store(Const(1), A)>>, Const(1))

\* b := a
AssignCopy(n) == Statement(<<Load("a" \o n, A), Store(Reg("a" \o n), B)>>, Reg("a" \o n))

\* p := a op b
AssignBinary(op, p, n) ==
  Statement(<<Load("a" \o n, A), Load("b" \o n, B),
              Binary(op, op \o n, Reg("a" \o n), Reg("b" \o n)), Store(Reg(op \o n), p)>>,
            Reg(op \o n))

\* read p
ReadInto(p, n) == Statement(<<Read("r" \o n), Store(Reg("r" \o n), p)>>, Reg("r" \o n))

\* b := f(a)
AssignCall(n) ==
  Statement(<<Load("a" \o n, A), Call("f" \o n, <<Reg("a" \o n)>>, Callee("f")),
              Store(Reg("f" \o n), B)>>,
            Reg("f" \o n))

Statements(n) ==
  {AssignCall(n), AssignConst(n), AssignCopy(n), AssignBinary("add", A, n),
   AssignBinary("sub", A, n), AssignBinary("mul", B, n), AssignBinary("sdiv", A, n), ReadInto(B, n)}

\* begin a := 1  b := 2   or   begin read a  b := 2   or   begin a := 1  read b
Starts ==
  {<<Store(Const(1), A), Store(Const(2), B)>>,
   <<Read("r"), Store(Reg("r"), A), Store(Const(2), B)>>,
   <<Store(Const(1), A), Read("r"), Store(Reg("r"), B)>>}

\* a > b
Greater(n) ==
  <<Load("a" \o n, A), Load("b" \o n, B),
    Binary("sgt", "sgt" \o n, Reg("a" \o n), Reg("b" \o n)), SExt("i32" \o n, Reg("sgt" \o n))>>

\* write a  write b end
Finale ==
  <<Load("aw", A), Write(Reg("aw")), Load("bw", B), Write(Reg("bw")), Ret(Reg("bw"))>>

\* start  if a > b then yes else no  write a  write b end
Conditional(start, yes, no) == FunctionOf(<<
  start \o Greater("c") \o
    <<Binary("ne", "if_cond", Reg("i32c"), Const(0)),
      CondBr(Reg("if_cond"), Label("trueCase", 2), Label("falseCase", 3))>>,
  Append(yes.insts, Br(Label("next", 4))),
  Append(no.insts, Br(Label("next", 4))),
  <<Phi("if_phi", <<yes.result, no.result>>, <<2, 3>>)>> \o Finale>>)

\* start  while a > b do begin first second end  write a  write b end
Loop(start, first, second) == FunctionOf(<<
  Append(start, Br(Label("condition", 2))),
  <<Phi("while_phi", <<Const(2), second.result>>, <<1, 3>>)>> \o Greater("c") \o
    <<Binary("ne", "while_cond", Reg("i32c"), Const(0)),
      CondBr(Reg("while_cond"), Label("cycleBody", 3), Label("next", 4))>>,
  first.insts \o second.insts \o <<Br(Label("condition", 2))>>,
  Finale>>)

\* start  if a > b then while a > b do body else begin write k  a := 1 end
\* return 0, where k was read first.  The blocks of the loop come after the one they lead to.
LoopInBranch(start, body) == FunctionOf(<<
  <<Read("k")>> \o start \o Greater("c") \o
    <<Binary("ne", "if_cond", Reg("i32c"), Const(0)),
      CondBr(Reg("if_cond"), Label("trueCase", 2), Label("falseCase", 3))>>,
  <<Br(Label("condition", 5))>>,
  <<Write(Reg("k")), Store(Const(1), A), Br(Label("next", 4))>>,
  <<Phi("if_phi", <<Const(0), Const(1)>>, <<7, 3>>), Ret(Const(0))>>,
  <<Phi("while_phi", <<Const(2), body.result>>, <<2, 6>>)>> \o Greater("d") \o
    <<Binary("ne", "while_cond", Reg("i32d"), Const(0)),
      CondBr(Reg("while_cond"), Label("cycleBody", 6), Label("next2", 7))>>,
  Append(body.insts, Br(Label("condition", 5))),
  <<Br(Label("next", 4))>> >>)

\* start  if a > b then begin statement  return b end else return a
EarlyReturn(start, statement) == FunctionOf(<<
  start \o Greater("c") \o
    <<Binary("ne", "if_cond", Reg("i32c"), Const(0)),
      CondBr(Reg("if_cond"), Label("trueCase", 2), Label("falseCase", 3))>>,
  statement.insts \o <<Load("bt", B), Ret(Reg("bt"))>>,
  <<Load("af", A), Ret(Reg("af"))>> >>)

\* start  write a > b end: what is written is the comparison, as a number.
WriteGreater(start) == FunctionOf(<<
  start \o Greater("c") \o <<Write(Reg("i32c")), Ret(Const(0))>> >>)

\* read c  if c then a := 1  write a end, where nobody else assigns a.
OneSided == FunctionOf(<<
  <<Read("c"), Store(Reg("c"), C), Load("c1", C), Binary("ne", "if_cond", Reg("c1"), Const(0)),
    CondBr(Reg("if_cond"), Label("trueCase", 2), Label("falseCase", 3))>>,
  <<Store(Const(1), A), Br(Label("next", 4))>>,
  <<Br(Label("next", 4))>>,
  <<Phi("if_phi", <<Const(1), Const(0)>>, <<2, 3>>),
    Load("a", A), Write(Reg("a")), Ret(Reg("a"))>> >>)

\* start  write a  write a() end: the register of a has the name of a function.
CallsNamesake(start) == FunctionOf(<<
  start \o <<Load("a", A), Write(Reg("a")), Call("a1", <<>>, Callee("a")), Write(Reg("a1")),
             Ret(Const(0))>> >>)

\* read c  if c then a := 2 else a := 3
Either(rest, more) == FunctionOf(<<
  <<Read("c"), Store(Reg("c"), C), Load("c1", C), Binary("ne", "if_cond", Reg("c1"), Const(0)),
    CondBr(Reg("if_cond"), Label("trueCase", 2), Label("falseCase", 3))>>,
  <<Store(Const(2), A), Br(Label("next", 4))>>,
  <<Store(Const(3), A), Br(Label("next", 4))>>,
  <<Phi("if_phi", <<Const(2), Const(3)>>, <<2, 3>>), Load("a", A)>> \o rest>> \o more)

\* ..  if a op 3 > 0 then return 1 else return 0
IfPositive(op) == Either(
  <<Binary(op, op, Reg("a"), Const(3)), Binary("sgt", "sgt", Reg(op), Const(0)),
    SExt("i32", Reg("sgt")), Binary("ne", "if_cond2", Reg("i32"), Const(0)),
    CondBr(Reg("if_cond2"), Label("trueCase2", 5), Label("falseCase2", 6))>>,
  << <<Ret(Const(1))>>, <<Ret(Const(0))>> >>)

\* ..  write a * 0 + 0
AddToZero == Either(
  <<Binary("mul", "mul", Reg("a"), Const(0)), Binary("add", "add", Reg("mul"), Const(0)),
    Write(Reg("add")), Ret(Reg("add"))>>, <<>>)

\* start  return a / 0
ByZero(start) == FunctionOf(<<
  start \o <<Load("a", A), Binary("sdiv", "sdiv", Reg("a"), Const(0)), Ret(Reg("sdiv"))>> >>)

\* start  write f(a, ..)  return b end
CallsWith(start, arguments) == FunctionOf(<<
  start \o <<Load("a", A), Load("b", B), Call("f", arguments, Callee("f")), Write(Reg("f")),
             Ret(Reg("b"))>> >>)

\* read c  if c then i := c  write i end, with i and c local: mem2reg finds no
\* value for i on one of the ways.
Unassigned == FunctionOf(<<
  <<Read("c"), Binary("ne", "if_cond", Reg("c"), Const(0)),
    CondBr(Reg("if_cond"), Label("trueCase", 2), Label("falseCase", 3))>>,
  <<Br(Label("next", 4))>>,
  <<Br(Label("next", 4))>>,
  <<Phi("i", <<Reg("c"), Undef>>, <<2, 3>>), Write(Reg("i")), Ret(Const(0))>> >>)

\* read c  while c do begin var v  v := 1  read c end: no variable of the entry
\* block, which mem2reg leaves in memory.
LocalInLoop == FunctionOf(<<
  <<Read("c"), Store(Reg("c"), C), Br(Label("condition", 2))>>,
  <<Load("c1", C), Binary("ne", "while_cond", Reg("c1"), Const(0)),
    CondBr(Reg("while_cond"), Label("cycleBody", 3), Label("next", 4))>>,
  <<Alloca("v"), Store(Const(1), Reg("v")), Read("c2"), Store(Reg("c2"), C),
    Br(Label("condition", 2))>>,
  <<Ret(Const(0))>> >>)

\* A loop over a local variable i that mem2reg has made a register: the phi
\* of the condition takes next from the body, where x and y are computed.
\* begin i := 0  while i do begin x := u + v  y := p * q  i := next end
\* return r
LocalLoop(u, v, p, q, next, r) == FunctionOf(<<
  <<Br(Label("condition", 2))>>,
  <<Phi("i", <<Const(0), next>>, <<1, 3>>), Binary("add", "h", Reg("i"), Const(1)),
    Binary("ne", "while_cond", Reg("i"), Const(0)),
    CondBr(Reg("while_cond"), Label("cycleBody", 3), Label("next", 4))>>,
  <<Binary("add", "x", u, v), Binary("mul", "y", p, q), Br(Label("condition", 2))>>,
  <<Ret(r)>> >>)

\* read x  h := x + 1  if x then return u else return v, with x and h local
LocalBranch(u, v) == FunctionOf(<<
  <<Read("x"), Binary("add", "h", Reg("x"), Const(1)),
    Binary("ne", "if_cond", Reg("x"), Const(0)),
    CondBr(Reg("if_cond"), Label("trueCase", 2), Label("falseCase", 3))>>,
  <<Ret(u)>>,
  <<Ret(v)>> >>)

\* function f(n)
\* start  write n op a  return n
WriteWithArgument(start, op) == FunctionOf(<<
  start \o <<Load("a", A), Binary(op, op, Arg("n1"), Reg("a")), Write(Reg(op)), Ret(Arg("n1"))>> >>)

\* function f(n)
\* x := 1  y := 2  while n do begin t := x  x := y  y := t  n := n - 1 end  return x
\* Each of the phis of x and y takes what the other was.
SwapLocals == FunctionOf(<<
  <<Br(Label("condition", 2))>>,
  <<Phi("n.0", <<Arg("n1"), Reg("sub")>>, <<1, 3>>),
    Phi("x.0", <<Const(1), Reg("y.0")>>, <<1, 3>>), Phi("y.0", <<Const(2), Reg("x.0")>>, <<1, 3>>),
    Phi("while_phi", <<Const(2), Reg("sub")>>, <<1, 3>>),
    Binary("ne", "while_cond", Reg("n.0"), Const(0)),
    CondBr(Reg("while_cond"), Label("cycleBody", 3), Label("next", 4))>>,
  <<Binary("sub", "sub", Reg("n.0"), Const(1)), Br(Label("condition", 2))>>,
  <<Write(Reg("x.0")), Ret(Reg("x.0"))>> >>)

\* function gcd(a, b)
\* while b do begin t := b  b := a - a / b * b  a := t end  return a
Gcd == FunctionOf(<<
  <<Br(Label("condition", 2))>>,
  <<Phi("b.0", <<Arg("b2"), Reg("sub")>>, <<1, 3>>), Phi("a.0", <<Arg("a1"), Reg("b.0")>>, <<1, 3>>),
    Phi("while_phi", <<Const(0), Reg("b.0")>>, <<1, 3>>),
    Binary("ne", "while_cond", Reg("b.0"), Const(0)),
    CondBr(Reg("while_cond"), Label("cycleBody", 3), Label("next", 4))>>,
  <<Binary("sdiv", "sdiv", Reg("a.0"), Reg("b.0")), Binary("mul", "mul", Reg("sdiv"), Reg("b.0")),
    Binary("sub", "sub", Reg("a.0"), Reg("mul")), Br(Label("condition", 2))>>,
  <<Ret(Reg("a.0"))>> >>)

\* var a, b, c, t
\* begin
\*   read c
\*   while c do begin
\*     if c then a := 1
\*     t := a  a := b  b := t
\*     read c
\*   end
\* end
Swap == FunctionOf(<<
  <<Read("c"), Store(Reg("c"), C), Br(Label("condition", 2))>>,
  <<Phi("while_phi", <<Reg("c"), Reg("c4")>>, <<1, 7>>),
    Load("c1", C), Binary("ne", "while_cond", Reg("c1"), Const(0)),
    CondBr(Reg("while_cond"), Label("cycleBody", 3), Label("next", 4))>>,
  <<Load("c2", C), Binary("ne", "if_cond", Reg("c2"), Const(0)),
    CondBr(Reg("if_cond"), Label("trueCase", 5), Label("falseCase", 6))>>,
  <<Ret(Const(0))>>,
  <<Store(Const(1), A), Br(Label("next3", 7))>>,
  <<Br(Label("next3", 7))>>,
  <<Phi("if_phi", <<Const(1), Const(0)>>, <<5, 6>>),
    Load("a", A), Store(Reg("a"), T), Load("b", B), Store(Reg("b"), A),
    Load("t", T), Store(Reg("t"), B),
    Read("c4"), Store(Reg("c4"), C), Br(Label("condition", 2))>> >>)

=============================================================================
