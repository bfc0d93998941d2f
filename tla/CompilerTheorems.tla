---------------------------- MODULE CompilerTheorems ----------------------------
(***************************************************************************)
(* What holds of the compiler for every program: it builds into an open    *)
(* block only, and it rejects exactly the programs that break a rule.      *)
(***************************************************************************)
EXTENDS CompilerLegality, FiniteSetTheorems, WellFoundedInduction, TLAPS

-----------------------------------------------------------------------------
(* The invariants: of the blocks, the calls still to be made, from the     *)
(* innermost.                                                              *)

IsSequence(s) == s \in Seq({s[k] : k \in DOMAIN s})

\* A sequence of instructions that goes on.
Straight(s) == IsSequence(s) /\ \A k \in 1 .. Len(s) : ~IsTerminator(s[k])

\* A call of visit(), or what one does after a visit of a child, inside the
\* body of a function; and a call outside of it.
Inner(call) ==
  \/ call.at = "visit" /\ call.node \in Statements \cup Expressions
  \/ call.at = "statement" /\ call.node \in Statements
  \/ call.at \in {"unroll", "write", "assign", "return", "unary", "binary", "ifJoin"}
  \/ call.at = "ifCondition" /\ {call.node.trueCase, call.node.falseCase} \subseteq Statements
  \/ call.at = "ifTrue" /\ call.node.falseCase \in Statements /\ call.falseCase # call.next
  \/ call.at = "whileCondition" /\ call.body \in Statements /\ call.condition \in Nat
  \/ call.at = "whileBody" /\ call.condition \in Nat
  \/ call.at = "binaryLeft" /\ call.node.rhs \in Expressions
  \/ call.at \in {"call", "argument"} /\ IsSequence(call.args)
       /\ ListOf(call.node.arguments, Expressions)

Outer(call) ==
  \/ call.at = "unroll"
  \/ call.at = "main" /\ call.node.body \in Statements
  \/ call.at = "visit" /\ (IsModule(call.node) \/ IsFunction(call.node))

\* The call builds into the current block.
Builds(call) ==
  call.at \in {"visit", "write", "assign", "return", "ifCondition", "whileCondition", "unary",
               "binaryLeft", "binary", "call", "argument"}

\* The call leaves an open block behind if it finds one: it is one for an
\* expression.
KeepsOpen(call) ==
  \/ call.at = "visit" /\ call.node \in Expressions
  \/ call.at \in {"unary", "binaryLeft", "binary", "call", "argument"}

\* The blocks the call is going to enter, and those it changes besides.
Reserved(call) ==
  IF call.at = "ifTrue" THEN {call.falseCase, call.next}
  ELSE IF call.at = "ifJoin" THEN {call.next}
  ELSE IF call.at = "whileCondition" THEN {call.condition + 1, call.condition + 2}
  ELSE IF call.at = "whileBody" THEN {call.condition + 2}
  ELSE {}

Held(call) ==
  Reserved(call) \cup IF call.at \in {"whileCondition", "whileBody"} THEN {call.condition} ELSE {}

\* The calls before the end of the function's body, which is the p-th; there is
\* none where p is 0.
StackInv(p) ==
  /\ \A k \in 1 .. p - 1 : Inner(todo[k])
  /\ \A k \in p + 1 .. Len(todo) : Outer(todo[k])
  /\ p > 0 => todo[p].at = "finish"
  /\ \A k \in 2 .. p - 1 : Builds(todo[k]) => KeepsOpen(todo[k - 1])
  /\ p > 1 /\ Builds(todo[1]) => bb # 0
  /\ \A k \in 1 .. p - 1 : Held(todo[k]) \subseteq 1 .. fresh - 1
  /\ \A j, k \in 1 .. p - 1 : j # k => Held(todo[j]) \cap Held(todo[k]) = {}
  /\ \A k \in 1 .. p - 1 : \A b \in Reserved(todo[k]) :
       b # bb /\ b \in DOMAIN code[f] /\ code[f][b] = <<>>

\* The current block is open, or nullptr after a return.
OpenBlock ==
  /\ f \in DOMAIN code
  /\ bb = 0 \/ (bb \in DOMAIN code[f] /\ Straight(code[f][bb]))

(* The invariant: the calls of the body keep apart the empty blocks they   *)
(* are going to enter, and one that builds without asking for nullptr      *)
(* follows one that keeps the block open.                                  *)
BlocksInv ==
  /\ IsSequence(todo)
  /\ fresh \in Nat \ {0}
  /\ \E p \in 0 .. Len(todo) : StackInv(p) /\ (p > 0 => OpenBlock)

-----------------------------------------------------------------------------
(* Of the rules, what the calls still to be made find, one after the       *)
(* other, and whether they throw.  A call finds bb open or nullptr, the    *)
(* scope of each context and the arities of the functions.                 *)

IsReturning(n) == Returns(Trees)[n]

IsVisit(call, kinds) == call.at = "visit" /\ call.node.kind \in kinds

LegalIn(n, v) == Legal(n, Trees, v.scopes[1], v.arity)

\* Neither the call, if it finds v, nor the calls it makes throw.
Accepts(call, v) ==
  CASE IsVisit(call, {"module"})   -> LegalModule(call.node, Trees)
    [] IsVisit(call, {"function"}) -> LegalFunction(call.node, Trees, v.scopes[1], v.arity)
    [] call.at = "main"            -> Legal(call.node.body, Trees, v.scopes[1], With(v.arity, "main", 0))
    [] call.at = "statement"       -> v.open /\ LegalIn(call.node, v)
    [] call.at = "assign"          -> Met(NeedsVariable(call.symbol), v.scopes[1], v.arity)
    [] call.at = "ifCondition"     -> LegalIn(call.node.trueCase, v) /\ LegalIn(call.node.falseCase, v)
    [] call.at = "ifTrue"          -> LegalIn(call.node.falseCase, v)
    [] call.at = "whileCondition"  -> LegalIn(call.body, v)
    [] call.at = "binaryLeft"      -> LegalIn(call.node.rhs, v)
    [] call.at \in {"call", "argument"} ->
         LET n == call.node
             visited == IF call.at = "call" THEN Len(call.args) ELSE Len(call.args) + 1
         IN
         /\ \A k \in visited + 1 .. Len(n.arguments) : LegalIn(n.arguments[k], v)
         /\ Met(NeedsFunction(n.function, Len(n.arguments)), v.scopes[1], v.arity)
    [] call.at = "visit" /\ ~IsVisit(call, {"module", "function"}) -> LegalIn(call.node, v)
    [] OTHER -> TRUE

\* Whether bb is open after the call.
OpenAfter(call, v) ==
  CASE IsVisit(call, {"function"}) \/ call.at = "main" -> ~IsReturning(call.node.body)
    [] call.at = "statement"      -> v.open /\ ~IsReturning(call.node)
    [] call.at = "return"         -> FALSE
    [] call.at = "ifCondition"    -> ~(IsReturning(call.node.trueCase) /\ IsReturning(call.node.falseCase))
    [] call.at = "ifTrue"         -> v.open \/ ~IsReturning(call.node.falseCase)
    [] call.at = "ifJoin"         -> v.open \/ call.trueCase # 0
    [] call.at \in {"whileCondition", "whileBody"} -> TRUE
    [] call.at = "visit" /\ ~IsVisit(call, {"module", "function"}) -> v.open /\ ~IsReturning(call.node)
    [] OTHER                      -> v.open

\* The call, if it finds v, leaves w.
Leads(call, v, w) ==
  /\ w.open <=> OpenAfter(call, v)
  /\ call.at = "unroll" => Len(v.scopes) > 1
  /\ w.scopes = IF call.at = "unroll" THEN Tail(v.scopes) ELSE v.scopes
  /\ w.arity = IF IsVisit(call, {"function"})
               THEN With(v.arity, call.node.name, Len(call.node.arguments))
               ELSE IF call.at = "main" THEN With(v.arity, "main", 0) ELSE v.arity

\* The names visible from each context on.
Sees(scopes, contexts) ==
  /\ IsSequence(scopes) /\ IsSequence(contexts) /\ Len(scopes) = Len(contexts)
  /\ \A k \in 1 .. Len(contexts) :
       /\ DOMAIN scopes[k] = UNION {DOMAIN contexts[j] : j \in k .. Len(contexts)}
       /\ \A j \in k .. Len(contexts) : \A s \in DOMAIN contexts[j] :
            (\A i \in k .. j - 1 : s \notin DOMAIN contexts[i]) =>
              (scopes[k][s] <=> contexts[j][s].constant)

Finds(v) == (v.open <=> bb # 0) /\ v.arity = arity /\ Sees(v.scopes, c)

Unstarted == todo = <<Visit(module)>> /\ arity = Runtime /\ bb = 0 /\ c = <<>>

\* The program is legal exactly if all the calls still to be made are.
StackLegal(v) ==
  /\ Finds(v[1])
  /\ \A k \in 1 .. Len(todo) : Leads(todo[k], v[k], v[k + 1])
  /\ LegalModule(module, Trees) <=> \A k \in 1 .. Len(todo) : Accepts(todo[k], v[k])

(* The invariant. *)
LegalInv ==
  /\ module \in Modules
  /\ RejectsTheIllegal
  /\ status = "running" =>
       /\ \/ Unstarted
          \/ Len(c) > 0 /\ \A k \in 1 .. Len(todo) : ~IsVisit(todo[k], {"module"})
       /\ \E v : StackLegal(v)

-----------------------------------------------------------------------------
(* Sequences, of whatever elements. *)

LEMMA SequenceFacts ==
  ASSUME NEW s, IsSequence(s)
  PROVE  Len(s) \in Nat /\ DOMAIN s = 1 .. Len(s)
BY DEF IsSequence

LEMMA IsSequenceOf ==
  ASSUME NEW A, NEW s \in Seq(A)
  PROVE  IsSequence(s)
<1> DEFINE B == {s[k] : k \in DOMAIN s}
<1>1. Len(s) \in Nat /\ DOMAIN s = 1 .. Len(s) /\ s \in [1 .. Len(s) -> A]
  OBVIOUS
<1>2. s \in [1 .. Len(s) -> B]
  BY <1>1
<1>3. s \in Seq(B)
  <2> HIDE DEF B
  <2> QED BY <1>1, <1>2
<1> QED BY <1>3 DEF IsSequence

LEMMA SequenceOfMore ==
  ASSUME NEW A, NEW B, A \subseteq B, NEW s \in Seq(A)
  PROVE  s \in Seq(B)
<1>1. s \in [1 .. Len(s) -> A] /\ Len(s) \in Nat
  OBVIOUS
<1>2. s \in [1 .. Len(s) -> B]
  BY <1>1
<1> QED BY <1>1, <1>2

LEMMA FunctionSequence ==
  ASSUME NEW n \in Nat, NEW g, g = [k \in 1 .. n |-> g[k]]
  PROVE  IsSequence(g) /\ Len(g) = n
<1> DEFINE A == {g[k] : k \in 1 .. n}
<1>1. g \in [1 .. n -> A]
  OBVIOUS
<1>2. g \in Seq(A) /\ Len(g) = n
  <2> HIDE DEF A
  <2> QED BY <1>1
<1> QED BY <1>2, IsSequenceOf

LEMMA ShortSequences ==
  /\ IsSequence(<<>>) /\ Len(<<>>) = 0
  /\ \A x : IsSequence(<<x>>) /\ Len(<<x>>) = 1 /\ <<x>>[1] = x
  /\ \A x, y : /\ IsSequence(<<x, y>>) /\ Len(<<x, y>>) = 2
               /\ <<x, y>>[1] = x /\ <<x, y>>[2] = y
  /\ \A x, y, z : /\ IsSequence(<<x, y, z>>) /\ Len(<<x, y, z>>) = 3
                  /\ <<x, y, z>>[1] = x /\ <<x, y, z>>[2] = y /\ <<x, y, z>>[3] = z
<1>1. IsSequence(<<>>)
  BY DEF IsSequence
<1>2. ASSUME NEW x, NEW y, NEW z
      PROVE  IsSequence(<<x>>) /\ IsSequence(<<x, y>>) /\ IsSequence(<<x, y, z>>)
  <2>1. /\ <<x>> \in Seq({x, y, z}) /\ <<x, y>> \in Seq({x, y, z})
        /\ <<x, y, z>> \in Seq({x, y, z})
    OBVIOUS
  <2> QED BY <2>1, IsSequenceOf
<1> QED BY <1>1, <1>2

LEMMA ConcatFacts ==
  ASSUME NEW s, NEW t, IsSequence(s), IsSequence(t)
  PROVE  /\ IsSequence(s \o t)
         /\ Len(s \o t) = Len(s) + Len(t)
         /\ \A k \in 1 .. Len(s) : (s \o t)[k] = s[k]
         /\ \A k \in 1 .. Len(t) : (s \o t)[Len(s) + k] = t[k]
<1> DEFINE A == {s[k] : k \in DOMAIN s}
           B == {t[k] : k \in DOMAIN t}
           C == A \cup B
<1>1. s \in Seq(A) /\ t \in Seq(B)
  BY DEF IsSequence
<1>2. s \in Seq(C) /\ t \in Seq(C)
  <2> HIDE DEF A, B
  <2> QED BY <1>1, SequenceOfMore
<1> HIDE DEF C
<1>3. s \o t \in Seq(C)
  BY <1>2
<1>4. IsSequence(s \o t)
  BY <1>3, IsSequenceOf
<1>5. /\ Len(s \o t) = Len(s) + Len(t)
      /\ \A k \in 1 .. Len(s) : (s \o t)[k] = s[k]
  BY <1>2
<1>6. ASSUME NEW k \in 1 .. Len(t)
      PROVE  (s \o t)[Len(s) + k] = t[k]
  <2>1. Len(s) \in Nat /\ Len(t) \in Nat
    BY <1>2
  <2>2. Len(s) + k \in 1 .. Len(s) + Len(t) /\ Len(s) + k > Len(s) /\ Len(s) + k - Len(s) = k
    BY <2>1
  <2> QED BY <1>2, <2>2
<1> QED BY <1>4, <1>5, <1>6

LEMMA TailFacts ==
  ASSUME NEW s, IsSequence(s), s # <<>>
  PROVE  /\ IsSequence(Tail(s)) /\ Len(s) > 0
         /\ Len(Tail(s)) = Len(s) - 1
         /\ Head(s) = s[1]
         /\ \A k \in 1 .. Len(s) - 1 : Tail(s)[k] = s[k + 1]
<1> DEFINE A == {s[k] : k \in DOMAIN s}
<1>1. s \in Seq(A)
  BY DEF IsSequence
<1> HIDE DEF A
<1>2. /\ Tail(s) \in Seq(A) /\ Len(s) \in Nat /\ Len(s) > 0
      /\ Len(Tail(s)) = Len(s) - 1 /\ Head(s) = s[1]
      /\ \A k \in 1 .. Len(s) - 1 : Tail(s)[k] = s[k + 1]
  BY <1>1
<1> QED BY <1>2, IsSequenceOf

LEMMA AppendSequence ==
  ASSUME NEW s, IsSequence(s), NEW x
  PROVE  IsSequence(Append(s, x))
<1> DEFINE A == {s[k] : k \in DOMAIN s} \cup {x}
<1>1. s \in Seq({s[k] : k \in DOMAIN s})
  BY DEF IsSequence
<1>2. s \in Seq(A)
  BY <1>1, SequenceOfMore
<1> HIDE DEF A
<1>3. Append(s, x) \in Seq(A)
  <2>1. x \in A
    BY DEF A
  <2> QED BY <1>2, <2>1
<1> QED BY <1>3, IsSequenceOf

(* Instructions appended to a block that goes on.                          *)
LEMMA StraightConcat ==
  ASSUME NEW s, NEW t, Straight(s), Straight(t)
  PROVE  Straight(s \o t)
<1>1. /\ Len(s) \in Nat /\ Len(t) \in Nat
      /\ IsSequence(s \o t)
      /\ Len(s \o t) = Len(s) + Len(t)
      /\ \A k \in 1 .. Len(s) : (s \o t)[k] = s[k]
      /\ \A k \in 1 .. Len(t) : (s \o t)[Len(s) + k] = t[k]
  BY ConcatFacts, SequenceFacts DEF Straight
<1>2. ASSUME NEW k \in 1 .. Len(s \o t)
      PROVE  ~IsTerminator((s \o t)[k])
  <2>1. CASE k \in 1 .. Len(s)
    BY <1>1, <2>1 DEF Straight
  <2>2. CASE k \notin 1 .. Len(s)
    <3>1. k - Len(s) \in 1 .. Len(t) /\ k = Len(s) + (k - Len(s))
      BY <1>1, <2>2
    <3>2. (s \o t)[k] = t[k - Len(s)]
      BY <1>1, <3>1
    <3> QED BY <3>1, <3>2 DEF Straight
  <2> QED BY <2>1, <2>2
<1> QED BY <1>1, <1>2 DEF Straight

LEMMA StraightShort ==
  /\ Straight(<<>>)
  /\ \A x : ~IsTerminator(x) => Straight(<<x>>)
  /\ \A x, y : ~IsTerminator(x) /\ ~IsTerminator(y) => Straight(<<x, y>>)
BY ShortSequences DEF Straight

LEMMA NoTerminators ==
  /\ \A id, op, uses : op \notin {"br", "ret"} => ~IsTerminator(Inst(id, op, uses))
  /\ \A id, uses, from : ~IsTerminator(PhiNode(id, uses, from))
BY DEF IsTerminator, Inst, PhiNode

-----------------------------------------------------------------------------
(* The stack of calls. *)

(* A call has been replaced by those that follow from it.                  *)
LEMMA Replaced ==
  ASSUME IsSequence(todo), todo # <<>>,
         NEW calls, IsSequence(calls), todo' = calls \o Tail(todo)
  PROVE  /\ IsSequence(todo)'
         /\ Len(todo) \in Nat \ {0} /\ Len(calls) \in Nat /\ Top = todo[1]
         /\ Len(todo') = Len(calls) + Len(todo) - 1
         /\ \A k \in 1 .. Len(calls) : todo'[k] = calls[k]
         /\ \A k \in 2 .. Len(todo) : todo'[Len(calls) + k - 1] = todo[k]
<1>1. /\ IsSequence(Tail(todo)) /\ Len(Tail(todo)) = Len(todo) - 1 /\ Len(todo) > 0
      /\ Head(todo) = todo[1]
      /\ \A k \in 1 .. Len(todo) - 1 : Tail(todo)[k] = todo[k + 1]
  BY TailFacts
<1>2. Len(todo) \in Nat /\ Len(calls) \in Nat
  BY SequenceFacts
<1>3. /\ IsSequence(todo')
      /\ Len(todo') = Len(calls) + Len(Tail(todo))
      /\ \A k \in 1 .. Len(calls) : todo'[k] = calls[k]
      /\ \A k \in 1 .. Len(Tail(todo)) : todo'[Len(calls) + k] = Tail(todo)[k]
  BY <1>1, ConcatFacts
<1>4. ASSUME NEW k \in 2 .. Len(todo)
      PROVE  todo'[Len(calls) + k - 1] = todo[k]
  <2>1. k - 1 \in 1 .. Len(todo) - 1 /\ Len(calls) + (k - 1) = Len(calls) + k - 1 /\ (k - 1) + 1 = k
    BY <1>2
  <2>2. todo'[Len(calls) + (k - 1)] = Tail(todo)[k - 1]
    BY <1>1, <1>3, <2>1
  <2>3. Tail(todo)[k - 1] = todo[k]
    BY <1>1, <2>1
  <2> QED BY <2>1, <2>2, <2>3
<1>5. IsSequence(todo)'
  BY <1>3 DEF IsSequence
<1> QED BY <1>1, <1>2, <1>3, <1>4, <1>5 DEF Top

(* Two neighbouring positions of the new stack that both hold calls of the *)
(* old one.                                                                *)
LEMMA OldNeighbours ==
  ASSUME NEW m \in Nat, NEW p \in Nat, NEW n \in Nat, NEW q \in 1 .. n, q = m + p - 1,
         NEW k \in m + 2 .. q - 1
  PROVE  /\ k \in m + 1 .. n /\ k - 1 \in m + 1 .. n
         /\ (k - 1) - m + 1 = (k - m + 1) - 1
         /\ k - m + 1 \in 2 .. p - 1
<1>1. k \in m + 1 .. n
  OBVIOUS
<1>2. k - 1 \in m + 1 .. n
  OBVIOUS
<1>3. (k - 1) - m + 1 = (k - m + 1) - 1
  OBVIOUS
<1>4. k - m + 1 \in 2 .. p - 1
  OBVIOUS
<1> QED BY <1>1, <1>2, <1>3, <1>4

(* What a call inside a body leaves to be done, if that keeps the blocks   *)
(* of the other calls empty and takes for itself only blocks the call had  *)
(* or new ones.                                                            *)
LEMMA InnerStep ==
  ASSUME IsSequence(todo), fresh \in Nat \ {0},
         NEW p \in 2 .. Len(todo), StackInv(p),
         NEW calls, IsSequence(calls), todo' = calls \o Tail(todo),
         fresh' \in Nat, fresh <= fresh', f' = f, OpenBlock',
         \A k \in 1 .. Len(calls) : Inner(calls[k]),
         \A k \in 2 .. Len(calls) : Builds(calls[k]) => KeepsOpen(calls[k - 1]),
         Len(calls) > 0 /\ Builds(calls[1]) => bb' # 0,
         KeepsOpen(todo[1]) =>
           IF Len(calls) = 0 THEN bb' # 0 ELSE KeepsOpen(calls[Len(calls)]),
         \A k \in 1 .. Len(calls) : Held(calls[k]) \subseteq Held(todo[1]) \cup fresh .. fresh' - 1,
         \A j, k \in 1 .. Len(calls) : j # k => Held(calls[j]) \cap Held(calls[k]) = {},
         \A k \in 1 .. Len(calls) : \A b \in Reserved(calls[k]) :
           b # bb' /\ b \in DOMAIN code'[f] /\ code'[f][b] = <<>>,
         \A b \in DOMAIN code[f] :
           b \in 1 .. fresh - 1 /\ b # bb /\ b \notin Held(todo[1]) /\ code[f][b] = <<>> =>
             b # bb' /\ b \in DOMAIN code'[f] /\ code'[f][b] = <<>>
  PROVE  BlocksInv'
<1> DEFINE m == Len(calls)
           q == m + p - 1
<1>1. /\ IsSequence(todo)' /\ Len(todo) \in Nat /\ m \in Nat /\ p \in Nat
      /\ todo # <<>>
      /\ Len(todo') = m + Len(todo) - 1
      /\ \A k \in 1 .. m : todo'[k] = calls[k]
      /\ \A k \in 2 .. Len(todo) : todo'[m + k - 1] = todo[k]
  <2>1. Len(todo) \in Nat /\ Len(todo) > 1
    BY SequenceFacts
  <2>2. todo # <<>>
    BY <2>1, ShortSequences
  <2>3. /\ IsSequence(todo)' /\ m \in Nat /\ Len(todo') = m + Len(todo) - 1
        /\ \A k \in 1 .. m : todo'[k] = calls[k]
        /\ \A k \in 2 .. Len(todo) : todo'[m + k - 1] = todo[k]
    BY ONLY IsSequence(todo), IsSequence(calls), todo' = calls \o Tail(todo), <2>2, Replaced DEF m
  <2>4. p \in Nat
    BY <2>1
  <2> QED BY <2>1, <2>2, <2>3, <2>4
<1> HIDE DEF m
<1>2. q \in 1 .. Len(todo') /\ p <= Len(todo) /\ 2 <= p
  BY <1>1
<1>3. ASSUME NEW k \in m + 1 .. Len(todo')
      PROVE  /\ k - m + 1 \in 2 .. Len(todo) /\ todo'[k] = todo[k - m + 1]
             /\ k < q => k - m + 1 \in 2 .. p - 1
             /\ k = q => k - m + 1 = p
             /\ k > q => k - m + 1 \in p + 1 .. Len(todo)
  <2>1. k - m + 1 \in 2 .. Len(todo) /\ m + (k - m + 1) - 1 = k
    BY <1>1
  <2>2. todo'[m + (k - m + 1) - 1] = todo[k - m + 1]
    BY <1>1, <2>1
  <2> QED BY <1>1, <1>2, <2>1, <2>2
<1>4. ASSUME NEW k \in 1 .. q - 1
      PROVE  \/ k \in 1 .. m /\ todo'[k] = calls[k]
             \/ /\ k \in m + 1 .. Len(todo') /\ k - m + 1 \in 2 .. p - 1
                /\ todo'[k] = todo[k - m + 1]
  <2>1. k \in 1 .. m \/ k \in m + 1 .. Len(todo')
    BY <1>1, <1>2
  <2> QED BY <1>1, <1>3, <2>1
<1> HIDE DEF q
<1>a. \A k \in 1 .. m : Inner(calls[k])
  BY DEF m
<1>b. \A k \in 2 .. m : Builds(calls[k]) => KeepsOpen(calls[k - 1])
  BY DEF m
<1>c. \A k \in 1 .. p - 1 : Inner(todo[k])
  BY DEF StackInv
<1>d. \A k \in 2 .. p - 1 : Builds(todo[k]) => KeepsOpen(todo[k - 1])
  BY DEF StackInv
<1>5. ASSUME NEW k \in 1 .. q - 1
      PROVE  Inner(todo'[k])
  <2>1. CASE k \in 1 .. m /\ todo'[k] = calls[k]
    BY <1>a, <2>1
  <2>2. CASE k - m + 1 \in 2 .. p - 1 /\ todo'[k] = todo[k - m + 1]
    <3>1. k - m + 1 \in 1 .. p - 1
      BY <1>1, <2>2
    <3> QED BY <1>c, <2>2, <3>1
  <2> QED BY <1>4, <2>1, <2>2
<1>6. \A k \in q + 1 .. Len(todo') : Outer(todo'[k])
  <2> TAKE k \in q + 1 .. Len(todo')
  <2>1. k \in m + 1 .. Len(todo') /\ k > q
    BY <1>1, <1>2 DEF q
  <2> QED BY <1>3, <2>1 DEF StackInv
<1>7. todo'[q].at = "finish"
  <2>1. q \in m + 1 .. Len(todo')
    BY <1>1, <1>2 DEF q
  <2> QED BY <1>2, <1>3, <2>1 DEF StackInv
<1>8. ASSUME NEW k \in 2 .. q - 1, Builds(todo'[k])
      PROVE  KeepsOpen(todo'[k - 1])
  <2>0. q \in Nat /\ q = m + p - 1
    BY <1>1, <1>2 DEF q
  <2>1. CASE k \in 2 .. m
    <3>1. k - 1 \in 1 .. m /\ k \in 1 .. m
      BY <1>1, <2>1
    <3>2. todo'[k] = calls[k] /\ todo'[k - 1] = calls[k - 1]
      BY <1>1, <3>1
    <3> QED BY <1>8, <1>b, <2>1, <3>2
  <2>2. CASE k = m + 1
    <3>1. 2 \in 2 .. p - 1 /\ m + 2 - 1 = k /\ todo'[k] = todo[2]
      <4>1. 2 \in 2 .. p - 1 /\ 2 \in 2 .. Len(todo) /\ m + 2 - 1 = k
        BY <1>1, <1>2, <2>0, <2>2
      <4> QED BY <1>1, <4>1
    <3>2. KeepsOpen(todo[2 - 1])
      BY <1>8, <1>d, <3>1
    <3>3. k - 1 = m /\ m \in 1 .. m /\ m # 0
      BY <1>1, <1>8, <2>2
    <3>4. KeepsOpen(todo[1]) /\ todo'[k - 1] = calls[m]
      BY <1>1, <3>2, <3>3
    <3> QED BY <3>3, <3>4 DEF m
  <2>3. CASE k \in m + 2 .. q - 1
    <3>1. /\ k \in m + 1 .. Len(todo') /\ k - 1 \in m + 1 .. Len(todo')
          /\ (k - 1) - m + 1 = (k - m + 1) - 1
          /\ k - m + 1 \in 2 .. p - 1
      <4>1. m \in Nat /\ p \in Nat /\ Len(todo') \in Nat
        BY <1>1
      <4>2. q \in 1 .. Len(todo') /\ q = m + p - 1
        BY <1>2, <2>0
      <4> QED BY <2>3, <4>1, <4>2, OldNeighbours
    <3>2. todo'[k] = todo[k - m + 1] /\ todo'[k - 1] = todo[(k - m + 1) - 1]
      BY <1>3, <3>1
    <3> QED BY <1>8, <1>d, <3>1, <3>2
  <2> QED BY <1>1, <2>0, <2>1, <2>2, <2>3
<1>9. ASSUME q > 1, Builds(todo'[1])
      PROVE  bb' # 0
  <2>1. CASE m = 0
    <3>1. 2 \in 2 .. p - 1 /\ m + 2 - 1 = 1 /\ todo'[1] = todo[2]
      <4>1. 2 \in 2 .. p - 1 /\ 2 \in 2 .. Len(todo) /\ m + 2 - 1 = 1
        BY <1>1, <1>2, <1>9, <2>1 DEF q
      <4> QED BY <1>1, <4>1
    <3>2. KeepsOpen(todo[1])
      BY <1>9, <3>1 DEF StackInv
    <3> QED BY <2>1, <3>2 DEF m
  <2>2. CASE m # 0
    <3>1. 1 \in 1 .. m /\ m > 0
      BY <1>1, <2>2
    <3>2. todo'[1] = calls[1]
      BY <1>1, <3>1
    <3> QED BY <1>9, <3>1, <3>2 DEF m
  <2> QED BY <2>1, <2>2
<1>10. ASSUME NEW k \in 1 .. q - 1
       PROVE  Held(todo'[k]) \subseteq 1 .. fresh' - 1
  <2>1. \A j \in 1 .. p - 1 : Held(todo[j]) \subseteq 1 .. fresh - 1
    BY DEF StackInv
  <2>2. 1 \in 1 .. p - 1 /\ 2 .. p - 1 \subseteq 1 .. p - 1
    BY <1>1
  <2>3. 1 .. fresh - 1 \subseteq 1 .. fresh' - 1 /\ fresh .. fresh' - 1 \subseteq 1 .. fresh' - 1
    OBVIOUS
  <2>4. Held(todo[1]) \subseteq 1 .. fresh - 1
    BY <2>1, <2>2
  <2>5. CASE k \in 1 .. m /\ todo'[k] = calls[k]
    <3>1. Held(calls[k]) \subseteq Held(todo[1]) \cup fresh .. fresh' - 1
      BY <2>5 DEF m
    <3> HIDE DEF Held
    <3> QED BY <2>3, <2>4, <2>5, <3>1
  <2>6. CASE k - m + 1 \in 2 .. p - 1 /\ todo'[k] = todo[k - m + 1]
    <3>1. Held(todo[k - m + 1]) \subseteq 1 .. fresh - 1
      BY <2>1, <2>2, <2>6
    <3> QED BY <2>3, <2>6, <3>1
  <2> QED BY <1>4, <2>5, <2>6
<1>11. ASSUME NEW j \in 1 .. q - 1, NEW k \in 1 .. q - 1, j # k
       PROVE  Held(todo'[j]) \cap Held(todo'[k]) = {}
  <2>1. /\ \A i \in 1 .. p - 1 : Held(todo[i]) \subseteq 1 .. fresh - 1
        /\ \A i, l \in 1 .. p - 1 : i # l => Held(todo[i]) \cap Held(todo[l]) = {}
    BY DEF StackInv
  <2>2. /\ 1 \in 1 .. p - 1 /\ 2 .. p - 1 \subseteq 1 .. p - 1
        /\ \A i \in 2 .. p - 1 : i # 1
        /\ (1 .. fresh - 1) \cap (fresh .. fresh' - 1) = {}
    BY <1>1
  <2>3. ASSUME NEW i \in 1 .. m, NEW l \in 2 .. p - 1
        PROVE  Held(calls[i]) \cap Held(todo[l]) = {}
    <3>1. Held(calls[i]) \subseteq Held(todo[1]) \cup fresh .. fresh' - 1
      BY DEF m
    <3>2. Held(todo[1]) \cap Held(todo[l]) = {} /\ Held(todo[l]) \subseteq 1 .. fresh - 1
      BY <2>1, <2>2
    <3> QED BY <2>2, <3>1, <3>2
  <2>4. CASE j \in 1 .. m /\ todo'[j] = calls[j] /\ k \in 1 .. m /\ todo'[k] = calls[k]
    BY <1>11, <2>4 DEF m
  <2>5. CASE j \in 1 .. m /\ todo'[j] = calls[j] /\ k - m + 1 \in 2 .. p - 1 /\ todo'[k] = todo[k - m + 1]
    BY <2>3, <2>5
  <2>6. CASE k \in 1 .. m /\ todo'[k] = calls[k] /\ j - m + 1 \in 2 .. p - 1 /\ todo'[j] = todo[j - m + 1]
    BY <2>3, <2>6
  <2>7. CASE /\ j - m + 1 \in 2 .. p - 1 /\ todo'[j] = todo[j - m + 1]
             /\ k - m + 1 \in 2 .. p - 1 /\ todo'[k] = todo[k - m + 1]
    <3>1. j - m + 1 # k - m + 1
      BY <1>1, <1>11
    <3> QED BY <2>1, <2>2, <2>7, <3>1
  <2> QED BY <1>4, <2>4, <2>5, <2>6, <2>7
<1>12. ASSUME NEW k \in 1 .. q - 1, NEW b \in Reserved(todo'[k])
       PROVE  b # bb' /\ b \in DOMAIN code'[f] /\ code'[f][b] = <<>>
  <2>1. CASE k \in 1 .. m /\ todo'[k] = calls[k]
    BY <1>12, <2>1 DEF m
  <2>2. CASE k - m + 1 \in 2 .. p - 1 /\ todo'[k] = todo[k - m + 1]
    <3> DEFINE i == k - m + 1
    <3>1. i \in 1 .. p - 1 /\ i # 1 /\ 1 \in 1 .. p - 1 /\ b \in Reserved(todo[i])
      BY <1>1, <1>12, <2>2
    <3> HIDE DEF i
    <3>2. b # bb /\ b \in DOMAIN code[f] /\ code[f][b] = <<>>
      BY <3>1 DEF StackInv
    <3>3. b \in Held(todo[i])
      BY <3>1 DEF Held
    <3>4. b \in 1 .. fresh - 1 /\ b \notin Held(todo[1])
      BY <3>1, <3>3 DEF StackInv
    <3> QED BY <3>2, <3>4
  <2> QED BY <1>4, <2>1, <2>2
<1>13. StackInv(q)'
  BY <1>5, <1>6, <1>7, <1>8, <1>9, <1>10, <1>11, <1>12 DEF StackInv
<1>14. q \in 0 .. Len(todo')
  BY <1>1, <1>2
<1>15. fresh' \in Nat \ {0}
  OBVIOUS
<1> QED BY <1>1, <1>13, <1>14, <1>15 DEF BlocksInv

(* A call that is no end of a body, nor one of the module's or a           *)
(* function's, is one of a body.                                           *)
LEMMA InsideBody ==
  ASSUME BlocksInv, todo # <<>>, Top.at \notin {"finish", "unroll", "main"},
         Top.at = "visit" => Top.node.kind \notin {"module", "function"}
  PROVE  \E p \in 2 .. Len(todo) :
           /\ StackInv(p) /\ OpenBlock /\ Top = todo[1] /\ Inner(Top)
           /\ Builds(Top) => bb # 0
<1>1. PICK p \in 0 .. Len(todo) : StackInv(p) /\ (p > 0 => OpenBlock)
  BY DEF BlocksInv
<1>2. Len(todo) \in Nat \ {0} /\ Top = todo[1]
  BY TailFacts, SequenceFacts DEF BlocksInv, Top
<1>3. p # 0
  <2> SUFFICES ASSUME p = 0 PROVE FALSE
    OBVIOUS
  <2>1. 1 \in p + 1 .. Len(todo)
    BY <1>2
  <2>2. Outer(todo[1])
    BY <1>1, <2>1 DEF StackInv
  <2> QED BY <1>2, <2>2 DEF Outer, IsModule, IsFunction
<1>4. p # 1
  BY <1>1, <1>2 DEF StackInv
<1>5. p \in 2 .. Len(todo) /\ 1 \in 1 .. p - 1 /\ p > 1 /\ p > 0
  BY <1>2, <1>3, <1>4
<1> QED BY <1>1, <1>2, <1>5 DEF StackInv

(* Where nothing but the stack changes.                                    *)
LEMMA ContinueStep ==
  ASSUME BlocksInv, NEW p \in 2 .. Len(todo), StackInv(p), OpenBlock,
         NEW calls, IsSequence(calls), Continue(calls),
         \A k \in 1 .. Len(calls) : Inner(calls[k]) /\ Held(calls[k]) = {},
         \A k \in 2 .. Len(calls) : Builds(calls[k]) => KeepsOpen(calls[k - 1]),
         Len(calls) > 0 /\ Builds(calls[1]) => bb # 0,
         KeepsOpen(todo[1]) =>
           IF Len(calls) = 0 THEN bb # 0 ELSE KeepsOpen(calls[Len(calls)])
  PROVE  BlocksInv'
<1>1. /\ todo' = calls \o Tail(todo)
      /\ f' = f /\ bb' = bb /\ code' = code /\ fresh' = fresh
  BY DEF Continue, Then
<1>2. IsSequence(todo) /\ fresh \in Nat \ {0}
  BY DEF BlocksInv
<1>3. OpenBlock'
  BY <1>1 DEF OpenBlock, Straight, IsSequence
<1>4. \A k \in 1 .. Len(calls) : Reserved(calls[k]) = {}
  BY DEF Held
<1>5. fresh' \in Nat /\ fresh <= fresh'
  BY <1>1, <1>2
<1> QED BY <1>1, <1>2, <1>3, <1>4, <1>5, InnerStep

(* Instructions appended to the current block leave the others alone.      *)
LEMMA IntoFacts ==
  ASSUME OpenBlock, bb # 0, NEW insts, code' = Into(bb, insts)
  PROVE  /\ f \in DOMAIN code' /\ DOMAIN code'[f] = DOMAIN code[f]
         /\ bb \in DOMAIN code[f] /\ Straight(code[f][bb])
         /\ code'[f][bb] = code[f][bb] \o insts
         /\ \A b \in DOMAIN code[f] \ {bb} : code'[f][b] = code[f][b]
BY DEF Into, OpenBlock

(* Where they do not end it.                                               *)
LEMMA EmitStep ==
  ASSUME BlocksInv, NEW p \in 2 .. Len(todo), StackInv(p), OpenBlock, bb # 0,
         NEW insts, NEW value, Straight(insts), Emit(insts, value, <<>>)
  PROVE  BlocksInv'
<1>1. /\ todo' = <<>> \o Tail(todo)
      /\ f' = f /\ bb' = bb /\ code' = Into(bb, insts) /\ fresh' = fresh + 1
  BY DEF Emit, Then
<1>2. IsSequence(todo) /\ fresh \in Nat \ {0} /\ fresh' \in Nat /\ fresh <= fresh'
  BY <1>1 DEF BlocksInv
<1>3. /\ f \in DOMAIN code' /\ DOMAIN code'[f] = DOMAIN code[f]
      /\ bb \in DOMAIN code[f] /\ Straight(code[f][bb])
      /\ code'[f][bb] = code[f][bb] \o insts
      /\ \A b \in DOMAIN code[f] \ {bb} : code'[f][b] = code[f][b]
  BY <1>1, IntoFacts
<1>4. Straight(code'[f][bb])
  BY <1>3, StraightConcat
<1>5. OpenBlock'
  BY <1>1, <1>3, <1>4 DEF OpenBlock, Straight, IsSequence
<1> DEFINE calls == <<>>
<1>6. /\ IsSequence(calls) /\ Len(calls) = 0 /\ todo' = calls \o Tail(todo)
      /\ 1 .. Len(calls) = {} /\ 2 .. Len(calls) = {}
  BY <1>1, ShortSequences
<1> HIDE DEF calls
<1> QED BY <1>1, <1>2, <1>3, <1>5, <1>6, InnerStep

LEMMA OneCall ==
  ASSUME BlocksInv, NEW p \in 2 .. Len(todo), StackInv(p), OpenBlock,
         NEW a, Continue(<<a>>), Inner(a), Held(a) = {}, bb # 0,
         KeepsOpen(todo[1]) => KeepsOpen(a)
  PROVE  BlocksInv'
<1> DEFINE calls == <<a>>
<1>1. IsSequence(calls) /\ Len(calls) = 1 /\ calls[1] = a /\ Continue(calls)
  BY ShortSequences
<1> HIDE DEF calls
<1>2. 1 .. Len(calls) = {1} /\ 2 .. Len(calls) = {}
  BY <1>1
<1> QED BY <1>1, <1>2, ContinueStep

LEMMA TwoCalls ==
  ASSUME BlocksInv, NEW p \in 2 .. Len(todo), StackInv(p), OpenBlock,
         NEW a, NEW b, Continue(<<a, b>>), Inner(a), Inner(b), Held(a) = {}, Held(b) = {},
         bb # 0, KeepsOpen(a), KeepsOpen(todo[1]) => KeepsOpen(b)
  PROVE  BlocksInv'
<1> DEFINE calls == <<a, b>>
<1>1. IsSequence(calls) /\ Len(calls) = 2 /\ calls[1] = a /\ calls[2] = b /\ Continue(calls)
  BY ShortSequences
<1> HIDE DEF calls
<1>2. 1 .. Len(calls) = {1, 2} /\ 2 .. Len(calls) = {2}
  BY <1>1
<1>3. \A k \in 1 .. Len(calls) : Inner(calls[k]) /\ Held(calls[k]) = {}
  BY <1>1, <1>2
<1>4. \A k \in 2 .. Len(calls) : Builds(calls[k]) => KeepsOpen(calls[k - 1])
  BY <1>1, <1>2
<1> QED BY <1>1, <1>3, <1>4, ContinueStep

(* What the grammar says of a node that is visited inside a body.          *)
LEMMA NodeFacts ==
  ASSUME NEW n \in Statements \cup Expressions
  PROVE  /\ n.kind \notin {"module", "function"}
         /\ n \in Expressions =>
              n.kind \in {"number", "variable", "unary", "binary", "call"}
         /\ n.kind = "unary" => n.operand \in Expressions
         /\ n.kind = "binary" => n.lhs \in Expressions /\ n.rhs \in Expressions
         /\ n.kind = "call" => ListOf(n.arguments, Expressions)
         /\ n.kind = "write" => n.expression \in Expressions
         /\ n.kind \in {"return", "assignment"} => n.value \in Expressions
         /\ n.kind = "if" => /\ n.condition \in Expressions
                             /\ {n.trueCase, n.falseCase} \subseteq Statements
         /\ n.kind = "while" => n.condition \in Expressions /\ n.body \in Statements
         /\ n.kind = "block" =>
              Len(n.declarations) \in Nat /\ ListOf(n.statements, Statements)
<1>1. CASE n \in Expressions
  <2>1. IsExpression(n)
    BY <1>1, GrammarAssumption
  <2> QED BY <2>1 DEF IsExpression
<1>2. CASE n \notin Expressions
  <2>1. IsStatement(n)
    BY <1>2, GrammarAssumption
  <2> QED BY <1>2, <2>1 DEF IsStatement
<1> QED BY <1>1, <1>2

LEMMA ThrowStep ==
  ASSUME BlocksInv, Throw
  PROVE  BlocksInv'
BY DEF Throw, BlocksInv, StackInv, OpenBlock, Straight, IsSequence

(* Visiting a node whose operands come first.                              *)
LEMMA VisitStep ==
  ASSUME BlocksInv,
         VisitOperand \/ VisitIf \/ VisitBinary \/ VisitCall
  PROVE  BlocksInv'
<1> DEFINE n == Top.node
<1>1. /\ todo # <<>> /\ Top.at = "visit"
      /\ n.kind \in {"write", "return", "assignment", "unary", "if", "binary", "call"}
  BY DEF VisitOperand, VisitIf, VisitBinary, VisitCall, Visiting, Running
<1>2. PICK p \in 2 .. Len(todo) :
        /\ StackInv(p) /\ OpenBlock /\ Top = todo[1] /\ Inner(Top)
        /\ Builds(Top) => bb # 0
  BY <1>1, InsideBody
<1>3. bb # 0 /\ n \in Statements \cup Expressions
  BY <1>1, <1>2 DEF Builds, Inner
<1>4. KeepsOpen(todo[1]) <=> n \in Expressions
  BY <1>1, <1>2 DEF KeepsOpen
<1>5. n \in Expressions => n.kind \in {"number", "variable", "unary", "binary", "call"}
  BY <1>3, NodeFacts
<1>6. ASSUME NEW x \in Expressions, NEW b, Continue(<<Visit(x), b>>),
             Inner(b), Held(b) = {}, n \in Expressions => KeepsOpen(b)
      PROVE  BlocksInv'
  <2>1. Inner(Visit(x)) /\ Held(Visit(x)) = {} /\ KeepsOpen(Visit(x))
    BY DEF Inner, Held, Reserved, KeepsOpen, Visit
  <2> QED BY <1>2, <1>3, <1>4, <1>6, <2>1, TwoCalls
<1>7. CASE n.kind = "write" /\ Continue(<<Visit(n.expression), [at |-> "write"]>>)
  BY <1>3, <1>5, <1>6, <1>7, NodeFacts DEF Inner, Held, Reserved
<1>8. CASE n.kind = "return" /\ Continue(<<Visit(n.value), [at |-> "return"]>>)
  BY <1>3, <1>5, <1>6, <1>8, NodeFacts DEF Inner, Held, Reserved
<1>9. CASE n.kind = "assignment"
             /\ Continue(<<Visit(n.value), [at |-> "assign", symbol |-> n.symbol]>>)
  BY <1>3, <1>5, <1>6, <1>9, NodeFacts DEF Inner, Held, Reserved
<1>10. CASE n.kind = "unary"
              /\ Continue(<<Visit(n.operand), [at |-> "unary", negates |-> n.negates]>>)
  BY <1>3, <1>6, <1>10, NodeFacts DEF Inner, Held, Reserved, KeepsOpen
<1>11. CASE n.kind = "if"
              /\ Continue(<<Visit(n.condition), [at |-> "ifCondition", node |-> n]>>)
  BY <1>3, <1>5, <1>6, <1>11, NodeFacts DEF Inner, Held, Reserved
<1>12. CASE n.kind = "binary"
              /\ Continue(<<Visit(n.lhs), [at |-> "binaryLeft", node |-> n]>>)
  BY <1>3, <1>6, <1>12, NodeFacts DEF Inner, Held, Reserved, KeepsOpen
<1>13. CASE n.kind = "call" /\ Continue(<<[at |-> "call", node |-> n, args |-> <<>>]>>)
  <2> DEFINE a == [at |-> "call", node |-> n, args |-> <<>>]
  <2>1. ListOf(n.arguments, Expressions)
    BY <1>3, <1>13, NodeFacts
  <2>2. Inner(a) /\ Held(a) = {} /\ KeepsOpen(a)
    BY <2>1, ShortSequences DEF Inner, Held, Reserved, KeepsOpen
  <2> QED BY <1>2, <1>3, <1>13, <2>2, OneCall
<1> QED BY <1>7, <1>8, <1>9, <1>10, <1>11, <1>12, <1>13
        DEF VisitOperand, VisitIf, VisitBinary, VisitCall, Visiting

(* The other calls that only make calls.                                   *)
LEMMA CallStep ==
  ASSUME BlocksInv,
         VisitStatement \/ BinaryLeft \/ CallArgument \/ ArgumentValue
  PROVE  BlocksInv'
<1>1. todo # <<>> /\ Top.at \in {"statement", "binaryLeft", "call", "argument"}
  BY DEF VisitStatement, BinaryLeft, CallArgument, ArgumentValue, Running
<1>2. PICK p \in 2 .. Len(todo) :
        /\ StackInv(p) /\ OpenBlock /\ Top = todo[1] /\ Inner(Top)
        /\ Builds(Top) => bb # 0
  BY <1>1, InsideBody
<1>3. CASE VisitStatement
  <2>1. CASE bb = 0
    BY <1>3, <2>1, ThrowStep DEF VisitStatement
  <2>2. CASE bb # 0
    <3> DEFINE a == Visit(Top.node)
    <3>1. Top.at = "statement" /\ Continue(<<a>>)
      BY <1>3, <2>2 DEF VisitStatement, Running
    <3>2. Top.node \in Statements
      BY <1>2, <3>1 DEF Inner
    <3>3. Inner(a) /\ Held(a) = {} /\ ~KeepsOpen(todo[1])
      BY <1>2, <3>1, <3>2 DEF Inner, Held, Reserved, KeepsOpen, Visit
    <3> QED BY <1>2, <2>2, <3>1, <3>3, OneCall
  <2> QED BY <2>1, <2>2
<1>4. CASE BinaryLeft
  <2> DEFINE a == Visit(Top.node.rhs)
             b == [at |-> "binary", lhsValue |-> result]
  <2>1. Top.at = "binaryLeft" /\ Continue(<<a, b>>)
    BY <1>4 DEF BinaryLeft, Running
  <2>2. Top.node.rhs \in Expressions /\ bb # 0
    BY <1>2, <2>1 DEF Inner, Builds
  <2>3. /\ Inner(a) /\ Held(a) = {} /\ KeepsOpen(a)
        /\ Inner(b) /\ Held(b) = {} /\ KeepsOpen(b)
    BY <2>2 DEF Inner, Held, Reserved, KeepsOpen, Visit
  <2> QED BY <1>2, <2>1, <2>2, <2>3, TwoCalls
<1>5. CASE CallArgument
  <2> DEFINE a == Visit(Top.node.arguments[Len(Top.args) + 1])
             b == [at |-> "argument", node |-> Top.node, args |-> Top.args]
  <2>1. /\ Top.at = "call" /\ Continue(<<a, b>>)
        /\ Len(Top.args) < Len(Top.node.arguments)
    BY <1>5 DEF CallArgument, Running
  <2>2. IsSequence(Top.args) /\ ListOf(Top.node.arguments, Expressions) /\ bb # 0
    BY <1>2, <2>1 DEF Inner, Builds
  <2>3. Len(Top.args) \in Nat
    BY <2>2, SequenceFacts
  <2>4. Top.node.arguments[Len(Top.args) + 1] \in Expressions
    BY <2>1, <2>2, <2>3 DEF ListOf
  <2>5. Inner(a) /\ Held(a) = {} /\ KeepsOpen(a)
    BY <2>4 DEF Inner, Held, Reserved, KeepsOpen, Visit
  <2>6. Inner(b) /\ Held(b) = {} /\ KeepsOpen(b)
    BY <2>2 DEF Inner, Held, Reserved, KeepsOpen
  <2> QED BY <1>2, <2>1, <2>2, <2>5, <2>6, TwoCalls
<1>6. CASE ArgumentValue
  <2> DEFINE a == [at |-> "call", node |-> Top.node, args |-> Append(Top.args, result)]
  <2>1. Top.at = "argument" /\ Continue(<<a>>)
    BY <1>6 DEF ArgumentValue, Running
  <2>2. IsSequence(Top.args) /\ ListOf(Top.node.arguments, Expressions) /\ bb # 0
    BY <1>2, <2>1 DEF Inner, Builds
  <2>3. IsSequence(Append(Top.args, result))
    BY <2>2, AppendSequence
  <2>4. Inner(a) /\ Held(a) = {} /\ KeepsOpen(a)
    BY <2>2, <2>3 DEF Inner, Held, Reserved, KeepsOpen
  <2> QED BY <1>2, <2>1, <2>2, <2>4, OneCall
<1> QED BY <1>3, <1>4, <1>5, <1>6

(* The calls that append instructions and go on in the same block.         *)
LEMMA AppendStep ==
  ASSUME BlocksInv,
         \/ Write \/ VisitRead \/ Assign \/ VisitNumber \/ VisitVariable
         \/ Unary \/ Binary \/ Call
  PROVE  BlocksInv'
<1>1. /\ todo # <<>> /\ Top.at \in {"visit", "write", "assign", "unary", "binary", "call"}
      /\ Top.at = "visit" => Top.node.kind \in {"read", "number", "variable"}
  BY DEF Write, VisitRead, Assign, VisitNumber, VisitVariable, Unary, Binary, Call,
         Visiting, Running
<1>2. PICK p \in 2 .. Len(todo) :
        /\ StackInv(p) /\ OpenBlock /\ Top = todo[1] /\ Inner(Top)
        /\ Builds(Top) => bb # 0
  BY <1>1, InsideBody
<1>3. bb # 0
  BY <1>1, <1>2 DEF Builds
<1>4. ASSUME NEW insts, NEW value, Straight(insts), Emit(insts, value, <<>>)
      PROVE  BlocksInv'
  BY <1>2, <1>3, <1>4, EmitStep
<1>5. ASSUME NEW x, NEW value, ~IsTerminator(x), Emit(<<x>>, value, <<>>)
      PROVE  BlocksInv'
  BY <1>4, <1>5, StraightShort
<1>6. ASSUME NEW value, Emit(<<>>, value, <<>>)
      PROVE  BlocksInv'
  BY <1>4, <1>6, StraightShort
<1>7. CASE Write
  BY <1>5, <1>7, NoTerminators DEF Write
<1>8. CASE VisitRead
  <2>1. CASE Throw
    BY <2>1, ThrowStep
  <2>2. CASE ~Throw
    <3> DEFINE x == Inst(fresh, "call", <<>>)
               y == Inst(0, "store", <<Result(fresh), Location(Top.node.symbol).value>>)
    <3>1. Emit(<<x, y>>, Result(fresh), <<>>)
      BY <1>8, <2>2 DEF VisitRead
    <3>2. Straight(<<x, y>>)
      BY NoTerminators, StraightShort
    <3> HIDE DEF x, y
    <3> QED BY <1>4, <3>1, <3>2
  <2> QED BY <2>1, <2>2
<1>9. CASE Assign
  BY <1>5, <1>9, NoTerminators, ThrowStep DEF Assign
<1>10. CASE VisitNumber
  BY <1>6, <1>10 DEF VisitNumber
<1>11. CASE VisitVariable
  BY <1>5, <1>6, <1>11, NoTerminators, ThrowStep DEF VisitVariable
<1>12. CASE Unary
  <2>1. CASE Top.negates
    BY <1>5, <1>12, <2>1, NoTerminators DEF Unary
  <2>2. CASE ~Top.negates
    <3> DEFINE calls == <<>>
    <3>1. Continue(calls)
      BY <1>12, <2>2 DEF Unary
    <3>2. /\ IsSequence(calls) /\ Len(calls) = 0
          /\ 1 .. Len(calls) = {} /\ 2 .. Len(calls) = {}
      BY ShortSequences
    <3> HIDE DEF calls
    <3> QED BY <1>2, <1>3, <3>1, <3>2, ContinueStep
  <2> QED BY <2>1, <2>2
<1>13. CASE Binary
  BY <1>5, <1>13, NoTerminators DEF Binary
<1>14. CASE Call
  BY <1>5, <1>14, NoTerminators, ThrowStep DEF Call
<1> QED BY <1>7, <1>8, <1>9, <1>10, <1>11, <1>12, <1>13, <1>14

-----------------------------------------------------------------------------
(* Induction over the naturals, for a set: its least non-member would have *)
(* a member before it.                                                     *)
LEMMA NaturalInduction ==
  ASSUME NEW T, 0 \in T, \A n \in Nat : n \in T => n + 1 \in T
  PROVE  Nat \subseteq T
<1> SUFFICES ASSUME ~ (Nat \subseteq T) PROVE FALSE
  OBVIOUS
<1> DEFINE U == Nat \ T
<1>1. U \subseteq Nat /\ U # {}
  OBVIOUS
<1>2. PICK n \in U : \A m \in U : n <= m
  <2> DEFINE R == OpToRel(<, Nat)
  <2>0. IsWellFoundedOn(R, Nat)
    BY NatLessThanWellFounded
  <2>1. PICK n \in U : \A m \in U : <<m, n>> \notin R
    <3> HIDE DEF R, U
    <3> QED BY <1>1, <2>0, WFMin
  <2>2. \A m \in U : ~ (m < n)
    BY <2>1 DEF OpToRel
  <2> QED BY <2>2
<1>3. n # 0 /\ n - 1 \in Nat
  BY <1>2
<1>4. n - 1 \in T
  BY <1>2, <1>3
<1> QED BY <1>2, <1>3, <1>4

(* Instructions put together from pieces that go on: first that the        *)
(* recursion has a solution, then what it puts together.                   *)
LEMMA FlattenedStraight ==
  ASSUME NEW n \in Nat, NEW x, x = [k \in 1 .. n |-> x[k]],
         \A k \in 1 .. n : Straight(x[k])
  PROVE  Straight(SeqsExt!FlattenSeq(x))
<1> DEFINE Step(g, k) == IF k = 1 THEN x[k] ELSE g[k - 1] \o x[k]
           all[k \in 1 .. Len(x)] == IF k = 1 THEN x[k] ELSE all[k - 1] \o x[k]
           T == {l \in Nat : \E g : g = [k \in 1 .. l |-> Step(g, k)]}
<1>0. IsSequence(x) /\ Len(x) = n
  BY FunctionSequence
<1>1. 0 \in T
  <2> DEFINE g == [k \in 1 .. 0 |-> <<>>]
  <2>1. g = [k \in 1 .. 0 |-> Step(g, k)]
    OBVIOUS
  <2> QED BY <2>1
<1>2. ASSUME NEW l \in Nat, l \in T PROVE l + 1 \in T
  <2>1. PICK h : h = [k \in 1 .. l |-> Step(h, k)]
    BY <1>2
  <2> DEFINE g == [k \in 1 .. l + 1 |-> IF k = l + 1 THEN Step(h, k) ELSE h[k]]
  <2>2. \A k \in 1 .. l + 1 : g[k] = Step(g, k)
    <3>1. \A k \in 1 .. l : h[k] = Step(h, k)
      <4> HIDE DEF Step
      <4> QED BY <2>1
    <3>2. ASSUME NEW k \in 1 .. l + 1, k # 1 PROVE g[k - 1] = h[k - 1]
      BY <3>2
    <3>3. ASSUME NEW k \in 1 .. l + 1 PROVE g[k] = Step(g, k)
      <4>1. g[k] = Step(h, k)
        <5> HIDE DEF Step
        <5> QED BY <3>1
      <4> HIDE DEF g
      <4> QED BY <3>2, <4>1
    <3> QED BY <3>3
  <2>3. g = [k \in 1 .. l + 1 |-> Step(g, k)]
    <3> HIDE DEF Step
    <3> QED BY <2>2
  <2> HIDE DEF g, Step
  <2> QED BY <2>3
<1>3. Nat \subseteq T
  <2> HIDE DEF T
  <2> QED BY <1>1, <1>2, NaturalInduction
<1>4. \E g : g = [k \in 1 .. Len(x) |-> Step(g, k)]
  BY <1>0, <1>3
<1>5. all = [k \in 1 .. Len(x) |-> Step(all, k)]
  BY <1>4
<1>6. \A k \in 1 .. n : all[k] = Step(all, k)
  <2> HIDE DEF Step
  <2> QED BY <1>0, <1>5
<1>7. SeqsExt!FlattenSeq(x) = IF n = 0 THEN x ELSE all[n]
  BY <1>0 DEF SeqsExt!FlattenSeq
<1> DEFINE U == {l \in Nat : l \in 1 .. n => Straight(all[l])}
<1> HIDE DEF all
<1>8. 0 \in U
  OBVIOUS
<1>9. ASSUME NEW l \in Nat, l \in U PROVE l + 1 \in U
  <2> SUFFICES ASSUME l + 1 \in 1 .. n PROVE Straight(all[l + 1])
    OBVIOUS
  <2>1. CASE l = 0
    BY <1>6, <2>1
  <2>2. CASE l # 0
    <3>1. l \in 1 .. n /\ l + 1 # 1 /\ (l + 1) - 1 = l
      BY <2>2
    <3>2. all[l + 1] = all[l] \o x[l + 1]
      BY <1>6, <3>1
    <3>3. Straight(all[l]) /\ Straight(x[l + 1])
      BY <1>9, <3>1
    <3> QED BY <3>2, <3>3, StraightConcat
  <2> QED BY <2>1, <2>2
<1>10. Nat \subseteq U
  <2> HIDE DEF U
  <2> QED BY <1>8, <1>9, NaturalInduction
<1>11. CASE n = 0
  <2>1. SeqsExt!FlattenSeq(x) = x /\ 1 .. Len(x) = {}
    BY <1>0, <1>7, <1>11
  <2> QED BY <1>0, <2>1 DEF Straight
<1>12. CASE n # 0
  <2>1. n \in 1 .. n /\ n \in U
    BY <1>10, <1>12
  <2> QED BY <1>7, <1>12, <2>1
<1> QED BY <1>11, <1>12

(* The instructions that begin a block, and a function.                    *)
LEMMA Prologues ==
  /\ \A ds : Len(ds) \in Nat => Straight(Allocas(ds))
  /\ \A l \in Nat : Straight(SeqsExt!FlattenSeq([k \in 1 .. l |-> ArgumentInsts(fresh + k)]))
<1>1. ASSUME NEW ds, Len(ds) \in Nat
      PROVE  Straight(Allocas(ds))
  <2> DEFINE x == [k \in 1 .. Len(ds) |->
                     IF ds[k].constant THEN <<>> ELSE <<Inst(fresh + k, "alloca", <<>>)>>]
  <2>1. \A k \in 1 .. Len(ds) : Straight(x[k])
    BY StraightShort, NoTerminators
  <2>2. x = [k \in 1 .. Len(ds) |-> x[k]]
    OBVIOUS
  <2>3. Allocas(ds) = SeqsExt!FlattenSeq(x)
    BY DEF Allocas
  <2> HIDE DEF x
  <2> QED BY <1>1, <2>1, <2>2, <2>3, FlattenedStraight
<1>2. ASSUME NEW l \in Nat
      PROVE  Straight(SeqsExt!FlattenSeq([k \in 1 .. l |-> ArgumentInsts(fresh + k)]))
  <2> DEFINE x == [k \in 1 .. l |-> ArgumentInsts(fresh + k)]
  <2>1. \A k \in 1 .. l : Straight(x[k])
    BY StraightShort, NoTerminators DEF ArgumentInsts
  <2>2. x = [k \in 1 .. l |-> x[k]]
    OBVIOUS
  <2> HIDE DEF x
  <2>3. Straight(SeqsExt!FlattenSeq(x))
    BY <2>1, <2>2, FlattenedStraight
  <2> QED BY <2>3 DEF x
<1> QED BY <1>1, <1>2

-----------------------------------------------------------------------------
(* The calls that change the current block. *)

(* A call that leaves nothing to be done.                                  *)
LEMMA NoCall ==
  ASSUME IsSequence(todo), fresh \in Nat \ {0},
         NEW p \in 2 .. Len(todo), StackInv(p),
         Then(<<>>), fresh' \in Nat, fresh <= fresh', f' = f, OpenBlock',
         ~KeepsOpen(todo[1]),
         \A b \in DOMAIN code[f] :
           b \in 1 .. fresh - 1 /\ b # bb /\ b \notin Held(todo[1]) /\ code[f][b] = <<>> =>
             b # bb' /\ b \in DOMAIN code'[f] /\ code'[f][b] = <<>>
  PROVE  BlocksInv'
<1> DEFINE calls == <<>>
<1>1. /\ IsSequence(calls) /\ Len(calls) = 0 /\ todo' = calls \o Tail(todo)
      /\ 1 .. Len(calls) = {} /\ 2 .. Len(calls) = {}
  BY ShortSequences DEF Then
<1> HIDE DEF calls
<1> QED BY <1>1, InnerStep

(* A call that visits a child, and has to go on after that in other blocks. *)
LEMMA VisitAndCall ==
  ASSUME IsSequence(todo), fresh \in Nat \ {0},
         NEW p \in 2 .. Len(todo), StackInv(p),
         NEW n \in Statements \cup Expressions, NEW call, Then(<<Visit(n), call>>),
         fresh' \in Nat, fresh <= fresh', f' = f, OpenBlock', bb' # 0,
         Inner(call), ~Builds(call) \/ n \in Expressions, ~KeepsOpen(todo[1]),
         Held(call) \subseteq Held(todo[1]) \cup fresh .. fresh' - 1,
         \A b \in Reserved(call) : b # bb' /\ b \in DOMAIN code'[f] /\ code'[f][b] = <<>>,
         \A b \in DOMAIN code[f] :
           b \in 1 .. fresh - 1 /\ b # bb /\ b \notin Held(todo[1]) /\ code[f][b] = <<>> =>
             b # bb' /\ b \in DOMAIN code'[f] /\ code'[f][b] = <<>>
  PROVE  BlocksInv'
<1> DEFINE calls == <<Visit(n), call>>
<1>1. /\ IsSequence(calls) /\ Len(calls) = 2 /\ todo' = calls \o Tail(todo)
      /\ calls[1] = Visit(n) /\ calls[2] = call
  BY ShortSequences DEF Then
<1> HIDE DEF calls
<1>2. 1 .. Len(calls) = {1, 2} /\ 2 .. Len(calls) = {2} /\ Len(calls) # 0
  BY <1>1
<1>3. /\ Inner(Visit(n)) /\ Held(Visit(n)) = {} /\ Reserved(Visit(n)) = {}
      /\ n \in Expressions => KeepsOpen(Visit(n))
  BY DEF Inner, Held, Reserved, KeepsOpen, Visit
<1>4. \A k \in 1 .. Len(calls) :
        /\ Inner(calls[k])
        /\ Held(calls[k]) \subseteq Held(todo[1]) \cup fresh .. fresh' - 1
        /\ \A b \in Reserved(calls[k]) : b # bb' /\ b \in DOMAIN code'[f] /\ code'[f][b] = <<>>
  BY <1>1, <1>2, <1>3
<1>5. \A j, k \in 1 .. Len(calls) : j # k => Held(calls[j]) \cap Held(calls[k]) = {}
  BY <1>1, <1>2, <1>3
<1>6. \A k \in 2 .. Len(calls) : Builds(calls[k]) => KeepsOpen(calls[k - 1])
  BY <1>1, <1>2, <1>3
<1> QED BY <1>1, <1>4, <1>5, <1>6, InnerStep

(* New, empty blocks.                                                      *)
LEMMA WithBlocksFacts ==
  ASSUME OpenBlock, bb # 0, NEW insts, NEW bs, NEW new,
         new = IntoWithBlocks(bb, insts, bs)
  PROVE  /\ f \in DOMAIN new /\ DOMAIN new[f] = DOMAIN code[f] \cup bs
         /\ \A b \in bs : new[f][b] = <<>>
         /\ \A b \in DOMAIN code[f] \ {bb} : b \notin bs => new[f][b] = code[f][b]
BY DEF IntoWithBlocks, OpenBlock

LEMMA EmptyIsOpen ==
  ASSUME f' = f, f \in DOMAIN code', bb' \in DOMAIN code'[f], Straight(code'[f][bb'])
  PROVE  OpenBlock'
BY DEF OpenBlock, Straight, IsSequence

LEMMA ReturnStep ==
  ASSUME BlocksInv, Return
  PROVE  BlocksInv'
<1>1. /\ todo # <<>> /\ Top.at = "return" /\ Then(<<>>)
      /\ bb' = 0 /\ f' = f /\ fresh' = fresh + 1
      /\ code' = Into(bb, <<Inst(fresh, "ret", <<result>>)>>)
  BY DEF Return, Running
<1>2. PICK p \in 2 .. Len(todo) :
        /\ StackInv(p) /\ OpenBlock /\ Top = todo[1] /\ Inner(Top)
        /\ Builds(Top) => bb # 0
  BY <1>1, InsideBody
<1>3. bb # 0 /\ ~KeepsOpen(todo[1])
  BY <1>1, <1>2 DEF Builds, KeepsOpen
<1>4. /\ f \in DOMAIN code' /\ DOMAIN code'[f] = DOMAIN code[f]
      /\ \A b \in DOMAIN code[f] \ {bb} : code'[f][b] = code[f][b]
  BY <1>1, <1>2, <1>3, IntoFacts
<1>5. OpenBlock'
  BY <1>1, <1>4 DEF OpenBlock
<1>6. IsSequence(todo) /\ fresh \in Nat \ {0} /\ fresh' \in Nat /\ fresh <= fresh'
  BY <1>1 DEF BlocksInv
<1>7. \A b \in 1 .. fresh - 1 : b # bb'
  BY <1>1
<1> QED BY <1>1, <1>2, <1>3, <1>4, <1>5, <1>6, <1>7, NoCall

LEMMA IfStep ==
  ASSUME BlocksInv, IfCondition \/ IfTrue \/ IfJoin
  PROVE  BlocksInv'
<1>1. todo # <<>> /\ Top.at \in {"ifCondition", "ifTrue", "ifJoin"}
  BY DEF IfCondition, IfTrue, IfJoin, Running
<1>2. PICK p \in 2 .. Len(todo) :
        /\ StackInv(p) /\ OpenBlock /\ Top = todo[1] /\ Inner(Top)
        /\ Builds(Top) => bb # 0
  BY <1>1, InsideBody
<1>3. ~KeepsOpen(todo[1])
  BY <1>1, <1>2 DEF KeepsOpen
<1>4. IsSequence(todo) /\ fresh \in Nat \ {0}
  BY DEF BlocksInv
<1>5. \A b \in Reserved(Top) : b # bb /\ b \in DOMAIN code[f] /\ code[f][b] = <<>>
  <2>1. 1 \in 1 .. p - 1
    OBVIOUS
  <2> QED BY <1>2, <2>1 DEF StackInv
<1>6. ASSUME NEW next, code' = Jump(next) \/ \E g : code' = [Jump(next) EXCEPT ![f][next] = g]
      PROVE  /\ f \in DOMAIN code' /\ DOMAIN code'[f] = DOMAIN code[f]
             /\ \A b \in DOMAIN code[f] \ {bb, next} : code'[f][b] = code[f][b]
             /\ code' = Jump(next) => \A b \in DOMAIN code[f] \ {bb} : code'[f][b] = code[f][b]
             /\ \A g : /\ next \in DOMAIN code[f]
                       /\ code' = [Jump(next) EXCEPT ![f][next] = g]
                       => code'[f][next] = g
  BY <1>2, <1>6 DEF Jump, Into, OpenBlock
<1>7. CASE IfCondition
  <2> DEFINE call == [at |-> "ifTrue", node |-> Top.node,
                      falseCase |-> fresh + 1, next |-> fresh + 2]
             insts == <<Inst(fresh + 3, "icmp", <<result>>),
                        Branch(0, <<Result(fresh + 3)>>, {fresh, fresh + 1})>>
  <2>1. /\ Top.at = "ifCondition" /\ Then(<<Visit(Top.node.trueCase), call>>)
        /\ code' = IntoWithBlocks(bb, insts, fresh .. fresh + 2)
        /\ bb' = fresh /\ fresh' = fresh + 4 /\ f' = f
    BY <1>7 DEF IfCondition, Running
  <2>2. bb # 0 /\ {Top.node.trueCase, Top.node.falseCase} \subseteq Statements
    BY <1>2, <2>1 DEF Builds, Inner
  <2>3. Held(call) = {fresh + 1, fresh + 2} /\ Reserved(call) = {fresh + 1, fresh + 2}
    BY DEF Held, Reserved
  <2>4. Inner(call) /\ ~Builds(call)
    BY <1>4, <2>2 DEF Inner, Builds
  <2> HIDE DEF call, insts
  <2>5. /\ f \in DOMAIN code' /\ DOMAIN code'[f] = DOMAIN code[f] \cup fresh .. fresh + 2
        /\ \A b \in fresh .. fresh + 2 : code'[f][b] = <<>>
        /\ \A b \in DOMAIN code[f] \ {bb} : b \notin fresh .. fresh + 2 => code'[f][b] = code[f][b]
    <3> DEFINE bs == fresh .. fresh + 2
               new == code'
    <3>1. new = IntoWithBlocks(bb, insts, bs)
      BY <2>1
    <3> HIDE DEF bs, new
    <3>2. /\ f \in DOMAIN new /\ DOMAIN new[f] = DOMAIN code[f] \cup bs
          /\ \A b \in bs : new[f][b] = <<>>
          /\ \A b \in DOMAIN code[f] \ {bb} : b \notin bs => new[f][b] = code[f][b]
      BY <1>2, <2>2, <3>1, WithBlocksFacts
    <3> QED BY <3>2 DEF bs, new
  <2>6. /\ fresh' \in Nat /\ fresh <= fresh' /\ bb' # 0
        /\ {fresh + 1, fresh + 2} \subseteq fresh .. fresh' - 1
        /\ fresh \in fresh .. fresh + 2 /\ fresh + 1 \in fresh .. fresh + 2
        /\ fresh + 2 \in fresh .. fresh + 2 /\ fresh # fresh + 1 /\ fresh # fresh + 2
        /\ \A b \in 1 .. fresh - 1 : b # fresh /\ b \notin fresh .. fresh + 2
    BY <1>4, <2>1
  <2>7. OpenBlock'
    BY <2>1, <2>5, <2>6, StraightShort, EmptyIsOpen
  <2>8. \A b \in Reserved(call) : b # bb' /\ b \in DOMAIN code'[f] /\ code'[f][b] = <<>>
    BY <2>1, <2>3, <2>5, <2>6
  <2>9. \A b \in DOMAIN code[f] :
          b \in 1 .. fresh - 1 /\ b # bb /\ b \notin Held(todo[1]) /\ code[f][b] = <<>> =>
             b # bb' /\ b \in DOMAIN code'[f] /\ code'[f][b] = <<>>
    BY <2>1, <2>5, <2>6
  <2> QED BY <1>2, <1>3, <1>4, <2>1, <2>2, <2>3, <2>4, <2>6, <2>7, <2>8, <2>9, VisitAndCall
<1>8. CASE IfTrue
  <2> DEFINE call == [at |-> "ifJoin", next |-> Top.next, trueCase |-> bb, trueResult |-> result]
  <2>1. /\ Top.at = "ifTrue" /\ Then(<<Visit(Top.node.falseCase), call>>)
        /\ code' = Jump(Top.next) /\ bb' = Top.falseCase /\ fresh' = fresh /\ f' = f
    BY <1>8 DEF IfTrue, Running
  <2>2. /\ Top.node.falseCase \in Statements /\ Top.falseCase # Top.next
        /\ Reserved(Top) = {Top.falseCase, Top.next} /\ Held(Top) = {Top.falseCase, Top.next}
    BY <1>2, <2>1 DEF Inner, Reserved, Held
  <2>3. Held(call) = {Top.next} /\ Reserved(call) = {Top.next} /\ Inner(call) /\ ~Builds(call)
    BY DEF Held, Reserved, Inner, Builds
  <2> HIDE DEF call
  <2>4. /\ f \in DOMAIN code' /\ DOMAIN code'[f] = DOMAIN code[f]
        /\ \A b \in DOMAIN code[f] \ {bb} : code'[f][b] = code[f][b]
    BY <1>6, <2>1
  <2>5. bb' \in DOMAIN code'[f] /\ code'[f][bb'] = <<>>
    BY <1>5, <2>1, <2>2, <2>4
  <2>6. OpenBlock'
    BY <2>1, <2>4, <2>5, StraightShort, EmptyIsOpen
  <2>7. bb' # 0
    <3>1. 1 \in 1 .. p - 1
      OBVIOUS
    <3>2. Held(todo[1]) \subseteq 1 .. fresh - 1
      BY <1>2, <3>1 DEF StackInv
    <3> QED BY <1>2, <1>4, <2>1, <2>2, <3>2
  <2>8. \A b \in Reserved(call) : b # bb' /\ b \in DOMAIN code'[f] /\ code'[f][b] = <<>>
    BY <1>5, <2>1, <2>2, <2>3, <2>4
  <2>9. fresh' \in Nat /\ fresh <= fresh'
    BY <1>4, <2>1
  <2> QED BY <1>2, <1>3, <1>4, <2>1, <2>2, <2>3, <2>4, <2>6, <2>7, <2>8, <2>9, VisitAndCall
<1>9. CASE IfJoin
  <2> DEFINE next == Top.next
  <2>1. /\ Top.at = "ifJoin" /\ Then(<<>>) /\ fresh' = fresh + 1 /\ f' = f
        /\ \/ /\ code' = [code EXCEPT ![f] = [b \in DOMAIN @ \ {next} |-> @[b]]]
              /\ bb' = 0
           \/ /\ \E id, uses, from :
                   code' = [Jump(next) EXCEPT ![f][next] = <<PhiNode(id, uses, from)>>]
              /\ bb' = next
    <3> DEFINE cases == IF Top.trueCase = 0 THEN <<[block |-> bb, value |-> result]>>
                        ELSE IF bb = 0
                        THEN <<[block |-> Top.trueCase, value |-> Top.trueResult]>>
                        ELSE <<[block |-> Top.trueCase, value |-> Top.trueResult],
                               [block |-> bb, value |-> result]>>
               uses == [k \in DOMAIN cases |-> cases[k].value]
               from == [k \in DOMAIN cases |-> cases[k].block]
    <3>1. /\ Top.at = "ifJoin" /\ Then(<<>>) /\ fresh' = fresh + 1 /\ f' = f
          /\ IF bb = 0 /\ Top.trueCase = 0
             THEN /\ code' = [code EXCEPT ![f] = [b \in DOMAIN @ \ {next} |-> @[b]]]
                  /\ bb' = 0
             ELSE /\ code' = [Jump(next) EXCEPT ![f][next] = <<PhiNode(fresh, uses, from)>>]
                  /\ bb' = next
      BY <1>9, Zenon DEF IfJoin, Running
    <3> HIDE DEF uses, from
    <3> QED BY <3>1
  <2>2. Held(Top) = {next} /\ Reserved(Top) = {next}
    BY <2>1 DEF Held, Reserved
  <2> HIDE DEF next
  <2>3. fresh' \in Nat /\ fresh <= fresh'
    BY <1>4, <2>1
  <2>4. \A b \in 1 .. fresh - 1 : b # 0
    OBVIOUS
  <2>5. CASE /\ code' = [code EXCEPT ![f] = [b \in DOMAIN @ \ {next} |-> @[b]]]
             /\ bb' = 0
    <3>1. /\ f \in DOMAIN code' /\ DOMAIN code'[f] = DOMAIN code[f] \ {next}
          /\ \A b \in DOMAIN code[f] \ {next} : code'[f][b] = code[f][b]
      BY <1>2, <2>5 DEF OpenBlock
    <3>2. OpenBlock'
      BY <2>1, <2>5, <3>1 DEF OpenBlock
    <3> QED BY <1>2, <1>3, <1>4, <2>1, <2>2, <2>3, <2>4, <2>5, <3>1, <3>2, NoCall
  <2>6. CASE /\ \E id, uses, from :
                  code' = [Jump(next) EXCEPT ![f][next] = <<PhiNode(id, uses, from)>>]
             /\ bb' = next
    <3>1. PICK id, uses, from :
            code' = [Jump(next) EXCEPT ![f][next] = <<PhiNode(id, uses, from)>>]
      BY <2>6
    <3>2. next \in DOMAIN code[f]
      BY <1>5, <2>2
    <3>3. /\ f \in DOMAIN code' /\ DOMAIN code'[f] = DOMAIN code[f]
          /\ \A b \in DOMAIN code[f] \ {bb, next} : code'[f][b] = code[f][b]
          /\ code'[f][next] = <<PhiNode(id, uses, from)>>
      BY <1>6, <3>1, <3>2
    <3>4. Straight(<<PhiNode(id, uses, from)>>)
      BY NoTerminators, StraightShort
    <3>5. OpenBlock'
      BY <2>1, <2>6, <3>2, <3>3, <3>4, EmptyIsOpen
    <3> QED BY <1>2, <1>3, <1>4, <2>1, <2>2, <2>3, <2>6, <3>3, <3>5, NoCall
  <2> QED BY <2>1, <2>5, <2>6
<1> QED BY <1>7, <1>8, <1>9

LEMMA WhileStep ==
  ASSUME BlocksInv, VisitWhile \/ WhileCondition \/ WhileBody
  PROVE  BlocksInv'
<1>1. /\ todo # <<>> /\ Top.at \in {"visit", "whileCondition", "whileBody"}
      /\ Top.at = "visit" => Top.node.kind = "while"
  BY DEF VisitWhile, WhileCondition, WhileBody, Visiting, Running
<1>2. PICK p \in 2 .. Len(todo) :
        /\ StackInv(p) /\ OpenBlock /\ Top = todo[1] /\ Inner(Top)
        /\ Builds(Top) => bb # 0
  BY <1>1, InsideBody
<1>3. ~KeepsOpen(todo[1])
  <2>1. Top.at = "visit" => Top.node \notin Expressions
    BY <1>1, NodeFacts
  <2> QED BY <1>1, <1>2, <2>1 DEF KeepsOpen
<1>4. IsSequence(todo) /\ fresh \in Nat \ {0}
  BY DEF BlocksInv
<1>5. \A b \in Reserved(Top) : b # bb /\ b \in DOMAIN code[f] /\ code[f][b] = <<>>
  <2>1. 1 \in 1 .. p - 1
    OBVIOUS
  <2> QED BY <1>2, <2>1 DEF StackInv
<1>6. CASE VisitWhile
  <2> DEFINE n == Top.node
             call == [at |-> "whileCondition", body |-> n.body, condition |-> fresh]
             insts == <<Branch(0, <<>>, {fresh})>>
             bs == fresh .. fresh + 2
             phi == PhiNode(fresh + 3, <<result>>, <<bb>>)
             new == IntoWithBlocks(bb, insts, bs)
  <2>1. /\ Top.at = "visit" /\ n.kind = "while" /\ Then(<<Visit(n.condition), call>>)
        /\ code' = [new EXCEPT ![f][fresh] = <<phi>>]
        /\ bb' = fresh /\ fresh' = fresh + 4 /\ f' = f
    BY <1>6 DEF VisitWhile, Visiting, Running
  <2>2. bb # 0 /\ n \in Statements \cup Expressions
    BY <1>2, <2>1 DEF Builds, Inner
  <2>3. n.condition \in Expressions /\ n.body \in Statements
    BY <2>1, <2>2, NodeFacts
  <2>4. Held(call) = {fresh + 1, fresh + 2, fresh} /\ Reserved(call) = {fresh + 1, fresh + 2}
    BY DEF Held, Reserved
  <2>5. Inner(call)
    BY <1>4, <2>3 DEF Inner
  <2> HIDE DEF call, insts, n
  <2>6. Straight(<<phi>>)
    BY NoTerminators, StraightShort
  <2> HIDE DEF phi
  <2>7. /\ fresh' \in Nat /\ fresh <= fresh' /\ bb' # 0
        /\ {fresh + 1, fresh + 2, fresh} \subseteq fresh .. fresh' - 1
        /\ {fresh + 1, fresh + 2, fresh} \subseteq bs
        /\ fresh # fresh + 1 /\ fresh # fresh + 2
        /\ \A b \in 1 .. fresh - 1 : b # fresh /\ b \notin bs
    BY <1>4, <2>1
  <2> HIDE DEF bs
  <2>8. /\ f \in DOMAIN new /\ DOMAIN new[f] = DOMAIN code[f] \cup bs
        /\ \A b \in bs : new[f][b] = <<>>
        /\ \A b \in DOMAIN code[f] \ {bb} : b \notin bs => new[f][b] = code[f][b]
    <3> HIDE DEF new
    <3> QED BY <1>2, <2>2, WithBlocksFacts DEF new
  <2> HIDE DEF new
  <2>9. /\ f \in DOMAIN code' /\ DOMAIN code'[f] = DOMAIN code[f] \cup bs
        /\ code'[f][fresh] = <<phi>>
        /\ \A b \in bs \ {fresh} : code'[f][b] = <<>>
        /\ \A b \in DOMAIN code[f] \ {bb} : b \notin bs => code'[f][b] = code[f][b]
    BY <2>1, <2>7, <2>8
  <2>10. OpenBlock'
    BY <2>1, <2>6, <2>7, <2>9, EmptyIsOpen
  <2>11. \A b \in Reserved(call) : b # bb' /\ b \in DOMAIN code'[f] /\ code'[f][b] = <<>>
    BY <2>1, <2>4, <2>7, <2>9
  <2>12. \A b \in DOMAIN code[f] :
          b \in 1 .. fresh - 1 /\ b # bb /\ b \notin Held(todo[1]) /\ code[f][b] = <<>> =>
             b # bb' /\ b \in DOMAIN code'[f] /\ code'[f][b] = <<>>
    BY <2>1, <2>7, <2>9
  <2>13. Held(call) \subseteq Held(todo[1]) \cup fresh .. fresh' - 1
    BY <2>4, <2>7
  <2> QED BY <1>2, <1>3, <1>4, <2>1, <2>3, <2>5, <2>7, <2>10, <2>11, <2>12, <2>13, VisitAndCall
<1>7. CASE WhileCondition
  <2> DEFINE condition == Top.condition
             call == [at |-> "whileBody", condition |-> condition]
             insts == <<Inst(fresh, "icmp", <<result>>),
                        Branch(0, <<Result(fresh)>>, {condition + 1, condition + 2})>>
  <2>1. /\ Top.at = "whileCondition" /\ Then(<<Visit(Top.body), call>>)
        /\ code' = Into(bb, insts)
        /\ bb' = condition + 1 /\ fresh' = fresh + 1 /\ f' = f
    BY <1>7 DEF WhileCondition, Running
  <2>2. bb # 0 /\ Top.body \in Statements /\ condition \in Nat
    BY <1>2, <2>1 DEF Builds, Inner
  <2>3. /\ Held(call) = {condition + 2, condition} /\ Reserved(call) = {condition + 2}
        /\ Inner(call) /\ ~Builds(call)
        /\ Reserved(Top) = {condition + 1, condition + 2}
        /\ Held(Top) = {condition + 1, condition + 2, condition}
    BY <2>1, <2>2 DEF Held, Reserved, Inner, Builds
  <2> HIDE DEF call, insts, condition
  <2>4. /\ f \in DOMAIN code' /\ DOMAIN code'[f] = DOMAIN code[f]
        /\ \A b \in DOMAIN code[f] \ {bb} : code'[f][b] = code[f][b]
    BY <1>2, <2>1, <2>2, IntoFacts
  <2>5. condition + 1 # condition + 2 /\ bb' # 0 /\ fresh' \in Nat /\ fresh <= fresh'
    BY <1>4, <2>1, <2>2
  <2>6. bb' \in DOMAIN code'[f] /\ code'[f][bb'] = <<>>
    BY <1>5, <2>1, <2>3, <2>4
  <2>7. OpenBlock'
    BY <2>1, <2>4, <2>6, StraightShort, EmptyIsOpen
  <2>8. \A b \in Reserved(call) : b # bb' /\ b \in DOMAIN code'[f] /\ code'[f][b] = <<>>
    BY <1>5, <2>1, <2>3, <2>4, <2>5
  <2>9. \A b \in DOMAIN code[f] :
          b \in 1 .. fresh - 1 /\ b # bb /\ b \notin Held(todo[1]) /\ code[f][b] = <<>> =>
             b # bb' /\ b \in DOMAIN code'[f] /\ code'[f][b] = <<>>
    BY <1>2, <2>1, <2>3, <2>4
  <2>10. Held(call) \subseteq Held(todo[1]) \cup fresh .. fresh' - 1
    BY <1>2, <2>3
  <2> QED BY <1>2, <1>3, <1>4, <2>1, <2>2, <2>3, <2>5, <2>7, <2>8, <2>9, <2>10, VisitAndCall
<1>8. CASE WhileBody
  <2> DEFINE condition == Top.condition
             new == IF bb = 0 THEN code ELSE Jump(condition)
  <2>1. /\ Top.at = "whileBody" /\ Then(<<>>)
        /\ \E g : code' = [new EXCEPT ![f][condition] = g]
        /\ bb' = condition + 2 /\ fresh' = fresh /\ f' = f
    BY <1>8 DEF WhileBody, Running
  <2>2. condition \in Nat
    BY <1>2, <2>1 DEF Inner
  <2>3. Reserved(Top) = {condition + 2} /\ Held(Top) = {condition + 2, condition}
    BY <2>1 DEF Held, Reserved
  <2>4. /\ f \in DOMAIN new /\ DOMAIN new[f] = DOMAIN code[f]
        /\ \A b \in DOMAIN code[f] \ {bb} : new[f][b] = code[f][b]
    BY <1>2 DEF Jump, Into, OpenBlock
  <2> HIDE DEF condition, new
  <2>5. /\ f \in DOMAIN code' /\ DOMAIN code'[f] = DOMAIN code[f]
        /\ \A b \in DOMAIN code[f] \ {bb, condition} : code'[f][b] = code[f][b]
    BY <2>1, <2>4
  <2>6. condition + 2 # condition /\ bb' # 0 /\ fresh' \in Nat /\ fresh <= fresh'
    BY <1>4, <2>1, <2>2
  <2>7. bb' \in DOMAIN code'[f] /\ code'[f][bb'] = <<>>
    BY <1>5, <2>1, <2>3, <2>5, <2>6
  <2>8. OpenBlock'
    BY <2>1, <2>5, <2>7, StraightShort, EmptyIsOpen
  <2>9. \A b \in DOMAIN code[f] :
          b \in 1 .. fresh - 1 /\ b # bb /\ b \notin Held(todo[1]) /\ code[f][b] = <<>> =>
             b # bb' /\ b \in DOMAIN code'[f] /\ code'[f][b] = <<>>
    BY <1>2, <2>1, <2>3, <2>5
  <2> QED BY <1>2, <1>3, <1>4, <2>1, <2>6, <2>8, <2>9, NoCall
<1> QED BY <1>6, <1>7, <1>8

LEMMA BlockStep ==
  ASSUME BlocksInv, VisitBlock
  PROVE  BlocksInv'
<1> DEFINE n == Top.node
<1>1. todo # <<>> /\ Top.at = "visit" /\ n.kind = "block"
  BY DEF VisitBlock, Visiting, Running
<1>2. PICK p \in 2 .. Len(todo) :
        /\ StackInv(p) /\ OpenBlock /\ Top = todo[1] /\ Inner(Top)
        /\ Builds(Top) => bb # 0
  BY <1>1, InsideBody
<1>3. bb # 0 /\ n \in Statements \cup Expressions
  BY <1>1, <1>2 DEF Builds, Inner
<1>4. ~KeepsOpen(todo[1])
  <2>1. n \notin Expressions
    BY <1>1, <1>3, NodeFacts
  <2> QED BY <1>1, <1>2, <2>1 DEF KeepsOpen
<1>5. Len(n.declarations) \in Nat /\ ListOf(n.statements, Statements)
  BY <1>1, <1>3, NodeFacts
<1>6. CASE Throw
  BY <1>6, ThrowStep
<1>7. CASE ~Throw
  <2> DEFINE l == Len(n.statements)
             statements == [k \in 1 .. l |-> [at |-> "statement", node |-> n.statements[k]]]
             last == <<[at |-> "unroll"]>>
             calls == statements \o last
             insts == Allocas(n.declarations)
  <2>1. /\ todo' = calls \o Tail(todo) /\ code' = Into(bb, insts)
        /\ fresh' = fresh + Len(n.declarations) + 1 /\ bb' = bb /\ f' = f
    BY <1>7 DEF VisitBlock, Then
  <2>2. Straight(insts)
    BY <1>5, Prologues
  <2>3. l \in Nat /\ IsSequence(statements) /\ Len(statements) = l
    <3>1. l \in Nat
      BY <1>5 DEF ListOf
    <3>2. statements = [k \in 1 .. l |-> statements[k]]
      OBVIOUS
    <3> HIDE DEF statements, l
    <3> QED BY <3>1, <3>2, FunctionSequence
  <2>4. ASSUME NEW k \in 1 .. l
        PROVE  Inner(statements[k]) /\ Held(statements[k]) = {} /\ ~Builds(statements[k])
    <3>1. n.statements[k] \in Statements
      BY <1>5 DEF ListOf
    <3> QED BY <3>1 DEF Inner, Held, Reserved, Builds
  <2>5. IsSequence(last) /\ Len(last) = 1 /\ last[1] = [at |-> "unroll"]
    BY ShortSequences
  <2>6. Inner(last[1]) /\ Held(last[1]) = {} /\ ~Builds(last[1])
    BY <2>5 DEF Inner, Held, Reserved, Builds
  <2> HIDE DEF l, statements, last, insts
  <2>7. /\ IsSequence(calls) /\ Len(calls) = l + 1
        /\ \A k \in 1 .. l : calls[k] = statements[k]
        /\ calls[l + 1] = last[1]
    <3>0. IsSequence(statements) /\ IsSequence(last)
      BY <2>3, <2>5
    <3>1. /\ IsSequence(calls) /\ Len(calls) = Len(statements) + Len(last)
          /\ \A k \in 1 .. Len(statements) : calls[k] = statements[k]
          /\ \A k \in 1 .. Len(last) : calls[Len(statements) + k] = last[k]
      BY <3>0, ConcatFacts
    <3> HIDE DEF calls
    <3>2. 1 \in 1 .. Len(last)
      BY <2>5
    <3> QED BY <2>3, <2>5, <3>1, <3>2
  <2> HIDE DEF calls
  <2>8. \A k \in 1 .. Len(calls) : Inner(calls[k]) /\ Held(calls[k]) = {} /\ ~Builds(calls[k])
    <3>1. \A k \in 1 .. Len(calls) : k \in 1 .. l \/ k = l + 1
      BY <2>3, <2>7
    <3> QED BY <2>4, <2>6, <2>7, <3>1
  <2>9. \A k \in 2 .. Len(calls) : ~Builds(calls[k])
    BY <2>3, <2>7, <2>8
  <2>10. Len(calls) > 0 /\ 1 \in 1 .. Len(calls)
    BY <2>3, <2>7
  <2>11. \A k \in 1 .. Len(calls) : Reserved(calls[k]) = {}
    BY <2>8 DEF Held
  <2>12. /\ f \in DOMAIN code' /\ DOMAIN code'[f] = DOMAIN code[f]
         /\ bb \in DOMAIN code[f] /\ Straight(code[f][bb])
         /\ code'[f][bb] = code[f][bb] \o insts
         /\ \A b \in DOMAIN code[f] \ {bb} : code'[f][b] = code[f][b]
    BY <1>2, <1>3, <2>1, IntoFacts
  <2>13. OpenBlock'
    <3>1. Straight(code'[f][bb])
      BY <2>2, <2>12, StraightConcat
    <3> QED BY <2>1, <2>12, <3>1, EmptyIsOpen
  <2>14. IsSequence(todo) /\ fresh \in Nat \ {0} /\ fresh' \in Nat /\ fresh <= fresh'
    BY <1>5, <2>1 DEF BlocksInv
  <2>15. \A b \in DOMAIN code[f] :
          b \in 1 .. fresh - 1 /\ b # bb /\ b \notin Held(todo[1]) /\ code[f][b] = <<>> =>
             b # bb' /\ b \in DOMAIN code'[f] /\ code'[f][b] = <<>>
    BY <2>1, <2>12
  <2> QED BY <1>2, <1>4, <2>1, <2>7, <2>8, <2>9, <2>10, <2>11, <2>13, <2>14, <2>15, InnerStep
<1> QED BY <1>6, <1>7

-----------------------------------------------------------------------------
(* The calls outside of a body. *)

LEMMA OuterStep ==
  ASSUME IsSequence(todo)', fresh' \in Nat \ {0},
         \A k \in 1 .. Len(todo') : Outer(todo'[k])
  PROVE  BlocksInv'
<1> DEFINE p == 0
<1>1. p \in 0 .. Len(todo') /\ p = 0 /\ Len(todo') \in Nat
  <2>1. IsSequence(todo')
    BY DEF IsSequence
  <2>2. Len(todo') \in Nat
    BY <2>1, SequenceFacts
  <2> QED BY <2>2
<1> HIDE DEF p
<1>2. /\ 1 .. p - 1 = {} /\ 2 .. p - 1 = {} /\ p + 1 .. Len(todo') = 1 .. Len(todo')
      /\ ~(p > 0) /\ ~(p > 1)
  BY <1>1
<1>3. StackInv(p)'
  BY <1>2 DEF StackInv
<1> QED BY <1>1, <1>2, <1>3 DEF BlocksInv

(* A function is entered: its body is visited next.                        *)
LEMMA EnterStep ==
  ASSUME IsSequence(todo), todo # <<>>, \A k \in 2 .. Len(todo) : Outer(todo[k]),
         NEW n \in Statements, NEW calls, IsSequence(calls), Len(calls) >= 2,
         calls[1] = Visit(n), calls[2].at = "finish",
         \A k \in 3 .. Len(calls) : Outer(calls[k]),
         todo' = calls \o Tail(todo), fresh' \in Nat \ {0}, bb' # 0, OpenBlock'
  PROVE  BlocksInv'
<1>1. /\ IsSequence(todo)' /\ Len(todo) \in Nat \ {0} /\ Len(calls) \in Nat
      /\ Len(todo') = Len(calls) + Len(todo) - 1
      /\ \A k \in 1 .. Len(calls) : todo'[k] = calls[k]
      /\ \A k \in 2 .. Len(todo) : todo'[Len(calls) + k - 1] = todo[k]
  BY Replaced
<1> DEFINE p == 2
<1>2. p \in 0 .. Len(todo') /\ 1 \in 1 .. Len(calls) /\ 2 \in 1 .. Len(calls)
  BY <1>1
<1>3. /\ 1 .. p - 1 = {1} /\ 2 .. p - 1 = {} /\ p + 1 .. Len(todo') = 3 .. Len(todo')
      /\ p = 2 /\ p > 0 /\ p > 1
  OBVIOUS
<1> HIDE DEF p
<1>4. todo'[1] = Visit(n) /\ todo'[2].at = "finish"
  BY <1>1, <1>2
<1>5. ASSUME NEW k \in 3 .. Len(todo')
      PROVE  Outer(todo'[k])
  <2>1. CASE k \in 3 .. Len(calls)
    <3>1. k \in 1 .. Len(calls)
      BY <1>1, <2>1
    <3> QED BY <1>1, <2>1, <3>1
  <2>2. CASE k \notin 3 .. Len(calls)
    <3>1. /\ k - Len(calls) + 1 \in 2 .. Len(todo)
          /\ Len(calls) + (k - Len(calls) + 1) - 1 = k
      BY <1>1, <2>2
    <3>2. todo'[Len(calls) + (k - Len(calls) + 1) - 1] = todo[k - Len(calls) + 1]
      BY <1>1, <3>1
    <3> QED BY <3>1, <3>2
  <2> QED BY <2>1, <2>2
<1>6. Inner(todo'[1]) /\ Held(todo'[1]) = {} /\ Reserved(todo'[1]) = {}
  BY <1>4 DEF Inner, Held, Reserved, Visit
<1>7. StackInv(p)'
  BY <1>3, <1>4, <1>5, <1>6 DEF StackInv
<1> QED BY <1>1, <1>2, <1>7 DEF BlocksInv

LEMMA CreateFunctionFacts ==
  ASSUME fresh \in Nat \ {0}, NEW name, NEW args, NEW insts, Straight(insts),
         CreateFunction(name, args, insts)
  PROVE  OpenBlock' /\ bb' # 0
<1>1. /\ name \in DOMAIN code' /\ code'[name] = [b \in {fresh} |-> insts]
      /\ f' = name /\ bb' = fresh
  BY DEF CreateFunction
<1> QED BY <1>1 DEF OpenBlock, Straight, IsSequence

(* The end of a body is the only call of its kind; before the first body   *)
(* and between two, all calls are of the module.                           *)
LEMMA OutsideBody ==
  ASSUME BlocksInv, todo # <<>>,
         \/ Top.at \in {"finish", "main"}
         \/ Top.at = "visit" /\ Top.node.kind \in {"module", "function"}
  PROVE  /\ \A k \in 2 .. Len(todo) : Outer(todo[k])
         /\ Top.at # "finish" => Outer(Top)
         /\ IsSequence(todo) /\ fresh \in Nat \ {0}
<1>1. PICK p \in 0 .. Len(todo) : StackInv(p)
  BY DEF BlocksInv
<1>2. Len(todo) \in Nat \ {0} /\ Top = todo[1] /\ IsSequence(todo) /\ fresh \in Nat \ {0}
  BY TailFacts, SequenceFacts DEF BlocksInv, Top
<1>3. ~Inner(Top)
  BY NodeFacts DEF Inner
<1>4. p = 0 \/ p = 1
  <2> SUFFICES ASSUME p > 1 PROVE FALSE
    BY <1>2
  <2>1. 1 \in 1 .. p - 1
    BY <1>2
  <2> QED BY <1>1, <1>2, <1>3, <2>1 DEF StackInv
<1>5. \A k \in p + 1 .. Len(todo) : Outer(todo[k])
  BY <1>1 DEF StackInv
<1>6. 2 .. Len(todo) \subseteq p + 1 .. Len(todo)
  BY <1>2, <1>4
<1>7. Top.at # "finish" => Outer(Top)
  <2>1. CASE p = 0
    <3>1. 1 \in p + 1 .. Len(todo)
      BY <1>2, <2>1
    <3> QED BY <1>2, <1>5, <3>1
  <2>2. CASE p = 1
    BY <1>1, <1>2, <2>2 DEF StackInv
  <2> QED BY <1>4, <2>1, <2>2
<1> QED BY <1>2, <1>5, <1>6, <1>7

(* The stack without its first call.                                       *)
LEMMA Popped ==
  ASSUME IsSequence(todo), todo # <<>>, \A k \in 2 .. Len(todo) : Outer(todo[k]),
         Then(<<>>), fresh' \in Nat \ {0}
  PROVE  BlocksInv'
<1> DEFINE calls == <<>>
<1>1. IsSequence(calls) /\ Len(calls) = 0 /\ todo' = calls \o Tail(todo)
  BY ShortSequences DEF Then
<1> HIDE DEF calls
<1>2. /\ IsSequence(todo)' /\ Len(todo) \in Nat \ {0}
      /\ Len(todo') = Len(calls) + Len(todo) - 1
      /\ \A k \in 2 .. Len(todo) : todo'[Len(calls) + k - 1] = todo[k]
  BY <1>1, Replaced
<1>3. ASSUME NEW k \in 1 .. Len(todo')
      PROVE  Outer(todo'[k])
  <2>1. k + 1 \in 2 .. Len(todo) /\ Len(calls) + (k + 1) - 1 = k
    BY <1>1, <1>2
  <2>2. todo'[Len(calls) + (k + 1) - 1] = todo[k + 1]
    BY <1>2, <2>1
  <2> QED BY <2>1, <2>2
<1> QED BY <1>2, <1>3, OuterStep

LEMMA ModuleStep ==
  ASSUME BlocksInv, VisitModule
  PROVE  BlocksInv'
<1> DEFINE m == Top.node
<1>1. todo # <<>> /\ Top.at = "visit" /\ m.kind = "module"
  BY DEF VisitModule, Visiting, Running
<1>2. /\ \A k \in 2 .. Len(todo) : Outer(todo[k])
      /\ Outer(Top) /\ IsSequence(todo) /\ fresh \in Nat \ {0}
  BY <1>1, OutsideBody
<1>3. IsModule(m)
  BY <1>1, <1>2 DEF Outer, IsFunction
<1>4. CASE Throw
  BY <1>4, ThrowStep
<1>5. CASE ~Throw
  <2> DEFINE l == Len(m.functions)
             functions == [k \in 1 .. l |-> Visit(m.functions[k])]
             main == <<[at |-> "main", node |-> m]>>
             calls == functions \o main
  <2>1. todo' = calls \o Tail(todo) /\ fresh' = fresh
    BY <1>5 DEF VisitModule, Then
  <2>2. l \in Nat /\ IsSequence(functions) /\ Len(functions) = l
    <3>1. l \in Nat
      BY <1>3 DEF IsModule
    <3>2. functions = [k \in 1 .. l |-> functions[k]]
      OBVIOUS
    <3> HIDE DEF functions, l
    <3> QED BY <3>1, <3>2, FunctionSequence
  <2>3. ASSUME NEW k \in 1 .. l
        PROVE  Outer(functions[k])
    BY <1>3 DEF IsModule, Outer, Visit
  <2>4. IsSequence(main) /\ Len(main) = 1 /\ main[1] = [at |-> "main", node |-> m]
    BY ShortSequences
  <2>5. Outer(main[1])
    BY <1>3, <2>4 DEF IsModule, Outer
  <2> HIDE DEF l, functions, main
  <2>6. IsSequence(functions) /\ IsSequence(main)
    BY <2>2, <2>4
  <2>7. /\ IsSequence(calls) /\ Len(calls) = Len(functions) + Len(main)
        /\ \A k \in 1 .. Len(functions) : calls[k] = functions[k]
        /\ \A k \in 1 .. Len(main) : calls[Len(functions) + k] = main[k]
    BY <2>6, ConcatFacts
  <2> HIDE DEF calls
  <2>8. \A k \in 1 .. Len(calls) : Outer(calls[k])
    <3>1. 1 \in 1 .. Len(main) /\ \A k \in 1 .. Len(calls) : k \in 1 .. l \/ k = l + 1
      BY <2>2, <2>4, <2>7
    <3>2. calls[l + 1] = main[1]
      BY <2>2, <2>7, <3>1
    <3> QED BY <2>2, <2>3, <2>5, <2>7, <3>1, <3>2
  <2>9. /\ IsSequence(todo)' /\ Len(todo) \in Nat \ {0} /\ Len(calls) \in Nat
        /\ Len(todo') = Len(calls) + Len(todo) - 1
        /\ \A k \in 1 .. Len(calls) : todo'[k] = calls[k]
        /\ \A k \in 2 .. Len(todo) : todo'[Len(calls) + k - 1] = todo[k]
    BY <1>1, <1>2, <2>1, <2>7, Replaced
  <2>10. ASSUME NEW k \in 1 .. Len(todo')
         PROVE  Outer(todo'[k])
    <3>1. CASE k \in 1 .. Len(calls)
      BY <2>8, <2>9, <3>1
    <3>2. CASE k \notin 1 .. Len(calls)
      <4>1. /\ k - Len(calls) + 1 \in 2 .. Len(todo)
            /\ Len(calls) + (k - Len(calls) + 1) - 1 = k
        BY <2>9, <3>2
      <4>2. todo'[Len(calls) + (k - Len(calls) + 1) - 1] = todo[k - Len(calls) + 1]
        BY <2>9, <4>1
      <4> QED BY <1>2, <4>1, <4>2
    <3> QED BY <3>1, <3>2
  <2> QED BY <1>2, <2>1, <2>9, <2>10, OuterStep
<1> QED BY <1>4, <1>5

LEMMA FunctionStep ==
  ASSUME BlocksInv, VisitFunction \/ VisitMain
  PROVE  BlocksInv'
<1> DEFINE n == Top.node
           insts == SeqsExt!FlattenSeq([k \in 1 .. Len(n.arguments) |-> ArgumentInsts(fresh + k)])
<1>1. /\ todo # <<>>
      /\ VisitFunction => Top.at = "visit" /\ n.kind = "function"
      /\ VisitMain => Top.at = "main"
  BY DEF VisitFunction, VisitMain, Visiting, Running
<1>2. /\ \A k \in 2 .. Len(todo) : Outer(todo[k])
      /\ Outer(Top) /\ IsSequence(todo) /\ fresh \in Nat \ {0}
  BY <1>1, OutsideBody
<1>3. CASE Throw
  BY <1>3, ThrowStep
<1>4. CASE VisitFunction /\ ~Throw
  <2> DEFINE calls == <<Visit(n.body), [at |-> "finish"], [at |-> "unroll"]>>
  <2>1. IsFunction(n)
    BY <1>1, <1>2, <1>4 DEF Outer, IsModule
  <2>2. Straight(insts)
    BY <2>1, Prologues DEF IsFunction
  <2> HIDE DEF insts
  <2>3. /\ CreateFunction(n.name, Len(n.arguments), insts)
        /\ fresh' = fresh + Len(n.arguments) + 1
        /\ todo' = calls \o Tail(todo)
    BY <1>4 DEF VisitFunction, Then, insts
  <2>4. OpenBlock' /\ bb' # 0
    BY <1>2, <2>2, <2>3, CreateFunctionFacts
  <2>5. fresh' \in Nat \ {0}
    BY <1>2, <2>1, <2>3 DEF IsFunction
  <2>6. /\ IsSequence(calls) /\ Len(calls) = 3
        /\ calls[1] = Visit(n.body) /\ calls[2] = [at |-> "finish"]
        /\ calls[3] = [at |-> "unroll"]
    BY ShortSequences
  <2> HIDE DEF calls
  <2>7. calls[2].at = "finish" /\ Len(calls) >= 2 /\ \A k \in 3 .. Len(calls) : Outer(calls[k])
    BY <2>6 DEF Outer
  <2>8. n.body \in Statements
    BY <2>1 DEF IsFunction
  <2> QED BY <1>1, <1>2, <2>3, <2>4, <2>5, <2>6, <2>7, <2>8, EnterStep
<1>5. CASE VisitMain
  <2> DEFINE calls == <<Visit(n.body), [at |-> "finish"]>>
  <2>1. n.body \in Statements
    BY <1>1, <1>2, <1>5 DEF Outer
  <2>2. /\ CreateFunction("main", 0, <<>>) /\ fresh' = fresh + 1
        /\ todo' = calls \o Tail(todo)
    BY <1>5 DEF VisitMain, Then
  <2>3. OpenBlock' /\ bb' # 0
    BY <1>2, <2>2, StraightShort, CreateFunctionFacts
  <2>4. fresh' \in Nat \ {0}
    BY <1>2, <2>2
  <2>5. /\ IsSequence(calls) /\ Len(calls) = 2
        /\ calls[1] = Visit(n.body) /\ calls[2] = [at |-> "finish"]
    BY ShortSequences
  <2> HIDE DEF calls
  <2>6. calls[2].at = "finish" /\ Len(calls) >= 2 /\ 3 .. Len(calls) = {}
    BY <2>5
  <2> QED BY <1>1, <1>2, <2>1, <2>2, <2>3, <2>4, <2>5, <2>6, EnterStep
<1> QED BY <1>3, <1>4, <1>5

LEMMA LeaveStep ==
  ASSUME BlocksInv, FinishBody \/ Unroll
  PROVE  BlocksInv'
<1>1. /\ todo # <<>> /\ Then(<<>>) /\ IsSequence(todo) /\ fresh \in Nat \ {0}
      /\ FinishBody => Top.at = "finish"
      /\ Unroll => Top.at = "unroll"
  BY DEF FinishBody, Unroll, Running, BlocksInv
<1>2. CASE FinishBody
  <2>1. \A k \in 2 .. Len(todo) : Outer(todo[k])
    BY <1>1, <1>2, OutsideBody
  <2>2. fresh' = fresh \/ fresh' = fresh + 1
    BY <1>2 DEF FinishBody
  <2>3. fresh' \in Nat \ {0}
    BY <1>1, <2>2
  <2> QED BY <1>1, <2>1, <2>3, Popped
<1>3. CASE Unroll
  <2>1. /\ fresh' = fresh /\ f' = f /\ bb' = bb /\ code' = code
        /\ fresh' \in Nat \ {0} /\ fresh' \in Nat /\ fresh <= fresh'
    BY <1>1, <1>3 DEF Unroll
  <2>2. PICK p \in 0 .. Len(todo) : StackInv(p) /\ (p > 0 => OpenBlock)
    BY DEF BlocksInv
  <2>3. Len(todo) \in Nat \ {0} /\ Top = todo[1]
    BY <1>1, TailFacts, SequenceFacts DEF Top
  <2>4. CASE p = 0
    <3>1. \A k \in p + 1 .. Len(todo) : Outer(todo[k])
      BY <2>2 DEF StackInv
    <3>2. 2 .. Len(todo) \subseteq p + 1 .. Len(todo)
      BY <2>3, <2>4
    <3>3. \A k \in 2 .. Len(todo) : Outer(todo[k])
      BY <3>1, <3>2
    <3> QED BY <1>1, <2>1, <3>3, Popped
  <2>5. CASE p = 1
    BY <1>1, <1>3, <2>2, <2>3, <2>5 DEF StackInv
  <2>6. CASE p > 1
    <3>1. p \in 2 .. Len(todo) /\ p > 0
      BY <2>3, <2>6
    <3>2. OpenBlock'
      BY <2>1, <2>2, <3>1 DEF OpenBlock, Straight, IsSequence
    <3>3. ~KeepsOpen(todo[1])
      BY <1>1, <1>3, <2>3 DEF KeepsOpen
    <3> QED BY <1>1, <2>1, <2>2, <3>1, <3>2, <3>3, NoCall
  <2> QED BY <2>3, <2>4, <2>5, <2>6
<1> QED BY <1>2, <1>3

-----------------------------------------------------------------------------
(* The compiler keeps BlocksInv: at the start there is the module to visit. *)
LEMMA BlocksInvInductive ==
  /\ Init => BlocksInv
  /\ BlocksInv /\ [Next]_vars => BlocksInv'
<1>1. ASSUME Init PROVE BlocksInv
  <2>1. PICK m \in Modules : todo = <<Visit(m)>>
    BY <1>1 DEF Init
  <2>2. IsModule(m)
    BY GrammarAssumption
  <2>3. Outer(Visit(m))
    BY <2>2 DEF Outer, Visit
  <2> DEFINE p == 0
  <2>4. IsSequence(todo) /\ Len(todo) = 1 /\ todo[1] = Visit(m)
    BY <2>1, ShortSequences
  <2>5. /\ p \in 0 .. Len(todo) /\ 1 .. p - 1 = {} /\ 2 .. p - 1 = {}
        /\ p + 1 .. Len(todo) = {1} /\ ~(p > 0) /\ ~(p > 1)
    BY <2>4
  <2> HIDE DEF p
  <2>6. StackInv(p)
    BY <2>3, <2>4, <2>5 DEF StackInv
  <2>7. fresh \in Nat \ {0}
    <3>1. fresh = 1
      BY <1>1, Zenon DEF Init, Constructed
    <3> QED BY <3>1
  <2> QED BY <2>4, <2>5, <2>6, <2>7 DEF BlocksInv
<1>2. ASSUME BlocksInv, [Next]_vars PROVE BlocksInv'
  <2>1. CASE VisitModule
    BY <1>2, <2>1, ModuleStep
  <2>2. CASE VisitFunction \/ VisitMain
    BY <1>2, <2>2, FunctionStep
  <2>3. CASE FinishBody \/ Unroll
    BY <1>2, <2>3, LeaveStep
  <2>4. CASE Statement
    BY <1>2, <2>4, BlockStep, CallStep, VisitStep, AppendStep, ReturnStep, IfStep, WhileStep
       DEF Statement
  <2>5. CASE Expression
    BY <1>2, <2>5, CallStep, VisitStep, AppendStep DEF Expression
  <2>6. CASE Verify \/ Stopped \/ UNCHANGED vars
    BY <1>2, <2>6
       DEF Verify, Stopped, vars, BlocksInv, StackInv, OpenBlock, Straight, IsSequence
  <2> QED BY <1>2, <2>1, <2>2, <2>3, <2>4, <2>5, <2>6 DEF Next
<1> QED BY <1>1, <1>2

(* Whatever tree of the grammar it visits, the compiler appends             *)
(* instructions only to a block of the current function that exists and     *)
(* has no terminator yet: after a return, which leaves bb at nullptr, it    *)
(* visits nothing before it has entered the block that follows              *)
(* (compiler.h:159-165, 188-266).                                           *)
THEOREM BuildsOnlyIntoOpenBlocks == Spec => []BuildsIntoAnOpenBlock
<1>1. ASSUME BlocksInv PROVE BuildsIntoAnOpenBlock
  <2>1. ASSUME BuildsCode PROVE OpenBlock /\ bb # 0
    <3>1. /\ todo # <<>> /\ Top.at \notin {"finish", "unroll", "main"} /\ Builds(Top)
          /\ Top.at = "visit" => Top.node.kind \notin {"module", "function"}
      BY <2>1 DEF BuildsCode, Builds
    <3> QED BY <1>1, <3>1, InsideBody
  <2>2. ASSUME BuildsCodeIfAny PROVE OpenBlock
    <3>1. CASE Top.at = "finish"
      <4>1. PICK p \in 0 .. Len(todo) : StackInv(p) /\ (p > 0 => OpenBlock)
        BY <1>1 DEF BlocksInv
      <4>2. Len(todo) \in Nat \ {0} /\ Top = todo[1]
        BY <1>1, <2>2, TailFacts, SequenceFacts DEF BlocksInv, Top, BuildsCodeIfAny
      <4>3. p = 0 => Outer(todo[1])
        BY <4>1, <4>2 DEF StackInv
      <4>4. p # 0
        BY <3>1, <4>2, <4>3 DEF Outer
      <4> QED BY <4>1, <4>2, <4>4
    <3>2. CASE Top.at # "finish"
      <4>1. todo # <<>> /\ Top.at \notin {"finish", "unroll", "main", "visit"}
        BY <2>2, <3>2 DEF BuildsCodeIfAny
      <4> QED BY <1>1, <4>1, InsideBody
    <3> QED BY <3>1, <3>2
  <2> QED BY <2>1, <2>2 DEF BuildsIntoAnOpenBlock, OpenBlock, Straight
<1> QED BY <1>1, BlocksInvInductive, PTL DEF Spec

-----------------------------------------------------------------------------
(* Fixed points: which nodes return and what they demand. *)

(* A monotonic function on the subsets of a set has a fixed point: the     *)
(* union of the sets it enlarges.                                          *)
LEMMA MonotonicHasFixedPoint ==
  ASSUME NEW W, NEW F,
         \A A \in SUBSET W : F[A] \in SUBSET W,
         \A A, B \in SUBSET W : A \subseteq B => F[A] \subseteq F[B]
  PROVE  \E X \in SUBSET W : F[X] = X
<1> DEFINE X == UNION {A \in SUBSET W : A \subseteq F[A]}
<1>1. X \in SUBSET W
  OBVIOUS
<1>2. ASSUME NEW A \in SUBSET W, A \subseteq F[A]
      PROVE  A \subseteq X
  BY <1>2
<1>3. ASSUME NEW x \in X
      PROVE  \E A \in SUBSET W : A \subseteq F[A] /\ x \in A
  BY <1>3
<1> HIDE DEF X
<1>4. X \subseteq F[X]
  <2> SUFFICES ASSUME NEW x \in X PROVE x \in F[X]
    OBVIOUS
  <2>1. PICK A \in SUBSET W : A \subseteq F[A] /\ x \in A
    BY <1>3
  <2>2. F[A] \subseteq F[X]
    BY <1>1, <1>2, <2>1
  <2> QED BY <2>1, <2>2
<1>5. F[X] \subseteq X
  <2>1. F[X] \in SUBSET W /\ F[X] \subseteq F[F[X]]
    BY <1>1, <1>4
  <2> QED BY <1>2, <2>1
<1> QED BY <1>1, <1>4, <1>5

-----------------------------------------------------------------------------
(* What the grammar says of the children of a node.                        *)
LEMMA Children ==
  ASSUME NEW n \in Trees
  PROVE  /\ n.kind \notin {"module", "function"}
         /\ n.kind = "unary" => n.operand \in Trees
         /\ n.kind = "binary" => n.lhs \in Trees /\ n.rhs \in Trees
         /\ n.kind = "call" => ListOf(n.arguments, Trees)
         /\ n.kind = "write" => n.expression \in Trees
         /\ n.kind \in {"return", "assignment"} => n.value \in Trees
         /\ n.kind = "if" => n.condition \in Trees /\ n.trueCase \in Trees /\ n.falseCase \in Trees
         /\ n.kind = "while" => n.condition \in Trees /\ n.body \in Trees
         /\ n.kind = "block" => ListOf(n.statements, Trees)
BY NodeFacts DEF Trees, ListOf

(* Returns and Demands are the solutions of the equations they are         *)
(* written with.                                                           *)
LEMMA ReturnsGivenBoolean ==
  ASSUME NEW n, NEW r, \A x \in Trees : r[x] \in BOOLEAN
  PROVE  ReturnsGiven(n, r) \in BOOLEAN
<1>1. CASE n.kind = "return"
  BY <1>1 DEF ReturnsGiven
<1>2. CASE n.kind = "block"
  BY <1>2 DEF ReturnsGiven
<1>3. CASE n.kind = "if"
  BY <1>3 DEF ReturnsGiven
<1>4. CASE n.kind \notin {"return", "block", "if"}
  BY <1>4 DEF ReturnsGiven
<1> QED BY <1>1, <1>2, <1>3, <1>4

\* The more children return, the more nodes do.
LEMMA ReturnsGivenGrows ==
  ASSUME NEW n \in Trees, NEW r, NEW s, \A x \in Trees : r[x] => s[x], ReturnsGiven(n, r)
  PROVE  ReturnsGiven(n, s)
<1>1. CASE n.kind = "return"
  BY <1>1 DEF ReturnsGiven
<1>2. CASE n.kind = "block"
  <2>1. PICK k \in 1 .. Len(n.statements) : r[n.statements[k]]
    BY <1>2 DEF ReturnsGiven
  <2>2. n.statements[k] \in Trees
    BY <1>2, Children DEF ListOf
  <2>3. s[n.statements[k]]
    BY <2>1, <2>2
  <2> QED BY <1>2, <2>3 DEF ReturnsGiven
<1>3. CASE n.kind = "if"
  <2>1. n.trueCase \in Trees /\ n.falseCase \in Trees
    BY <1>3, Children
  <2>2. r[n.trueCase] /\ r[n.falseCase]
    BY <1>3 DEF ReturnsGiven
  <2> QED BY <1>3, <2>1, <2>2 DEF ReturnsGiven
<1>4. CASE n.kind \notin {"return", "block", "if"}
  BY <1>4 DEF ReturnsGiven
<1> QED BY <1>1, <1>2, <1>3, <1>4

\* Returns says of every node what ReturnsGiven says of it.
LEMMA ReturnsUnrolled ==
  \A n \in Trees : IsReturning(n) = ReturnsGiven(n, Returns(Trees))
<1> DEFINE Of(A) == [n \in Trees |-> n \in A]
           F == [A \in SUBSET Trees |-> {n \in Trees : ReturnsGiven(n, Of(A))}]
<1>1. \A A \in SUBSET Trees : F[A] \in SUBSET Trees
  OBVIOUS
<1>2. \A A, B \in SUBSET Trees : A \subseteq B => F[A] \subseteq F[B]
  <2> SUFFICES ASSUME NEW A \in SUBSET Trees, NEW B \in SUBSET Trees, A \subseteq B,
                      NEW n \in Trees, ReturnsGiven(n, Of(A))
               PROVE  ReturnsGiven(n, Of(B))
    OBVIOUS
  <2>1. \A x \in Trees : Of(A)[x] => Of(B)[x]
    OBVIOUS
  <2> HIDE DEF Of
  <2> QED BY <2>1, ReturnsGivenGrows
<1>3. PICK X \in SUBSET Trees : F[X] = X
  <2> HIDE DEF F
  <2> QED BY <1>1, <1>2, MonotonicHasFixedPoint
<1> DEFINE g == Of(X)
<1>4. \A n \in Trees : g[n] = ReturnsGiven(n, g)
  <2> TAKE n \in Trees
  <2>1. n \in X <=> ReturnsGiven(n, Of(X))
    BY <1>3
  <2>2. \A x \in Trees : Of(X)[x] \in BOOLEAN
    OBVIOUS
  <2>3. ReturnsGiven(n, Of(X)) \in BOOLEAN
    <3> HIDE DEF Of
    <3> QED BY <2>2, ReturnsGivenBoolean
  <2>4. g[n] = (n \in X)
    OBVIOUS
  <2>5. (n \in X) \in BOOLEAN
    OBVIOUS
  <2> QED BY <2>1, <2>3, <2>4, <2>5
<1>5. g = [n \in Trees |-> ReturnsGiven(n, g)]
  <2>1. g = [n \in Trees |-> g[n]]
    OBVIOUS
  <2> HIDE DEF g
  <2> QED BY <1>4, <2>1
<1> DEFINE returns == CHOOSE h : h = [n \in Trees |-> ReturnsGiven(n, h)]
<1>6. returns = [n \in Trees |-> ReturnsGiven(n, returns)]
  <2> HIDE DEF g
  <2> QED BY <1>5
<1>7. Returns(Trees) = returns
  BY DEF Returns
<1> HIDE DEF returns
<1> QED BY <1>6, <1>7 DEF IsReturning

\* What each kind of node demands.
LEMMA DemandsOfKind ==
  ASSUME NEW n, NEW r, NEW q
  PROVE  /\ n.kind = "block" =>
              DemandsGiven(n, r, q) =
                BlockDemands(n, DemandsOfAll(n.statements, r), q)
         /\ n.kind = "write" => DemandsGiven(n, r, q) = r[n.expression]
         /\ n.kind = "read" => DemandsGiven(n, r, q) = {NeedsVariable(n.symbol)}
         /\ n.kind = "if" =>
              DemandsGiven(n, r, q) = r[n.condition] \cup r[n.trueCase] \cup r[n.falseCase]
         /\ n.kind = "while" => DemandsGiven(n, r, q) = r[n.condition] \cup r[n.body]
         /\ n.kind = "return" => DemandsGiven(n, r, q) = r[n.value]
         /\ n.kind = "assignment" =>
              DemandsGiven(n, r, q) = r[n.value] \cup {NeedsVariable(n.symbol)}
         /\ n.kind = "call" =>
              DemandsGiven(n, r, q) =
                DemandsOfAll(n.arguments, r)
                  \cup {NeedsFunction(n.function, Len(n.arguments))}
         /\ n.kind = "binary" => DemandsGiven(n, r, q) = r[n.lhs] \cup r[n.rhs]
         /\ n.kind = "unary" => DemandsGiven(n, r, q) = r[n.operand]
         /\ n.kind = "variable" => DemandsGiven(n, r, q) = {NeedsName(n.symbol)}
         /\ n.kind \notin {"block", "write", "read", "if", "while", "return", "assignment", "call",
                           "binary", "unary", "variable"} =>
              DemandsGiven(n, r, q) = {}
<1>1. CASE n.kind = "block"
  BY <1>1 DEF DemandsGiven
<1>2. CASE n.kind = "write"
  BY <1>2 DEF DemandsGiven
<1>3. CASE n.kind = "read"
  BY <1>3 DEF DemandsGiven
<1>4. CASE n.kind = "if"
  BY <1>4 DEF DemandsGiven
<1>5. CASE n.kind = "while"
  BY <1>5 DEF DemandsGiven
<1>6. CASE n.kind = "return"
  BY <1>6 DEF DemandsGiven
<1>7. CASE n.kind = "assignment"
  BY <1>7 DEF DemandsGiven
<1>8. CASE n.kind = "call"
  BY <1>8 DEF DemandsGiven
<1>9. CASE n.kind = "binary"
  BY <1>9 DEF DemandsGiven
<1>10. CASE n.kind = "unary"
  BY <1>10 DEF DemandsGiven
<1>11. CASE n.kind = "variable"
  BY <1>11 DEF DemandsGiven
<1>12. CASE n.kind \notin {"block", "write", "read", "if", "while", "return", "assignment", "call",
                           "binary", "unary", "variable"}
  BY <1>12 DEF DemandsGiven
<1> QED BY <1>1, <1>2, <1>3, <1>4, <1>5, <1>6, <1>7, <1>8, <1>9, <1>10, <1>11, <1>12

\* All that nodes can demand.
AllDemands ==
  {NeedsName(n.symbol) : n \in Trees} \cup {NeedsVariable(n.symbol) : n \in Trees}
    \cup {NeedsFunction(n.function, Len(n.arguments)) : n \in Trees} \cup {Impossible}

\* Nodes demand nothing but names, variables and functions of the tree.
LEMMA DemandsGivenWithin ==
  ASSUME NEW n \in Trees, NEW r, NEW q, \A x \in Trees : r[x] \subseteq AllDemands
  PROVE  DemandsGiven(n, r, q) \subseteq AllDemands
<1>1. CASE n.kind = "block"
  <2> DEFINE inner == DemandsOfAll(n.statements, r)
  <2>1. \A k \in 1 .. Len(n.statements) : n.statements[k] \in Trees
    BY <1>1, Children DEF ListOf
  <2>2. inner \subseteq AllDemands
    BY <2>1 DEF DemandsOfAll
  <2>3. DemandsGiven(n, r, q) = BlockDemands(n, inner, q)
    BY <1>1, DemandsOfKind
  <2> HIDE DEF inner
  <2>4. Impossible \in AllDemands
    BY DEF AllDemands
  <2> QED BY <2>2, <2>3, <2>4 DEF BlockDemands
<1>2. CASE n.kind \in {"write", "return", "unary", "binary", "if", "while"}
  <2>1. /\ n.kind = "write" => n.expression \in Trees
        /\ n.kind = "return" => n.value \in Trees
        /\ n.kind = "unary" => n.operand \in Trees
        /\ n.kind = "binary" => n.lhs \in Trees /\ n.rhs \in Trees
        /\ n.kind = "if" => n.condition \in Trees /\ n.trueCase \in Trees /\ n.falseCase \in Trees
        /\ n.kind = "while" => n.condition \in Trees /\ n.body \in Trees
    BY Children
  <2>2. \/ DemandsGiven(n, r, q) = r[n.expression] /\ n.expression \in Trees
        \/ DemandsGiven(n, r, q) = r[n.value] /\ n.value \in Trees
        \/ DemandsGiven(n, r, q) = r[n.operand] /\ n.operand \in Trees
        \/ DemandsGiven(n, r, q) = r[n.lhs] \cup r[n.rhs] /\ n.lhs \in Trees /\ n.rhs \in Trees
        \/ /\ DemandsGiven(n, r, q) = r[n.condition] \cup r[n.trueCase] \cup r[n.falseCase]
           /\ n.condition \in Trees /\ n.trueCase \in Trees /\ n.falseCase \in Trees
        \/ /\ DemandsGiven(n, r, q) = r[n.condition] \cup r[n.body]
           /\ n.condition \in Trees /\ n.body \in Trees
    BY <1>2, <2>1, DemandsOfKind
  <2> QED BY <2>2
<1>3. CASE n.kind = "call"
  <2>1. \A k \in 1 .. Len(n.arguments) : n.arguments[k] \in Trees
    BY <1>3, Children DEF ListOf
  <2>2. NeedsFunction(n.function, Len(n.arguments)) \in AllDemands
    BY DEF AllDemands
  <2>3. DemandsGiven(n, r, q) =
          DemandsOfAll(n.arguments, r)
            \cup {NeedsFunction(n.function, Len(n.arguments))}
    BY <1>3, DemandsOfKind
  <2> QED BY <2>1, <2>2, <2>3 DEF DemandsOfAll
<1>4. CASE n.kind \in {"assignment", "read", "variable"}
  <2>1. NeedsVariable(n.symbol) \in AllDemands /\ NeedsName(n.symbol) \in AllDemands
    BY DEF AllDemands
  <2>2. n.kind = "assignment" => n.value \in Trees
    BY Children
  <2>3. \/ DemandsGiven(n, r, q) = r[n.value] \cup {NeedsVariable(n.symbol)} /\ n.value \in Trees
        \/ DemandsGiven(n, r, q) = {NeedsVariable(n.symbol)}
        \/ DemandsGiven(n, r, q) = {NeedsName(n.symbol)}
    BY <1>4, <2>2, DemandsOfKind
  <2> QED BY <2>1, <2>3
<1>5. CASE n.kind \notin {"block", "write", "read", "if", "while", "return", "assignment", "call",
                          "binary", "unary", "variable"}
  BY <1>5, DemandsOfKind
<1> QED BY <1>1, <1>2, <1>3, <1>4, <1>5

\* The more its children demand, the more a node does.
LEMMA DemandsGivenGrow ==
  ASSUME NEW n \in Trees, NEW r, NEW s, NEW q, \A x \in Trees : r[x] \subseteq s[x]
  PROVE  DemandsGiven(n, r, q) \subseteq DemandsGiven(n, s, q)
<1>1. CASE n.kind = "block"
  <2> DEFINE inner(t) == DemandsOfAll(n.statements, t)
  <2>1. \A k \in 1 .. Len(n.statements) : n.statements[k] \in Trees
    BY <1>1, Children DEF ListOf
  <2>2. inner(r) \subseteq inner(s)
    BY <2>1 DEF DemandsOfAll
  <2>3. /\ DemandsGiven(n, r, q) = BlockDemands(n, inner(r), q)
        /\ DemandsGiven(n, s, q) = BlockDemands(n, inner(s), q)
    BY <1>1, DemandsOfKind
  <2> HIDE DEF inner
  <2> QED BY <2>2, <2>3 DEF BlockDemands
<1>2. CASE n.kind \in {"write", "return", "unary", "binary", "if", "while"}
  <2>1. /\ n.kind = "write" => n.expression \in Trees
        /\ n.kind = "return" => n.value \in Trees
        /\ n.kind = "unary" => n.operand \in Trees
        /\ n.kind = "binary" => n.lhs \in Trees /\ n.rhs \in Trees
        /\ n.kind = "if" => n.condition \in Trees /\ n.trueCase \in Trees /\ n.falseCase \in Trees
        /\ n.kind = "while" => n.condition \in Trees /\ n.body \in Trees
    BY Children
  <2> QED BY <1>2, <2>1, DemandsOfKind
<1>3. CASE n.kind = "call"
  <2> DEFINE inner(t) == DemandsOfAll(n.arguments, t)
  <2>1. \A k \in 1 .. Len(n.arguments) : n.arguments[k] \in Trees
    BY <1>3, Children DEF ListOf
  <2>2. inner(r) \subseteq inner(s)
    BY <2>1 DEF DemandsOfAll
  <2>3. /\ DemandsGiven(n, r, q) = inner(r) \cup {NeedsFunction(n.function, Len(n.arguments))}
        /\ DemandsGiven(n, s, q) = inner(s) \cup {NeedsFunction(n.function, Len(n.arguments))}
    BY <1>3, DemandsOfKind
  <2> HIDE DEF inner
  <2> QED BY <2>2, <2>3
<1>4. CASE n.kind \in {"assignment", "read", "variable"}
  <2>1. n.kind = "assignment" => n.value \in Trees
    BY Children
  <2> QED BY <1>4, <2>1, DemandsOfKind
<1>5. CASE n.kind \notin {"block", "write", "read", "if", "while", "return", "assignment", "call",
                          "binary", "unary", "variable"}
  BY <1>5, DemandsOfKind
<1> QED BY <1>1, <1>2, <1>3, <1>4, <1>5

\* Demands says of every node what DemandsGiven says of it.
LEMMA DemandsUnrolled ==
  \A n \in Trees : Demands(Trees)[n] = DemandsGiven(n, Demands(Trees), Returns(Trees))
<1> DEFINE R == Returns(Trees)
           W == Trees \X AllDemands
           Of(A) == [n \in Trees |-> {d \in AllDemands : <<n, d>> \in A}]
           F == [A \in SUBSET W |-> {p \in W : p[2] \in DemandsGiven(p[1], Of(A), R)}]
<1> HIDE DEF R
<1>1. \A A \in SUBSET W : F[A] \in SUBSET W
  OBVIOUS
<1>2. \A A, B \in SUBSET W : A \subseteq B => F[A] \subseteq F[B]
  <2> SUFFICES ASSUME NEW A \in SUBSET W, NEW B \in SUBSET W, A \subseteq B,
                      NEW p \in W, p[2] \in DemandsGiven(p[1], Of(A), R)
               PROVE  p[2] \in DemandsGiven(p[1], Of(B), R)
    OBVIOUS
  <2>1. \A x \in Trees : Of(A)[x] \subseteq Of(B)[x]
    OBVIOUS
  <2>2. p[1] \in Trees
    OBVIOUS
  <2> HIDE DEF Of
  <2> QED BY <2>1, <2>2, DemandsGivenGrow
<1>3. PICK X \in SUBSET W : F[X] = X
  <2> HIDE DEF F, W
  <2> QED BY <1>1, <1>2, MonotonicHasFixedPoint
<1> DEFINE g == Of(X)
<1>4. ASSUME NEW n \in Trees
      PROVE  g[n] = DemandsGiven(n, g, R)
  <2>1. \A d \in AllDemands : <<n, d>> \in X <=> d \in DemandsGiven(n, Of(X), R)
    <3> SUFFICES ASSUME NEW d \in AllDemands
                 PROVE  <<n, d>> \in X <=> d \in DemandsGiven(n, Of(X), R)
      OBVIOUS
    <3>1. <<n, d>> \in W /\ <<n, d>>[1] = n /\ <<n, d>>[2] = d
      OBVIOUS
    <3>2. <<n, d>> \in F[X] <=> d \in DemandsGiven(n, Of(X), R)
      <4> HIDE DEF Of, W
      <4> QED BY <3>1, <1>3
    <3> QED BY <1>3, <3>2
  <2>2. \A x \in Trees : Of(X)[x] \subseteq AllDemands
    OBVIOUS
  <2>3. DemandsGiven(n, Of(X), R) \subseteq AllDemands
    <3> HIDE DEF Of
    <3> QED BY <2>2, DemandsGivenWithin
  <2>4. g[n] = {d \in AllDemands : <<n, d>> \in X}
    OBVIOUS
  <2> QED BY <2>1, <2>3, <2>4
<1>5. g = [n \in Trees |-> DemandsGiven(n, g, R)]
  <2>1. g = [n \in Trees |-> g[n]]
    OBVIOUS
  <2> HIDE DEF g
  <2> QED BY <1>4, <2>1
<1> DEFINE demands == CHOOSE h : h = [n \in Trees |-> DemandsGiven(n, h, R)]
<1>6. demands = [n \in Trees |-> DemandsGiven(n, demands, R)]
  <2> HIDE DEF g
  <2> QED BY <1>5
<1>7. Demands(Trees) = demands
  BY DEF Demands, R
<1> HIDE DEF demands
<1> QED BY <1>6, <1>7 DEF R

-----------------------------------------------------------------------------
(* What that says of the nodes of each kind. *)

\* Which nodes return, kind by kind.
LEMMA ReturningOfKind ==
  ASSUME NEW n \in Trees
  PROVE  /\ n.kind = "return" => IsReturning(n)
         /\ n.kind = "block" =>
              (IsReturning(n) <=> \E k \in 1 .. Len(n.statements) : IsReturning(n.statements[k]))
         /\ n.kind = "if" =>
              (IsReturning(n) <=> IsReturning(n.trueCase) /\ IsReturning(n.falseCase))
         /\ n.kind \notin {"return", "block", "if"} => ~IsReturning(n)
         /\ n \in Expressions => ~IsReturning(n)
<1>0. IsReturning(n) = ReturnsGiven(n, Returns(Trees))
  BY ReturnsUnrolled
<1>1. CASE n.kind = "return"
  BY <1>0, <1>1, NodeFacts DEF ReturnsGiven, Trees
<1>2. CASE n.kind = "block"
  BY <1>0, <1>2, NodeFacts DEF ReturnsGiven, IsReturning, Trees
<1>3. CASE n.kind = "if"
  BY <1>0, <1>3, NodeFacts DEF ReturnsGiven, IsReturning, Trees
<1>4. CASE n.kind \notin {"return", "block", "if"}
  BY <1>0, <1>4 DEF ReturnsGiven
<1> QED BY <1>1, <1>2, <1>3, <1>4

\* A node is legal if its children are and its own demands are met.
LEMMA LegalOfKind ==
  ASSUME NEW n \in Trees, NEW scope, NEW arities
  PROVE  LET OK(x) == Legal(x, Trees, scope, arities) IN
         /\ n.kind = "write" => (OK(n) <=> OK(n.expression))
         /\ n.kind = "read" => (OK(n) <=> Met(NeedsVariable(n.symbol), scope, arities))
         /\ n.kind = "if" => (OK(n) <=> OK(n.condition) /\ OK(n.trueCase) /\ OK(n.falseCase))
         /\ n.kind = "while" => (OK(n) <=> OK(n.condition) /\ OK(n.body))
         /\ n.kind = "return" => (OK(n) <=> OK(n.value))
         /\ n.kind = "assignment" =>
              (OK(n) <=> OK(n.value) /\ Met(NeedsVariable(n.symbol), scope, arities))
         /\ n.kind = "call" =>
              (OK(n) <=> /\ \A k \in 1 .. Len(n.arguments) : OK(n.arguments[k])
                         /\ Met(NeedsFunction(n.function, Len(n.arguments)), scope, arities))
         /\ n.kind = "binary" => (OK(n) <=> OK(n.lhs) /\ OK(n.rhs))
         /\ n.kind = "unary" => (OK(n) <=> OK(n.operand))
         /\ n.kind = "variable" => (OK(n) <=> Met(NeedsName(n.symbol), scope, arities))
         /\ n.kind = "number" => OK(n)
<1> DEFINE D == Demands(Trees)
           all(ds) == \A d \in ds : Met(d, scope, arities)
<1>0. D[n] = DemandsGiven(n, D, Returns(Trees))
  BY DemandsUnrolled
<1>1. \A x : Legal(x, Trees, scope, arities) <=> all(D[x])
  BY DEF Legal
<1>2. \A a, b : all(a \cup b) <=> all(a) /\ all(b)
  OBVIOUS
<1>3. \A d : all({d}) <=> Met(d, scope, arities)
  OBVIOUS
<1>4. \A ns : all(DemandsOfAll(ns, D)) <=> \A k \in 1 .. Len(ns) : all(D[ns[k]])
  BY DEF DemandsOfAll
<1>5. all({})
  OBVIOUS
<1> HIDE DEF D, all
<1>6. CASE n.kind \in {"write", "read", "return", "unary", "variable", "number"}
  BY <1>0, <1>1, <1>3, <1>5, <1>6, DemandsOfKind
<1>7. CASE n.kind = "if"
  <2>1. D[n] = D[n.condition] \cup D[n.trueCase] \cup D[n.falseCase]
    BY <1>0, <1>7, DemandsOfKind
  <2>2. all(D[n]) <=> all(D[n.condition] \cup D[n.trueCase]) /\ all(D[n.falseCase])
    BY <2>1 DEF all
  <2>3. all(D[n]) <=> all(D[n.condition]) /\ all(D[n.trueCase]) /\ all(D[n.falseCase])
    BY <1>2, <2>2, Zenon
  <2> QED BY <1>1, <1>7, <2>3
<1>8. CASE n.kind = "while"
  <2>1. D[n] = D[n.condition] \cup D[n.body]
    BY <1>0, <1>8, DemandsOfKind
  <2> QED BY <1>1, <1>2, <1>8, <2>1
<1>9. CASE n.kind = "assignment"
  <2>1. D[n] = D[n.value] \cup {NeedsVariable(n.symbol)}
    BY <1>0, <1>9, DemandsOfKind
  <2> QED BY <1>1, <1>2, <1>3, <1>9, <2>1
<1>10. CASE n.kind = "call"
  <2>1. D[n] = DemandsOfAll(n.arguments, D) \cup {NeedsFunction(n.function, Len(n.arguments))}
    BY <1>0, <1>10, DemandsOfKind
  <2>2. all(D[n]) <=> /\ all(DemandsOfAll(n.arguments, D))
                      /\ all({NeedsFunction(n.function, Len(n.arguments))})
    BY <2>1 DEF all
  <2>3. all(D[n]) <=> /\ \A k \in 1 .. Len(n.arguments) : all(D[n.arguments[k]])
                      /\ Met(NeedsFunction(n.function, Len(n.arguments)), scope, arities)
    BY <1>3, <1>4, <2>2, Zenon
  <2>4. Legal(n, Trees, scope, arities) <=>
          /\ \A k \in 1 .. Len(n.arguments) : Legal(n.arguments[k], Trees, scope, arities)
          /\ Met(NeedsFunction(n.function, Len(n.arguments)), scope, arities)
    BY <1>1, <2>3, Zenon
  <2> QED BY <1>10, <2>4
<1>11. CASE n.kind = "binary"
  <2>1. D[n] = D[n.lhs] \cup D[n.rhs]
    BY <1>0, <1>11, DemandsOfKind
  <2> QED BY <1>1, <1>2, <1>11, <2>1
<1>12. CASE n.kind \notin {"write", "read", "return", "unary", "variable", "number", "if", "while",
                           "assignment", "call", "binary"}
  BY <1>12
<1> QED BY <1>6, <1>7, <1>8, <1>9, <1>10, <1>11, <1>12

\* The scope inside the declarations ds of a block, of that around it.
Inside(scope, ds) ==
  [s \in DOMAIN scope \cup Symbols(ds) |->
     IF s \in Symbols(ds) THEN DeclaresConstant(ds, s) ELSE scope[s]]

\* A block is legal if its statements are, in the scope inside of it.
LEMMA LegalBlock ==
  ASSUME NEW n \in Trees, n.kind = "block", NEW scope, NEW arities
  PROVE  Legal(n, Trees, scope, arities) <=>
           /\ ~Redefines(n.declarations)
           /\ \A k \in 1 .. Len(n.statements) - 1 : ~IsReturning(n.statements[k])
           /\ \A k \in 1 .. Len(n.statements) :
                Legal(n.statements[k], Trees, Inside(scope, n.declarations), arities)
<1> DEFINE D == Demands(Trees)
           ds == n.declarations
           inner == DemandsOfAll(n.statements, D)
           inside == Inside(scope, ds)
           declared(d) == d.kind \in {"name", "variable"} /\ d.of \in Symbols(ds)
<1>1. D[n] = BlockDemands(n, inner, Returns(Trees))
  BY DemandsUnrolled, DemandsOfKind
<1>2. (\A k \in 1 .. Len(n.statements) : Legal(n.statements[k], Trees, inside, arities))
        <=> \A d \in inner : Met(d, inside, arities)
  BY DEF DemandsOfAll, Legal
<1>3. Legal(n, Trees, scope, arities) <=> \A d \in D[n] : Met(d, scope, arities)
  BY DEF Legal
<1> HIDE DEF D, inner
<1>4. ASSUME NEW d \in inner, ~declared(d)
      PROVE  Met(d, inside, arities) <=> Met(d, scope, arities)
  <2>1. CASE d.kind = "name"
    BY <1>4, <2>1 DEF Met, Inside
  <2>2. CASE d.kind = "variable"
    BY <1>4, <2>2 DEF Met, Inside
  <2>3. CASE d.kind \notin {"name", "variable"}
    BY <2>3 DEF Met
  <2> QED BY <2>1, <2>2, <2>3
<1>5. ASSUME NEW d \in inner, declared(d)
      PROVE  Met(d, inside, arities) <=> ~(d.kind = "variable" /\ DeclaresConstant(ds, d.of))
  <2>1. d.of \in DOMAIN inside /\ inside[d.of] = DeclaresConstant(ds, d.of)
    BY <1>5 DEF Inside
  <2>2. CASE d.kind = "name"
    BY <2>1, <2>2 DEF Met
  <2>3. CASE d.kind = "variable"
    BY <2>1, <2>3 DEF Met
  <2> QED BY <1>5, <2>2, <2>3
<1>6. ~Met(Impossible, scope, arities)
  BY DEF Met, Impossible
<1>7. (\A d \in D[n] : Met(d, scope, arities)) <=>
        /\ \A d \in inner : ~declared(d) => Met(d, scope, arities)
        /\ ~Redefines(ds)
        /\ \A k \in 1 .. Len(n.statements) - 1 : ~IsReturning(n.statements[k])
        /\ \A d \in inner : declared(d) => ~(d.kind = "variable" /\ DeclaresConstant(ds, d.of))
  <2>1. \A d : d \in D[n] <=>
          \/ d \in inner /\ ~declared(d)
          \/ /\ d = Impossible
             /\ \/ Redefines(ds)
                \/ \E k \in 1 .. Len(n.statements) - 1 : IsReturning(n.statements[k])
                \/ \E e \in inner : declared(e) /\ e.kind = "variable" /\ DeclaresConstant(ds, e.of)
    BY <1>1 DEF BlockDemands, IsReturning
  <2> HIDE DEF declared, ds
  <2> QED BY <1>6, <2>1
<1> HIDE DEF inside, declared, ds
<1> QED BY <1>2, <1>3, <1>4, <1>5, <1>7 DEF inside, ds

-----------------------------------------------------------------------------
(* The scopes of the contexts. *)

\* A set of numbers has a least one.
LEMMA LeastExists ==
  ASSUME NEW U, U \subseteq Nat, U # {}
  PROVE  \E n \in U : \A m \in U : n <= m
<1> DEFINE R == OpToRel(<, Nat)
<1>1. IsWellFoundedOn(R, Nat)
  BY NatLessThanWellFounded
<1>2. PICK n \in U : \A m \in U : <<m, n>> \notin R
  <2> HIDE DEF R
  <2> QED BY <1>1, WFMin
<1>3. \A m \in U : ~(m < n)
  BY <1>2 DEF OpToRel
<1> QED BY <1>3

\* A sequence, and the same with an element in front.
LEMMA TailOfPush ==
  ASSUME NEW s, IsSequence(s), NEW x
  PROVE  /\ IsSequence(<<x>> \o s) /\ Len(<<x>> \o s) = Len(s) + 1
         /\ (<<x>> \o s)[1] = x
         /\ \A k \in 2 .. Len(s) + 1 : (<<x>> \o s)[k] = s[k - 1]
         /\ Tail(<<x>> \o s) = s
<1> DEFINE A == {s[k] : k \in DOMAIN s} \cup {x}
           t == <<x>> \o s
<1>1. s \in Seq({s[k] : k \in DOMAIN s})
  BY DEF IsSequence
<1>2. s \in Seq(A) /\ x \in A
  BY <1>1, SequenceOfMore
<1> HIDE DEF A
<1>3. <<x>> \in Seq(A) /\ Len(<<x>>) = 1 /\ <<x>>[1] = x
  BY <1>2
<1>4. t \in Seq(A) /\ Len(t) = Len(s) + 1 /\ Len(s) \in Nat
  BY <1>2, <1>3
<1>5. \A k \in 1 .. Len(t) : t[k] = IF k = 1 THEN x ELSE s[k - 1]
  BY <1>2, <1>3, <1>4
<1>6. t # <<>>
  BY <1>4
<1> HIDE DEF t
<1>7. /\ Tail(t) \in Seq(A) /\ Len(Tail(t)) = Len(s)
      /\ \A k \in 1 .. Len(s) : Tail(t)[k] = t[k + 1]
  BY <1>4, <1>6
<1>8. \A k \in 1 .. Len(s) : Tail(t)[k] = s[k]
  <2> TAKE k \in 1 .. Len(s)
  <2>1. k + 1 \in 1 .. Len(t) /\ k + 1 # 1 /\ (k + 1) - 1 = k
    BY <1>4
  <2> QED BY <1>5, <1>7, <2>1
<1>9. Tail(t) = s
  BY <1>2, <1>7, <1>8
<1>10. IsSequence(t)
  BY <1>4, IsSequenceOf
<1>11. \A k \in 2 .. Len(s) + 1 : t[k] = s[k - 1]
  BY <1>4, <1>5
<1>12. t[1] = x
  BY <1>4, <1>5
<1> QED BY <1>4, <1>9, <1>10, <1>11, <1>12 DEF t

(* A context is entered, and left.                                         *)
LEMMA SeesPush ==
  ASSUME NEW scopes, NEW cs, Sees(scopes, cs), Len(cs) > 0, NEW g, NEW scope,
         DOMAIN scope = DOMAIN scopes[1] \cup DOMAIN g,
         \A s \in DOMAIN g : scope[s] <=> g[s].constant,
         \A s \in DOMAIN scopes[1] \ DOMAIN g : scope[s] <=> scopes[1][s]
  PROVE  Sees(<<scope>> \o scopes, <<g>> \o cs)
<1> DEFINE ds == <<g>> \o cs
           outs == <<scope>> \o scopes
<1>1. /\ IsSequence(scopes) /\ IsSequence(cs) /\ Len(scopes) = Len(cs) /\ Len(cs) \in Nat
      /\ \A k \in 1 .. Len(cs) :
           /\ DOMAIN scopes[k] = UNION {DOMAIN cs[j] : j \in k .. Len(cs)}
           /\ \A j \in k .. Len(cs) : \A s \in DOMAIN cs[j] :
                (\A i \in k .. j - 1 : s \notin DOMAIN cs[i]) =>
                  (scopes[k][s] <=> cs[j][s].constant)
  BY SequenceFacts DEF Sees
<1>2. /\ IsSequence(ds) /\ Len(ds) = Len(cs) + 1 /\ ds[1] = g
      /\ \A k \in 2 .. Len(cs) + 1 : ds[k] = cs[k - 1]
      /\ IsSequence(outs) /\ Len(outs) = Len(cs) + 1 /\ outs[1] = scope
      /\ \A k \in 2 .. Len(cs) + 1 : outs[k] = scopes[k - 1]
  <2>1. /\ IsSequence(ds) /\ Len(ds) = Len(cs) + 1 /\ ds[1] = g
        /\ \A k \in 2 .. Len(cs) + 1 : ds[k] = cs[k - 1]
    BY <1>1, TailOfPush, Zenon
  <2>2. /\ IsSequence(outs) /\ Len(outs) = Len(scopes) + 1 /\ outs[1] = scope
        /\ \A k \in 2 .. Len(scopes) + 1 : outs[k] = scopes[k - 1]
    <3>1. IsSequence(scopes)
      BY <1>1
    <3>2. IsSequence(<<scope>> \o scopes) /\ Len(<<scope>> \o scopes) = Len(scopes) + 1
      BY <3>1, TailOfPush
    <3>3. (<<scope>> \o scopes)[1] = scope
      BY <3>1, TailOfPush
    <3>4. \A k \in 2 .. Len(scopes) + 1 : (<<scope>> \o scopes)[k] = scopes[k - 1]
      BY <3>1, TailOfPush
    <3> QED BY <3>2, <3>3, <3>4
  <2> HIDE DEF ds, outs
  <2> QED BY <1>1, <2>1, <2>2
<1> HIDE DEF ds, outs
<1>3. ASSUME NEW k \in 2 .. Len(cs) + 1
      PROVE  /\ DOMAIN outs[k] = UNION {DOMAIN ds[j] : j \in k .. Len(ds)}
             /\ \A j \in k .. Len(ds) : \A s \in DOMAIN ds[j] :
                  (\A i \in k .. j - 1 : s \notin DOMAIN ds[i]) =>
                    (outs[k][s] <=> ds[j][s].constant)
  <2>1. k - 1 \in 1 .. Len(cs) /\ outs[k] = scopes[k - 1]
    BY <1>1, <1>2
  <2>2. DOMAIN scopes[k - 1] = UNION {DOMAIN cs[j] : j \in k - 1 .. Len(cs)}
    BY <1>1, <2>1
  <2>3. \A j \in k .. Len(ds) : j - 1 \in k - 1 .. Len(cs) /\ ds[j] = cs[j - 1]
    BY <1>1, <1>2
  <2>4. \A j \in k - 1 .. Len(cs) : j + 1 \in k .. Len(ds) /\ ds[j + 1] = cs[j]
    <3> TAKE j \in k - 1 .. Len(cs)
    <3>1. j + 1 \in 2 .. Len(cs) + 1 /\ (j + 1) - 1 = j /\ j + 1 \in k .. Len(ds)
      BY <1>1, <1>2
    <3> QED BY <1>2, <3>1
  <2>5. UNION {DOMAIN ds[j] : j \in k .. Len(ds)} = UNION {DOMAIN cs[j] : j \in k - 1 .. Len(cs)}
    <3>1. ASSUME NEW j \in k .. Len(ds), NEW s \in DOMAIN ds[j]
          PROVE  \E i \in k - 1 .. Len(cs) : s \in DOMAIN cs[i]
      BY <2>3
    <3>2. ASSUME NEW j \in k - 1 .. Len(cs), NEW s \in DOMAIN cs[j]
          PROVE  \E i \in k .. Len(ds) : s \in DOMAIN ds[i]
      BY <2>4
    <3> QED BY <3>1, <3>2
  <2>6. ASSUME NEW j \in k .. Len(ds), NEW s \in DOMAIN ds[j],
               \A i \in k .. j - 1 : s \notin DOMAIN ds[i]
        PROVE  outs[k][s] <=> ds[j][s].constant
    <3>1. \A i \in k - 1 .. (j - 1) - 1 : s \notin DOMAIN cs[i]
      <4> TAKE i \in k - 1 .. (j - 1) - 1
      <4>1. i \in k - 1 .. Len(cs) /\ i + 1 \in k .. j - 1
        BY <1>1, <1>2
      <4> QED BY <2>4, <2>6, <4>1
    <3>2. j - 1 \in k - 1 .. Len(cs) /\ ds[j] = cs[j - 1]
      BY <2>3
    <3> QED BY <1>1, <2>1, <3>1, <3>2
  <2> QED BY <2>1, <2>2, <2>5, <2>6
<1>4. DOMAIN outs[1] = UNION {DOMAIN ds[j] : j \in 1 .. Len(ds)}
  <2>1. DOMAIN outs[1] = DOMAIN g \cup UNION {DOMAIN cs[j] : j \in 1 .. Len(cs)}
    <3>1. 1 \in 1 .. Len(cs)
      BY <1>1
    <3> QED BY <1>1, <1>2, <3>1
  <2>2. ASSUME NEW s \in DOMAIN outs[1]
        PROVE  \E j \in 1 .. Len(ds) : s \in DOMAIN ds[j]
    <3>1. CASE s \in DOMAIN g
      BY <1>1, <1>2, <3>1
    <3>2. CASE s \notin DOMAIN g
      <4>1. PICK j \in 1 .. Len(cs) : s \in DOMAIN cs[j]
        BY <2>1, <3>2
      <4>2. j + 1 \in 2 .. Len(cs) + 1 /\ (j + 1) - 1 = j /\ j + 1 \in 1 .. Len(ds)
        BY <1>1, <1>2
      <4> QED BY <1>2, <4>1, <4>2
    <3> QED BY <3>1, <3>2
  <2>3. ASSUME NEW j \in 1 .. Len(ds), NEW s \in DOMAIN ds[j]
        PROVE  s \in DOMAIN outs[1]
    <3>1. CASE j = 1
      BY <1>2, <2>1, <3>1
    <3>2. CASE j # 1
      <4>1. j \in 2 .. Len(cs) + 1 /\ j - 1 \in 1 .. Len(cs)
        BY <1>1, <1>2, <3>2
      <4> QED BY <1>2, <2>1, <4>1
    <3> QED BY <3>1, <3>2
  <2> QED BY <2>2, <2>3
<1>5. ASSUME NEW j \in 1 .. Len(ds), NEW s \in DOMAIN ds[j],
             \A i \in 1 .. j - 1 : s \notin DOMAIN ds[i]
      PROVE  outs[1][s] <=> ds[j][s].constant
  <2>1. CASE j = 1
    BY <1>2, <2>1
  <2>2. CASE j # 1
    <3>1. j \in 2 .. Len(cs) + 1 /\ j - 1 \in 1 .. Len(cs) /\ 1 \in 1 .. j - 1 /\ 1 \in 1 .. Len(cs)
      BY <1>1, <1>2, <2>2
    <3>2. s \in DOMAIN cs[j - 1] /\ s \notin DOMAIN g
      BY <1>2, <1>5, <3>1
    <3>3. \A i \in 1 .. (j - 1) - 1 : s \notin DOMAIN cs[i]
      <4> TAKE i \in 1 .. (j - 1) - 1
      <4>1. i + 1 \in 2 .. Len(cs) + 1 /\ (i + 1) - 1 = i /\ i + 1 \in 1 .. j - 1
        BY <1>1, <3>1
      <4>2. ds[i + 1] = cs[i]
        BY <1>2, <4>1
      <4> QED BY <1>5, <4>1, <4>2
    <3>4. s \in DOMAIN scopes[1]
      BY <1>1, <3>1, <3>2
    <3>5. scopes[1][s] <=> cs[j - 1][s].constant
      BY <1>1, <3>1, <3>2, <3>3
    <3> QED BY <1>2, <3>1, <3>2, <3>4, <3>5
  <2> QED BY <2>1, <2>2
<1>6. ASSUME NEW k \in 1 .. Len(ds)
      PROVE  /\ DOMAIN outs[k] = UNION {DOMAIN ds[j] : j \in k .. Len(ds)}
             /\ \A j \in k .. Len(ds) : \A s \in DOMAIN ds[j] :
                  (\A i \in k .. j - 1 : s \notin DOMAIN ds[i]) =>
                    (outs[k][s] <=> ds[j][s].constant)
  <2>1. CASE k = 1
    BY <1>4, <1>5, <2>1
  <2>2. CASE k # 1
    <3>1. k \in 2 .. Len(cs) + 1
      BY <1>1, <1>2, <2>2
    <3> QED BY <1>3, <3>1
  <2> QED BY <2>1, <2>2
<1> QED BY <1>2, <1>6 DEF Sees, ds, outs

LEMMA SeesPop ==
  ASSUME NEW scopes, NEW cs, Sees(scopes, cs), Len(scopes) > 1
  PROVE  Sees(Tail(scopes), Tail(cs)) /\ Len(Tail(cs)) > 0
<1> DEFINE ds == Tail(cs)
           outs == Tail(scopes)
<1>1. /\ IsSequence(scopes) /\ IsSequence(cs) /\ Len(scopes) = Len(cs) /\ Len(cs) \in Nat
      /\ \A k \in 1 .. Len(cs) :
           /\ DOMAIN scopes[k] = UNION {DOMAIN cs[j] : j \in k .. Len(cs)}
           /\ \A j \in k .. Len(cs) : \A s \in DOMAIN cs[j] :
                (\A i \in k .. j - 1 : s \notin DOMAIN cs[i]) =>
                  (scopes[k][s] <=> cs[j][s].constant)
  BY SequenceFacts DEF Sees
<1>2. scopes # <<>> /\ cs # <<>>
  BY <1>1, ShortSequences
<1>3. /\ IsSequence(ds) /\ Len(ds) = Len(cs) - 1
      /\ \A k \in 1 .. Len(cs) - 1 : ds[k] = cs[k + 1]
  BY <1>1, <1>2, TailFacts
<1>4. /\ IsSequence(outs) /\ Len(outs) = Len(scopes) - 1
      /\ \A k \in 1 .. Len(scopes) - 1 : outs[k] = scopes[k + 1]
  BY <1>1, <1>2, TailFacts
<1> HIDE DEF ds, outs
<1>5. ASSUME NEW k \in 1 .. Len(ds)
      PROVE  /\ DOMAIN outs[k] = UNION {DOMAIN ds[j] : j \in k .. Len(ds)}
             /\ \A j \in k .. Len(ds) : \A s \in DOMAIN ds[j] :
                  (\A i \in k .. j - 1 : s \notin DOMAIN ds[i]) =>
                    (outs[k][s] <=> ds[j][s].constant)
  <2>1. k + 1 \in 1 .. Len(cs) /\ outs[k] = scopes[k + 1]
    BY <1>1, <1>3, <1>4
  <2>2. DOMAIN scopes[k + 1] = UNION {DOMAIN cs[j] : j \in k + 1 .. Len(cs)}
    BY <1>1, <2>1
  <2>3. \A j \in k .. Len(ds) : j + 1 \in k + 1 .. Len(cs) /\ ds[j] = cs[j + 1]
    BY <1>1, <1>3
  <2>4. \A j \in k + 1 .. Len(cs) : j - 1 \in k .. Len(ds) /\ ds[j - 1] = cs[j]
    <3> TAKE j \in k + 1 .. Len(cs)
    <3>1. j - 1 \in 1 .. Len(cs) - 1 /\ (j - 1) + 1 = j /\ j - 1 \in k .. Len(ds)
      BY <1>1, <1>3
    <3> QED BY <1>3, <3>1
  <2>5. UNION {DOMAIN ds[j] : j \in k .. Len(ds)} = UNION {DOMAIN cs[j] : j \in k + 1 .. Len(cs)}
    <3>1. ASSUME NEW j \in k .. Len(ds), NEW s \in DOMAIN ds[j]
          PROVE  \E i \in k + 1 .. Len(cs) : s \in DOMAIN cs[i]
      BY <2>3
    <3>2. ASSUME NEW j \in k + 1 .. Len(cs), NEW s \in DOMAIN cs[j]
          PROVE  \E i \in k .. Len(ds) : s \in DOMAIN ds[i]
      BY <2>4
    <3> QED BY <3>1, <3>2
  <2>6. ASSUME NEW j \in k .. Len(ds), NEW s \in DOMAIN ds[j],
               \A i \in k .. j - 1 : s \notin DOMAIN ds[i]
        PROVE  outs[k][s] <=> ds[j][s].constant
    <3>1. \A i \in k + 1 .. (j + 1) - 1 : s \notin DOMAIN cs[i]
      <4> TAKE i \in k + 1 .. (j + 1) - 1
      <4>1. i \in k + 1 .. Len(cs) /\ i - 1 \in k .. j - 1
        BY <1>1, <1>3
      <4> QED BY <2>4, <2>6, <4>1
    <3>2. j + 1 \in k + 1 .. Len(cs) /\ ds[j] = cs[j + 1]
      BY <2>3
    <3> QED BY <1>1, <2>1, <3>1, <3>2
  <2> QED BY <2>1, <2>2, <2>5, <2>6
<1>6. Len(ds) > 0 /\ Len(outs) = Len(ds)
  BY <1>1, <1>3, <1>4
<1> QED BY <1>3, <1>4, <1>5, <1>6 DEF Sees, ds, outs

(* BlockContext::get() finds a name in the scope of the innermost context. *)
LEMMA SeesLocation ==
  ASSUME NEW scopes, Sees(scopes, c), Len(c) > 0, NEW s
  PROVE  /\ Contexts(s) # {} <=> s \in DOMAIN scopes[1]
         /\ Contexts(s) # {} => (scopes[1][s] <=> Location(s).constant)
<1>1. /\ IsSequence(c) /\ Len(c) \in Nat /\ 1 \in 1 .. Len(c)
      /\ DOMAIN scopes[1] = UNION {DOMAIN c[j] : j \in 1 .. Len(c)}
      /\ \A j \in 1 .. Len(c) : \A t \in DOMAIN c[j] :
           (\A i \in 1 .. j - 1 : t \notin DOMAIN c[i]) => (scopes[1][t] <=> c[j][t].constant)
  BY SequenceFacts DEF Sees
<1>2. Contexts(s) # {} <=> s \in DOMAIN scopes[1]
  BY <1>1 DEF Contexts
<1>3. ASSUME Contexts(s) # {}
      PROVE  scopes[1][s] <=> Location(s).constant
  <2>1. PICK j \in Contexts(s) : \A i \in Contexts(s) : j <= i
    <3>1. Contexts(s) \subseteq Nat
      BY DEF Contexts
    <3> QED BY <1>3, <3>1, LeastExists
  <2>2. Min(Contexts(s)) = j
    BY <2>1 DEF Min, Contexts
  <2>3. j \in 1 .. Len(c) /\ s \in DOMAIN c[j] /\ Location(s) = c[j][s]
    BY <2>1, <2>2 DEF Contexts, Location
  <2>4. \A i \in 1 .. j - 1 : s \notin DOMAIN c[i]
    <3> SUFFICES ASSUME NEW i \in 1 .. j - 1, s \in DOMAIN c[i] PROVE FALSE
      OBVIOUS
    <3>1. i \in Contexts(s)
      BY <1>1, <2>3 DEF Contexts
    <3> QED BY <2>1, <2>3, <3>1
  <2> QED BY <1>1, <2>3, <2>4
<1> QED BY <1>2, <1>3

-----------------------------------------------------------------------------
(* How a step keeps the program legal. *)

(* The call on top of the stack, and what it finds.                        *)
LEMMA LegalTop ==
  ASSUME LegalInv, BlocksInv, status = "running", todo # <<>>,
         Top.at = "visit" => Top.node.kind # "module"
  PROVE  /\ \E v : StackLegal(v)
         /\ IsSequence(todo) /\ Len(todo) \in Nat \ {0} /\ Top = todo[1]
         /\ Len(c) > 0
         /\ \A k \in 1 .. Len(todo) : ~IsVisit(todo[k], {"module"})
<1>1. IsSequence(todo) /\ Len(todo) \in Nat \ {0} /\ Top = todo[1]
  BY TailFacts, SequenceFacts DEF BlocksInv, Top
<1>2. ~Unstarted
  <2> SUFFICES ASSUME Unstarted PROVE FALSE
    OBVIOUS
  <2>1. IsModule(module)
    BY GrammarAssumption DEF LegalInv
  <2>2. Top = Visit(module)
    BY ShortSequences DEF Unstarted, Top
  <2> QED BY <2>1, <2>2 DEF Visit, IsModule
<1> QED BY <1>1, <1>2 DEF LegalInv

(* A call that throws breaks a rule.                                       *)
LEMMA ThrowIsIllegal ==
  ASSUME LegalInv, BlocksInv, status = "running", todo # <<>>, Throw,
         NEW v, StackLegal(v), ~Accepts(Top, v[1])
  PROVE  LegalInv'
<1>1. 1 \in 1 .. Len(todo) /\ Top = todo[1]
  BY TailFacts, SequenceFacts DEF BlocksInv, Top
<1>2. ~LegalModule(module, Trees)
  BY <1>1 DEF StackLegal
<1>3. status' = "rejected" /\ module' = module
  BY DEF Throw
<1> QED BY <1>2, <1>3 DEF LegalInv, RejectsTheIllegal

(* The calls that follow from a call find what they left to each other,    *)
(* lead to where the call led, and accept what it accepted.                *)
LEMMA Advance ==
  ASSUME LegalInv, IsSequence(todo), todo # <<>>, status = "running",
         \A k \in 1 .. Len(todo) : ~IsVisit(todo[k], {"module"}),
         NEW calls, IsSequence(calls), Then(calls), Len(c') > 0,
         \A k \in 1 .. Len(calls) : ~IsVisit(calls[k], {"module"}),
         NEW v, StackLegal(v),
         NEW w, Finds(w[1])', w[Len(calls) + 1] = v[2],
         \A k \in 1 .. Len(calls) : Leads(calls[k], w[k], w[k + 1]),
         Accepts(Top, v[1]) <=> \A k \in 1 .. Len(calls) : Accepts(calls[k], w[k])
  PROVE  LegalInv'
<1> DEFINE m == Len(calls)
<1>0. PICK u : u = [k \in 1 .. m + Len(todo) |-> IF k <= m + 1 THEN w[k] ELSE v[k - m + 1]]
  OBVIOUS
<1>1. /\ IsSequence(todo)' /\ Len(todo) \in Nat \ {0} /\ m \in Nat /\ Top = todo[1]
      /\ Len(todo') = m + Len(todo) - 1
      /\ \A k \in 1 .. m : todo'[k] = calls[k]
      /\ \A k \in 2 .. Len(todo) : todo'[m + k - 1] = todo[k]
  BY Replaced DEF Then
<1>2. status' = status /\ module' = module
  BY DEF Then
<1>a. \A k \in 1 .. m : ~IsVisit(calls[k], {"module"}) /\ Leads(calls[k], w[k], w[k + 1])
  OBVIOUS
<1>b. Accepts(todo[1], v[1]) <=> \A k \in 1 .. m : Accepts(calls[k], w[k])
  BY <1>1
<1>c. w[m + 1] = v[2]
  OBVIOUS
<1> HIDE DEF m
<1>3. \A k \in 1 .. m + 1 : u[k] = w[k]
  BY <1>0, <1>1
<1>4. \A k \in 2 .. Len(todo) + 1 : u[m + k - 1] = v[k]
  <2> TAKE k \in 2 .. Len(todo) + 1
  <2>1. m + k - 1 \in 1 .. m + Len(todo) /\ (m + k - 1) - m + 1 = k
    BY <1>1
  <2>a. u[m + k - 1] = IF m + k - 1 <= m + 1 THEN w[m + k - 1] ELSE v[k]
    BY <1>0, <2>1
  <2>2. CASE k = 2
    <3>1. m + k - 1 = m + 1 /\ m + k - 1 <= m + 1
      BY <1>1, <2>2
    <3> QED BY <1>c, <2>a, <2>2, <3>1
  <2>3. CASE k # 2
    <3>1. ~(m + k - 1 <= m + 1)
      BY <1>1, <2>3
    <3> QED BY <2>a, <3>1
  <2> QED BY <2>2, <2>3
<1>5. ASSUME NEW k \in m + 1 .. Len(todo')
      PROVE  \E j \in 2 .. Len(todo) : /\ k = m + j - 1 /\ k + 1 = m + (j + 1) - 1
                                       /\ j + 1 \in 2 .. Len(todo) + 1
  <2>1. k - m + 1 \in 2 .. Len(todo)
    BY <1>1
  <2>2. k = m + (k - m + 1) - 1 /\ k + 1 = m + ((k - m + 1) + 1) - 1
    BY <1>1
  <2>3. (k - m + 1) + 1 \in 2 .. Len(todo) + 1
    BY <1>1
  <2> QED BY <2>1, <2>2, <2>3
<1>6. ASSUME NEW j \in 2 .. Len(todo)
      PROVE  /\ todo'[m + j - 1] = todo[j] /\ u[m + j - 1] = v[j]
             /\ u[m + (j + 1) - 1] = v[j + 1]
  <2>1. j \in 2 .. Len(todo) + 1 /\ j + 1 \in 2 .. Len(todo) + 1
    BY <1>1
  <2> QED BY <1>1, <1>4, <2>1
<1>7. ASSUME NEW k \in 1 .. m
      PROVE  todo'[k] = calls[k] /\ u[k] = w[k] /\ u[k + 1] = w[k + 1]
  <2>1. k \in 1 .. m + 1 /\ k + 1 \in 1 .. m + 1
    BY <1>1
  <2> QED BY <1>1, <1>3, <2>1
<1>8. \A k \in 1 .. Len(todo') : k \in 1 .. m \/ k \in m + 1 .. Len(todo')
  BY <1>1
<1>9. \A k \in 1 .. Len(todo') : ~IsVisit(todo'[k], {"module"}) /\ Leads(todo'[k], u[k], u[k + 1])
  <2> SUFFICES ASSUME NEW k \in 1 .. Len(todo')
               PROVE  ~IsVisit(todo'[k], {"module"}) /\ Leads(todo'[k], u[k], u[k + 1])
    OBVIOUS
  <2>1. CASE k \in 1 .. m
    BY <1>a, <1>7, <2>1
  <2>2. CASE k \in m + 1 .. Len(todo')
    <3>1. PICK j \in 2 .. Len(todo) : k = m + j - 1 /\ k + 1 = m + (j + 1) - 1
      BY <1>5, <2>2
    <3>2. j \in 1 .. Len(todo)
      OBVIOUS
    <3>3. ~IsVisit(todo[j], {"module"}) /\ Leads(todo[j], v[j], v[j + 1])
      BY <3>2 DEF StackLegal
    <3> QED BY <1>6, <3>1, <3>3
  <2> QED BY <1>8, <2>1, <2>2
<1>10. (\A k \in 1 .. Len(todo) : Accepts(todo[k], v[k]))
         <=> \A k \in 1 .. Len(todo') : Accepts(todo'[k], u[k])
  <2>1. ASSUME \A k \in 1 .. Len(todo) : Accepts(todo[k], v[k]), NEW k \in 1 .. Len(todo')
        PROVE  Accepts(todo'[k], u[k])
    <3>1. CASE k \in 1 .. m
      <4>1. 1 \in 1 .. Len(todo)
        BY <1>1
      <4> QED BY <1>b, <1>7, <2>1, <3>1, <4>1
    <3>2. CASE k \in m + 1 .. Len(todo')
      <4>1. PICK j \in 2 .. Len(todo) : k = m + j - 1
        BY <1>5, <3>2
      <4>2. j \in 1 .. Len(todo)
        OBVIOUS
      <4> QED BY <1>6, <2>1, <4>1, <4>2
    <3> QED BY <1>8, <3>1, <3>2
  <2>2. ASSUME \A k \in 1 .. Len(todo') : Accepts(todo'[k], u[k]), NEW j \in 1 .. Len(todo)
        PROVE  Accepts(todo[j], v[j])
    <3>1. CASE j = 1
      <4>1. \A k \in 1 .. m : k \in 1 .. Len(todo')
        BY <1>1
      <4> QED BY <1>b, <1>7, <2>2, <3>1, <4>1
    <3>2. CASE j # 1
      <4>1. j \in 2 .. Len(todo) /\ m + j - 1 \in 1 .. Len(todo')
        BY <1>1, <3>2
      <4> QED BY <1>6, <2>2, <4>1
    <3> QED BY <3>1, <3>2
  <2> QED BY <2>1, <2>2
<1>11. Finds(u[1])'
  <2>1. u[1] = w[1]
    BY <1>1, <1>3
  <2> QED BY <2>1
<1>12. StackLegal(u)'
  BY <1>2, <1>9, <1>10, <1>11 DEF StackLegal
<1> QED BY <1>2, <1>9, <1>12 DEF LegalInv, RejectsTheIllegal

(* What a step that starts with the call on top of the stack assumes.      *)
Calling(v) ==
  /\ LegalInv /\ BlocksInv /\ status = "running" /\ todo # <<>>
  /\ Top.at = "visit" => Top.node.kind # "module"
  /\ StackLegal(v)

\* The same for a call from which none, one, two or three follow.
LEMMA AdvanceNone ==
  ASSUME NEW v, Calling(v), Then(<<>>), Len(c') > 0, Finds(v[2])', Accepts(Top, v[1])
  PROVE  LegalInv'
<1>0. PICK calls : calls = <<>>
  OBVIOUS
<1>1. PICK w : w = <<v[2]>>
  OBVIOUS
<1>2. /\ IsSequence(calls) /\ Len(calls) = 0 /\ 1 .. Len(calls) = {} /\ Then(calls)
      /\ w[1] = v[2] /\ w[Len(calls) + 1] = v[2]
  BY <1>0, <1>1, ShortSequences
<1>3. Finds(w[1])'
  BY <1>2
<1>4. /\ IsSequence(todo) /\ \A k \in 1 .. Len(todo) : ~IsVisit(todo[k], {"module"})
      /\ LegalInv /\ todo # <<>> /\ status = "running" /\ StackLegal(v)
  BY LegalTop DEF Calling
<1> QED BY <1>2, <1>3, <1>4, Advance

LEMMA AdvanceOne ==
  ASSUME NEW v, Calling(v), NEW a, Then(<<a>>), Len(c') > 0, ~IsVisit(a, {"module"}),
         NEW x, Finds(x)', Leads(a, x, v[2]),
         Accepts(Top, v[1]) <=> Accepts(a, x)
  PROVE  LegalInv'
<1>0. PICK calls : calls = <<a>>
  OBVIOUS
<1>1. PICK w : w = <<x, v[2]>>
  OBVIOUS
<1>2. /\ IsSequence(calls) /\ Len(calls) = 1 /\ 1 .. Len(calls) = {1} /\ Then(calls)
      /\ w[1] = x /\ w[Len(calls) + 1] = v[2] /\ calls[1] = a /\ w[1 + 1] = v[2]
  BY <1>0, <1>1, ShortSequences
<1>3. Finds(w[1])'
  BY <1>2
<1>4. /\ IsSequence(todo) /\ \A k \in 1 .. Len(todo) : ~IsVisit(todo[k], {"module"})
      /\ LegalInv /\ todo # <<>> /\ status = "running" /\ StackLegal(v)
  BY LegalTop DEF Calling
<1>5. /\ \A k \in 1 .. Len(calls) : Leads(calls[k], w[k], w[k + 1])
      /\ \A k \in 1 .. Len(calls) : ~IsVisit(calls[k], {"module"})
      /\ Accepts(Top, v[1]) <=> \A k \in 1 .. Len(calls) : Accepts(calls[k], w[k])
  BY <1>2
<1> QED BY <1>2, <1>3, <1>4, <1>5, Advance

LEMMA AdvanceTwo ==
  ASSUME NEW v, Calling(v), NEW a, NEW b, Then(<<a, b>>), Len(c') > 0,
         ~IsVisit(a, {"module"}), ~IsVisit(b, {"module"}),
         NEW x, NEW y, Finds(x)', Leads(a, x, y), Leads(b, y, v[2]),
         Accepts(Top, v[1]) <=> Accepts(a, x) /\ Accepts(b, y)
  PROVE  LegalInv'
<1>0. PICK calls : calls = <<a, b>>
  OBVIOUS
<1>1. PICK w : w = <<x, y, v[2]>>
  OBVIOUS
<1>2. /\ IsSequence(calls) /\ Len(calls) = 2 /\ 1 .. Len(calls) = {1, 2} /\ Then(calls)
      /\ w[1] = x /\ w[2] = y /\ w[Len(calls) + 1] = v[2] /\ calls[1] = a /\ calls[2] = b
      /\ w[1 + 1] = y /\ w[2 + 1] = v[2]
  BY <1>0, <1>1, ShortSequences
<1>3. Finds(w[1])'
  BY <1>2
<1>4. /\ IsSequence(todo) /\ \A k \in 1 .. Len(todo) : ~IsVisit(todo[k], {"module"})
      /\ LegalInv /\ todo # <<>> /\ status = "running" /\ StackLegal(v)
  BY LegalTop DEF Calling
<1>5. /\ \A k \in 1 .. Len(calls) : Leads(calls[k], w[k], w[k + 1])
      /\ \A k \in 1 .. Len(calls) : ~IsVisit(calls[k], {"module"})
      /\ Accepts(Top, v[1]) <=> \A k \in 1 .. Len(calls) : Accepts(calls[k], w[k])
  BY <1>2
<1> QED BY <1>2, <1>3, <1>4, <1>5, Advance

LEMMA AdvanceThree ==
  ASSUME NEW v, Calling(v), NEW a, NEW b, NEW d, Then(<<a, b, d>>), Len(c') > 0,
         ~IsVisit(a, {"module"}), ~IsVisit(b, {"module"}), ~IsVisit(d, {"module"}),
         NEW x, NEW y, NEW z, Finds(x)', Leads(a, x, y), Leads(b, y, z), Leads(d, z, v[2]),
         Accepts(Top, v[1]) <=> Accepts(a, x) /\ Accepts(b, y) /\ Accepts(d, z)
  PROVE  LegalInv'
<1>0. PICK calls : calls = <<a, b, d>>
  OBVIOUS
<1>1. PICK w : w = <<x, y, z, v[2]>>
  OBVIOUS
<1>2. /\ IsSequence(calls) /\ Len(calls) = 3 /\ 1 .. Len(calls) = {1, 2, 3} /\ Then(calls)
      /\ w[1] = x /\ w[2] = y /\ w[3] = z /\ w[Len(calls) + 1] = v[2]
      /\ calls[1] = a /\ calls[2] = b /\ calls[3] = d
      /\ w[1 + 1] = y /\ w[2 + 1] = z /\ w[3 + 1] = v[2]
  BY <1>0, <1>1, ShortSequences
<1>3. Finds(w[1])'
  BY <1>2
<1>4. /\ IsSequence(todo) /\ \A k \in 1 .. Len(todo) : ~IsVisit(todo[k], {"module"})
      /\ LegalInv /\ todo # <<>> /\ status = "running" /\ StackLegal(v)
  BY LegalTop DEF Calling
<1>5. /\ \A k \in 1 .. Len(calls) : Leads(calls[k], w[k], w[k + 1])
      /\ \A k \in 1 .. Len(calls) : ~IsVisit(calls[k], {"module"})
      /\ Accepts(Top, v[1]) <=> \A k \in 1 .. Len(calls) : Accepts(calls[k], w[k])
  BY <1>2
<1> QED BY <1>2, <1>3, <1>4, <1>5, Advance

(* What the call on top of the stack finds.                                *)
LEMMA Found ==
  ASSUME NEW v, Calling(v)
  PROVE  /\ Finds(v[1]) /\ Leads(Top, v[1], v[2])
         /\ Len(c) > 0
         /\ v[1].open <=> bb # 0
         /\ v[1].arity = arity /\ Sees(v[1].scopes, c)
<1>1. /\ IsSequence(todo) /\ Len(todo) \in Nat \ {0} /\ Top = todo[1]
      /\ Len(c) > 0 /\ StackLegal(v)
  BY LegalTop DEF Calling
<1>2. 1 \in 1 .. Len(todo) /\ 1 + 1 = 2
  BY <1>1
<1>3. Leads(Top, v[1], v[2])
  BY <1>1, <1>2 DEF StackLegal
<1> QED BY <1>1, <1>3 DEF StackLegal, Finds

(* Where neither the scopes nor the functions change.                      *)
LEMMA FindsAlike ==
  ASSUME NEW x, NEW y, Finds(x), UNCHANGED <<arity, c>>, y.open <=> bb' # 0,
         y.scopes = x.scopes, y.arity = x.arity
  PROVE  Finds(y)'
BY DEF Finds, Sees

-----------------------------------------------------------------------------
(* The calls: what they accept, and where they lead. *)

\* A visit accepts legal nodes, and leaves bb open unless the node returns.
LEMMA VisitCalls ==
  ASSUME NEW call, call.at = "visit", call.node \in Trees, NEW v, NEW w
  PROVE  /\ Accepts(call, v) <=> LegalIn(call.node, v)
         /\ Leads(call, v, w) <=> /\ w.open <=> v.open /\ ~IsReturning(call.node)
                                  /\ w.scopes = v.scopes /\ w.arity = v.arity
         /\ ~IsVisit(call, {"module"})
<1>1. call.node.kind \notin {"module", "function"}
  BY Children
<1>2. ~IsVisit(call, {"module"}) /\ ~IsVisit(call, {"function"}) /\ ~IsVisit(call, {"module", "function"})
  BY <1>1 DEF IsVisit
<1>3. Accepts(call, v) <=> LegalIn(call.node, v)
  BY <1>2 DEF Accepts
<1>4. OpenAfter(call, v) <=> v.open /\ ~IsReturning(call.node)
  BY <1>2 DEF OpenAfter
<1> QED BY <1>2, <1>3, <1>4 DEF Leads

LEMMA ExpressionCalls ==
  ASSUME NEW n \in Expressions, NEW v
  PROVE  /\ Accepts(Visit(n), v) <=> LegalIn(n, v)
         /\ Leads(Visit(n), v, v) /\ ~IsVisit(Visit(n), {"module"})
<1>1. n \in Trees /\ Visit(n).at = "visit" /\ Visit(n).node = n
  BY DEF Trees, Visit
<1>2. ~IsReturning(n)
  BY <1>1, ReturningOfKind
<1> QED BY <1>1, <1>2, VisitCalls

LEMMA StatementCalls ==
  ASSUME NEW n \in Trees, NEW v, NEW w
  PROVE  /\ Accepts(Visit(n), v) <=> LegalIn(n, v)
         /\ Leads(Visit(n), v, w) <=> /\ w.open <=> v.open /\ ~IsReturning(n)
                                      /\ w.scopes = v.scopes /\ w.arity = v.arity
         /\ ~IsVisit(Visit(n), {"module"})
<1>1. Visit(n).at = "visit" /\ Visit(n).node = n
  BY DEF Visit
<1> QED BY <1>1, VisitCalls

(* A call that neither visits nor leaves a context nor starts main().      *)
LEMMA OtherCalls ==
  ASSUME NEW call, call.at \notin {"visit", "unroll", "main"}, NEW v, NEW w
  PROVE  /\ Leads(call, v, w) <=> /\ w.open <=> OpenAfter(call, v)
                                  /\ w.scopes = v.scopes /\ w.arity = v.arity
         /\ ~IsVisit(call, {"module"})
         /\ call.at \in {"finish", "write", "assign", "unary", "binaryLeft", "binary", "call", "argument"} =>
              (OpenAfter(call, v) <=> v.open)
         /\ call.at = "statement" => (OpenAfter(call, v) <=> v.open /\ ~IsReturning(call.node))
         /\ call.at = "return" => ~OpenAfter(call, v)
         /\ call.at = "ifCondition" =>
              (OpenAfter(call, v) <=> ~(IsReturning(call.node.trueCase) /\ IsReturning(call.node.falseCase)))
         /\ call.at = "ifTrue" => (OpenAfter(call, v) <=> v.open \/ ~IsReturning(call.node.falseCase))
         /\ call.at = "ifJoin" => (OpenAfter(call, v) <=> v.open \/ call.trueCase # 0)
         /\ call.at \in {"whileCondition", "whileBody"} => OpenAfter(call, v)
         /\ call.at \in {"finish", "write", "return", "unary", "binary", "ifJoin", "whileBody"} =>
              Accepts(call, v)
         /\ call.at = "statement" => (Accepts(call, v) <=> v.open /\ LegalIn(call.node, v))
         /\ call.at = "assign" =>
              (Accepts(call, v) <=> Met(NeedsVariable(call.symbol), v.scopes[1], v.arity))
         /\ call.at = "ifCondition" =>
              (Accepts(call, v) <=> LegalIn(call.node.trueCase, v) /\ LegalIn(call.node.falseCase, v))
         /\ call.at = "ifTrue" => (Accepts(call, v) <=> LegalIn(call.node.falseCase, v))
         /\ call.at = "whileCondition" => (Accepts(call, v) <=> LegalIn(call.body, v))
         /\ call.at = "binaryLeft" => (Accepts(call, v) <=> LegalIn(call.node.rhs, v))
         /\ call.at = "call" =>
              (Accepts(call, v) <=>
                 /\ \A k \in Len(call.args) + 1 .. Len(call.node.arguments) :
                      LegalIn(call.node.arguments[k], v)
                 /\ Met(NeedsFunction(call.node.function, Len(call.node.arguments)),
                        v.scopes[1], v.arity))
         /\ call.at = "argument" =>
              (Accepts(call, v) <=>
                 /\ \A k \in (Len(call.args) + 1) + 1 .. Len(call.node.arguments) :
                      LegalIn(call.node.arguments[k], v)
                 /\ Met(NeedsFunction(call.node.function, Len(call.node.arguments)),
                        v.scopes[1], v.arity))
<1>1. \A kinds : ~IsVisit(call, kinds)
  BY DEF IsVisit
<1>2. Leads(call, v, w) <=> /\ w.open <=> OpenAfter(call, v)
                            /\ w.scopes = v.scopes /\ w.arity = v.arity
  BY <1>1 DEF Leads
<1>3. CASE call.at \in {"call", "argument"}
  BY <1>1, <1>2, <1>3 DEF Accepts, OpenAfter
<1>4. CASE call.at \notin {"call", "argument"}
  <2>1. /\ call.at \in {"finish", "write", "assign", "unary", "binaryLeft", "binary"} =>
             (OpenAfter(call, v) <=> v.open)
        /\ call.at = "statement" => (OpenAfter(call, v) <=> v.open /\ ~IsReturning(call.node))
        /\ call.at = "return" => ~OpenAfter(call, v)
        /\ call.at = "ifCondition" =>
             (OpenAfter(call, v) <=> ~(IsReturning(call.node.trueCase) /\ IsReturning(call.node.falseCase)))
        /\ call.at = "ifTrue" => (OpenAfter(call, v) <=> v.open \/ ~IsReturning(call.node.falseCase))
        /\ call.at = "ifJoin" => (OpenAfter(call, v) <=> v.open \/ call.trueCase # 0)
        /\ call.at \in {"whileCondition", "whileBody"} => OpenAfter(call, v)
    BY <1>1 DEF OpenAfter
  <2>2. /\ call.at \in {"finish", "write", "return", "unary", "binary", "ifJoin", "whileBody"} =>
             Accepts(call, v)
        /\ call.at = "statement" => (Accepts(call, v) <=> v.open /\ LegalIn(call.node, v))
        /\ call.at = "assign" =>
             (Accepts(call, v) <=> Met(NeedsVariable(call.symbol), v.scopes[1], v.arity))
        /\ call.at = "ifCondition" =>
             (Accepts(call, v) <=> LegalIn(call.node.trueCase, v) /\ LegalIn(call.node.falseCase, v))
        /\ call.at = "ifTrue" => (Accepts(call, v) <=> LegalIn(call.node.falseCase, v))
        /\ call.at = "whileCondition" => (Accepts(call, v) <=> LegalIn(call.body, v))
        /\ call.at = "binaryLeft" => (Accepts(call, v) <=> LegalIn(call.node.rhs, v))
    BY <1>1 DEF Accepts
  <2> QED BY <1>1, <1>2, <1>4, <2>1, <2>2
<1> QED BY <1>3, <1>4

\* A call that builds without asking for nullptr finds an open block.
LEMMA FoundInside ==
  ASSUME NEW v, Calling(v), Top.at \notin {"finish", "unroll", "main"},
         Top.at = "visit" => Top.node.kind \notin {"module", "function"}
  PROVE  /\ Inner(Top) /\ (Builds(Top) => bb # 0 /\ v[1].open)
         /\ Top.at = "visit" => Top.node \in Trees
<1>1. Inner(Top) /\ (Builds(Top) => bb # 0)
  BY InsideBody DEF Calling
<1>2. Top.at = "visit" => Top.node \in Trees
  BY <1>1 DEF Inner, Trees
<1> QED BY <1>1, <1>2, Found

-----------------------------------------------------------------------------
(* What each call finds, and whether it throws. *)

\* There always is something the call on top of the stack finds.
LEMMA CallingExists ==
  ASSUME LegalInv, BlocksInv, status = "running", todo # <<>>,
         Top.at = "visit" => Top.node.kind # "module"
  PROVE  \E v : Calling(v)
BY LegalTop DEF Calling

(* A call that leaves bb as it finds it.                                   *)
LEMMA OpenCalls ==
  ASSUME NEW call, NEW v, NEW w,
         call.at \in {"finish", "write", "assign", "unary", "binaryLeft", "binary", "call", "argument"}
  PROVE  /\ Leads(call, v, w) <=> ((w.open <=> v.open) /\ w.scopes = v.scopes /\ w.arity = v.arity)
         /\ ~IsVisit(call, {"module"})
BY OtherCalls

(* An expression is visited, and another call follows.                     *)
LEMMA OperandStep ==
  ASSUME NEW v, Calling(v), NEW x \in Expressions, NEW b, Continue(<<Visit(x), b>>),
         ~IsVisit(b, {"module"}), Leads(b, v[1], v[2]),
         Accepts(Top, v[1]) <=> LegalIn(x, v[1]) /\ Accepts(b, v[1])
  PROVE  LegalInv'
<1>1. Finds(v[1])' /\ Len(c') > 0 /\ Then(<<Visit(x), b>>)
  <2>1. UNCHANGED <<arity, c, bb>> /\ Then(<<Visit(x), b>>)
    BY DEF Continue
  <2>2. Finds(v[1]) /\ Len(c) > 0 /\ (v[1].open <=> bb # 0)
    BY Found
  <2>3. Finds(v[1])'
    BY <2>1, <2>2, FindsAlike
  <2> QED BY <2>1, <2>2, <2>3
<1>2. /\ Accepts(Visit(x), v[1]) <=> LegalIn(x, v[1])
      /\ Leads(Visit(x), v[1], v[1]) /\ ~IsVisit(Visit(x), {"module"})
  BY ExpressionCalls
<1> QED BY <1>1, <1>2, AdvanceTwo

(* The calls of a node whose operands come first.                          *)
LEMMA OperandsLegal ==
  ASSUME LegalInv, BlocksInv, VisitOperand \/ VisitIf \/ VisitBinary
  PROVE  LegalInv'
<1> DEFINE n == Top.node
<1>1. /\ todo # <<>> /\ Top.at = "visit" /\ status = "running"
      /\ n.kind \in {"write", "return", "assignment", "unary", "if", "binary"}
  BY DEF VisitOperand, VisitIf, VisitBinary, Visiting, Running
<1>2. PICK v : Calling(v)
  BY <1>1, CallingExists
<1>3. n \in Trees /\ v[1].open /\ Leads(Top, v[1], v[2])
  <2>1. n \in Trees /\ (Builds(Top) => v[1].open)
    BY <1>1, <1>2, FoundInside
  <2>2. Builds(Top)
    BY <1>1 DEF Builds
  <2> QED BY <1>2, <2>1, <2>2, Found
<1>4. /\ Accepts(Top, v[1]) <=> LegalIn(n, v[1])
      /\ v[2].open <=> ~IsReturning(n)
      /\ v[2].scopes = v[1].scopes /\ v[2].arity = v[1].arity
  BY <1>1, <1>3, VisitCalls
<1>5. CASE n.kind = "write" /\ Continue(<<Visit(n.expression), [at |-> "write"]>>)
  <2>1. n.expression \in Expressions
    BY <1>3, <1>5, NodeFacts DEF Trees
  <2>2. LegalIn(n, v[1]) <=> LegalIn(n.expression, v[1])
    BY <1>3, <1>5, LegalOfKind DEF LegalIn
  <2>3. ~IsReturning(n)
    BY <1>3, <1>5, ReturningOfKind
  <2> DEFINE b == [at |-> "write"]
  <2>4. b.at = "write"
    OBVIOUS
  <2>5. Continue(<<Visit(n.expression), b>>)
    BY <1>5
  <2> HIDE DEF b
  <2>6. Leads(b, v[1], v[2]) /\ ~IsVisit(b, {"module"}) /\ Accepts(b, v[1])
    BY <1>3, <1>4, <2>3, <2>4, OtherCalls
  <2> QED BY <1>2, <1>4, <2>1, <2>2, <2>5, <2>6, OperandStep
<1>6. CASE n.kind = "return" /\ Continue(<<Visit(n.value), [at |-> "return"]>>)
  <2>1. n.value \in Expressions
    BY <1>3, <1>6, NodeFacts DEF Trees
  <2>2. LegalIn(n, v[1]) <=> LegalIn(n.value, v[1])
    BY <1>3, <1>6, LegalOfKind DEF LegalIn
  <2>3. IsReturning(n)
    BY <1>3, <1>6, ReturningOfKind
  <2> DEFINE b == [at |-> "return"]
  <2>4. b.at = "return"
    OBVIOUS
  <2>5. Continue(<<Visit(n.value), b>>)
    BY <1>6
  <2> HIDE DEF b
  <2>6. Leads(b, v[1], v[2]) /\ ~IsVisit(b, {"module"}) /\ Accepts(b, v[1])
    BY <1>3, <1>4, <2>3, <2>4, OtherCalls
  <2> QED BY <1>2, <1>4, <2>1, <2>2, <2>5, <2>6, OperandStep
<1>7. CASE n.kind = "assignment"
             /\ Continue(<<Visit(n.value), [at |-> "assign", symbol |-> n.symbol]>>)
  <2>1. n.value \in Expressions
    BY <1>3, <1>7, NodeFacts DEF Trees
  <2>2. LegalIn(n, v[1]) <=>
          LegalIn(n.value, v[1]) /\ Met(NeedsVariable(n.symbol), v[1].scopes[1], v[1].arity)
    BY <1>3, <1>7, LegalOfKind DEF LegalIn
  <2>3. ~IsReturning(n)
    BY <1>3, <1>7, ReturningOfKind
  <2> DEFINE b == [at |-> "assign", symbol |-> n.symbol]
  <2>4. b.at = "assign" /\ b.symbol = n.symbol
    OBVIOUS
  <2>5. Continue(<<Visit(n.value), b>>)
    BY <1>7
  <2> HIDE DEF b
  <2>6. /\ Leads(b, v[1], v[2]) /\ ~IsVisit(b, {"module"})
        /\ Accepts(b, v[1]) <=> Met(NeedsVariable(b.symbol), v[1].scopes[1], v[1].arity)
    BY <1>3, <1>4, <2>3, <2>4, OtherCalls
  <2> QED BY <1>2, <1>4, <2>1, <2>2, <2>4, <2>5, <2>6, OperandStep
<1>8. CASE n.kind = "unary"
             /\ Continue(<<Visit(n.operand), [at |-> "unary", negates |-> n.negates]>>)
  <2>1. n.operand \in Expressions
    BY <1>3, <1>8, NodeFacts DEF Trees
  <2>2. LegalIn(n, v[1]) <=> LegalIn(n.operand, v[1])
    BY <1>3, <1>8, LegalOfKind DEF LegalIn
  <2>3. ~IsReturning(n)
    BY <1>3, <1>8, ReturningOfKind
  <2> DEFINE b == [at |-> "unary", negates |-> n.negates]
  <2>4. b.at = "unary"
    OBVIOUS
  <2>5. Continue(<<Visit(n.operand), b>>)
    BY <1>8
  <2> HIDE DEF b
  <2>6. Leads(b, v[1], v[2]) /\ ~IsVisit(b, {"module"}) /\ Accepts(b, v[1])
    BY <1>3, <1>4, <2>3, <2>4, OtherCalls
  <2> QED BY <1>2, <1>4, <2>1, <2>2, <2>5, <2>6, OperandStep
<1>9. CASE n.kind = "if" /\ Continue(<<Visit(n.condition), [at |-> "ifCondition", node |-> n]>>)
  <2>1. n.condition \in Expressions
    BY <1>3, <1>9, NodeFacts DEF Trees
  <2>2. LegalIn(n, v[1]) <=>
          LegalIn(n.condition, v[1]) /\ LegalIn(n.trueCase, v[1]) /\ LegalIn(n.falseCase, v[1])
    BY <1>3, <1>9, LegalOfKind DEF LegalIn
  <2>3. IsReturning(n) <=> IsReturning(n.trueCase) /\ IsReturning(n.falseCase)
    BY <1>3, <1>9, ReturningOfKind
  <2> DEFINE b == [at |-> "ifCondition", node |-> n]
  <2>4. b.at = "ifCondition" /\ b.node = n
    OBVIOUS
  <2>5. Continue(<<Visit(n.condition), b>>)
    BY <1>9
  <2> HIDE DEF b
  <2>6. /\ Leads(b, v[1], v[2]) /\ ~IsVisit(b, {"module"})
        /\ Accepts(b, v[1]) <=> LegalIn(n.trueCase, v[1]) /\ LegalIn(n.falseCase, v[1])
    BY <1>3, <1>4, <2>3, <2>4, OtherCalls
  <2> QED BY <1>2, <1>4, <2>1, <2>2, <2>5, <2>6, OperandStep
<1>10. CASE n.kind = "binary" /\ Continue(<<Visit(n.lhs), [at |-> "binaryLeft", node |-> n]>>)
  <2>1. n.lhs \in Expressions
    BY <1>3, <1>10, NodeFacts DEF Trees
  <2>2. LegalIn(n, v[1]) <=> LegalIn(n.lhs, v[1]) /\ LegalIn(n.rhs, v[1])
    BY <1>3, <1>10, LegalOfKind DEF LegalIn
  <2>3. ~IsReturning(n)
    BY <1>3, <1>10, ReturningOfKind
  <2> DEFINE b == [at |-> "binaryLeft", node |-> n]
  <2>4. b.at = "binaryLeft" /\ b.node = n
    OBVIOUS
  <2>5. Continue(<<Visit(n.lhs), b>>)
    BY <1>10
  <2> HIDE DEF b
  <2>6. /\ Leads(b, v[1], v[2]) /\ ~IsVisit(b, {"module"})
        /\ Accepts(b, v[1]) <=> LegalIn(n.rhs, v[1])
    BY <1>3, <1>4, <2>3, <2>4, OtherCalls
  <2> QED BY <1>2, <1>4, <2>1, <2>2, <2>5, <2>6, OperandStep
<1> QED BY <1>5, <1>6, <1>7, <1>8, <1>9, <1>10 DEF VisitOperand, VisitIf, VisitBinary, Visiting

(* The other calls that only make calls.                                   *)
LEMMA BinaryLegal ==
  ASSUME LegalInv, BlocksInv, BinaryLeft
  PROVE  LegalInv'
<1>1. /\ todo # <<>> /\ Top.at = "binaryLeft" /\ status = "running"
      /\ Continue(<<Visit(Top.node.rhs), [at |-> "binary", lhsValue |-> result]>>)
  BY DEF BinaryLeft, Running
<1>2. PICK v : Calling(v)
  BY <1>1, CallingExists
<1>3. Leads(Top, v[1], v[2]) /\ Top.node.rhs \in Expressions
  <2>1. Inner(Top)
    BY <1>1, <1>2, FoundInside
  <2> QED BY <1>1, <1>2, <2>1, Found DEF Inner
<1> DEFINE b == [at |-> "binary", lhsValue |-> result]
<1>4. b.at = "binary"
  OBVIOUS
<1>5. Continue(<<Visit(Top.node.rhs), b>>)
  BY <1>1
<1>6. PICK a : a = b
  OBVIOUS
<1> HIDE DEF b
<1>7. (v[2].open <=> v[1].open) /\ v[2].scopes = v[1].scopes /\ v[2].arity = v[1].arity
  BY <1>1, <1>3, OpenCalls
<1>8. Leads(a, v[1], v[2]) /\ ~IsVisit(a, {"module"})
  BY <1>4, <1>6, <1>7, OpenCalls
<1>9. Accepts(Top, v[1]) <=> LegalIn(Top.node.rhs, v[1])
  BY <1>1, OtherCalls
<1>10. Accepts(a, v[1])
  BY <1>4, <1>6, OtherCalls
<1> QED BY <1>2, <1>3, <1>5, <1>6, <1>8, <1>9, <1>10, OperandStep

(* A call that makes one other call, which finds the same.                 *)
LEMMA OneStep ==
  ASSUME NEW v, Calling(v), NEW a, Continue(<<a>>), ~IsVisit(a, {"module"}), Leads(a, v[1], v[2]),
         Accepts(Top, v[1]) <=> Accepts(a, v[1])
  PROVE  LegalInv'
<1>1. UNCHANGED <<arity, c, bb>> /\ Then(<<a>>)
  BY DEF Continue
<1>2. Finds(v[1]) /\ Len(c) > 0 /\ (v[1].open <=> bb # 0)
  BY Found
<1>3. Finds(v[1])'
  BY <1>1, <1>2, FindsAlike
<1> QED BY <1>1, <1>2, <1>3, AdvanceOne

\* The arguments of a call, one after the other.
LEMMA ArgumentsLegal ==
  ASSUME LegalInv, BlocksInv, VisitCall \/ CallArgument \/ ArgumentValue
  PROVE  LegalInv'
<1> DEFINE n == Top.node
           of(l) == [at |-> "call", node |-> n, args |-> l]
<1>1. /\ todo # <<>> /\ status = "running"
      /\ VisitCall => Top.at = "visit" /\ n.kind = "call" /\ Continue(<<of(<<>>)>>)
      /\ CallArgument => /\ Top.at = "call" /\ Len(Top.args) < Len(n.arguments)
                         /\ Continue(<<Visit(n.arguments[Len(Top.args) + 1]),
                                       [at |-> "argument", node |-> n, args |-> Top.args]>>)
      /\ ArgumentValue => Top.at = "argument" /\ Continue(<<of(Append(Top.args, result))>>)
  BY DEF VisitCall, CallArgument, ArgumentValue, Visiting, Running
<1>2. PICK v : Calling(v)
  BY <1>1, CallingExists
<1>3. Leads(Top, v[1], v[2])
  BY <1>2, Found
<1>4. CASE VisitCall
  <2>1. n \in Trees /\ v[1].open
    <3>1. Builds(Top)
      BY <1>1, <1>4 DEF Builds
    <3> QED BY <1>1, <1>2, <1>4, <3>1, FoundInside
  <2>2. /\ Accepts(Top, v[1]) <=> LegalIn(n, v[1])
        /\ v[2].open <=> v[1].open /\ ~IsReturning(n)
        /\ v[2].scopes = v[1].scopes /\ v[2].arity = v[1].arity
    BY <1>1, <1>3, <1>4, <2>1, VisitCalls
  <2>3. ~IsReturning(n)
    BY <1>1, <1>4, <2>1, ReturningOfKind
  <2>4. LegalIn(n, v[1]) <=>
          /\ \A k \in 1 .. Len(n.arguments) : LegalIn(n.arguments[k], v[1])
          /\ Met(NeedsFunction(n.function, Len(n.arguments)), v[1].scopes[1], v[1].arity)
    BY <1>1, <1>4, <2>1, LegalOfKind DEF LegalIn
  <2>5. PICK a : a = of(<<>>)
    OBVIOUS
  <2>6. a.at = "call" /\ a.node = n /\ Len(a.args) + 1 = 1
    BY <2>5, ShortSequences
  <2>7. Continue(<<a>>)
    BY <1>1, <1>4, <2>5
  <2>8. Accepts(a, v[1]) <=>
          /\ \A k \in Len(a.args) + 1 .. Len(a.node.arguments) : LegalIn(a.node.arguments[k], v[1])
          /\ Met(NeedsFunction(a.node.function, Len(a.node.arguments)), v[1].scopes[1], v[1].arity)
    BY <2>6, OtherCalls
  <2>9. Leads(a, v[1], v[2]) /\ ~IsVisit(a, {"module"})
    BY <2>1, <2>2, <2>3, <2>6, OpenCalls
  <2>10. Accepts(Top, v[1]) <=> Accepts(a, v[1])
    BY <2>2, <2>4, <2>6, <2>8
  <2> QED BY <1>2, <2>7, <2>9, <2>10, OneStep
<1>5. CASE CallArgument
  <2>1. IsSequence(Top.args) /\ ListOf(n.arguments, Expressions) /\ Len(Top.args) \in Nat
    BY <1>1, <1>2, <1>5, FoundInside, SequenceFacts DEF Inner
  <2>2. PICK i \in Nat : i = Len(Top.args)
    BY <2>1
  <2>3. PICK x \in Expressions : x = n.arguments[i + 1]
    BY <1>1, <1>5, <2>1, <2>2 DEF ListOf
  <2>4. PICK b : b = [at |-> "argument", node |-> n, args |-> Top.args]
    OBVIOUS
  <2>5. b.at = "argument" /\ b.node = n /\ b.args = Top.args
    BY <2>4
  <2>6. Continue(<<Visit(x), b>>)
    BY <1>1, <1>5, <2>2, <2>3, <2>4
  <2>7. Accepts(Top, v[1]) <=>
          /\ \A k \in i + 1 .. Len(n.arguments) : LegalIn(n.arguments[k], v[1])
          /\ Met(NeedsFunction(n.function, Len(n.arguments)), v[1].scopes[1], v[1].arity)
    BY <1>1, <1>5, <2>2, OtherCalls
  <2>8. Accepts(b, v[1]) <=>
          /\ \A k \in (Len(b.args) + 1) + 1 .. Len(b.node.arguments) : LegalIn(b.node.arguments[k], v[1])
          /\ Met(NeedsFunction(b.node.function, Len(b.node.arguments)), v[1].scopes[1], v[1].arity)
    BY <2>5, OtherCalls
  <2>9. (\A k \in i + 1 .. Len(n.arguments) : LegalIn(n.arguments[k], v[1])) <=>
           /\ LegalIn(x, v[1])
           /\ \A k \in (i + 1) + 1 .. Len(n.arguments) : LegalIn(n.arguments[k], v[1])
    <3>1. \A k \in i + 1 .. Len(n.arguments) : k = i + 1 \/ k \in (i + 1) + 1 .. Len(n.arguments)
      BY <2>1, <2>2 DEF ListOf
    <3>2. /\ i + 1 \in i + 1 .. Len(n.arguments)
          /\ \A k \in (i + 1) + 1 .. Len(n.arguments) : k \in i + 1 .. Len(n.arguments)
      BY <1>1, <1>5, <2>1, <2>2 DEF ListOf
    <3> QED BY <2>3, <3>1, <3>2
  <2>10. Accepts(Top, v[1]) <=> LegalIn(x, v[1]) /\ Accepts(b, v[1])
    BY <2>2, <2>5, <2>7, <2>8, <2>9
  <2>11. (v[2].open <=> v[1].open) /\ v[2].scopes = v[1].scopes /\ v[2].arity = v[1].arity
    BY <1>1, <1>3, <1>5, OpenCalls
  <2>12. Leads(b, v[1], v[2]) /\ ~IsVisit(b, {"module"})
    BY <2>5, <2>11, OpenCalls
  <2> QED BY <1>2, <2>6, <2>10, <2>12, OperandStep
<1>6. CASE ArgumentValue
  <2>1. IsSequence(Top.args)
    BY <1>1, <1>2, <1>6, FoundInside DEF Inner
  <2>2. PICK a : a = of(Append(Top.args, result))
    OBVIOUS
  <2>3. a.at = "call" /\ a.node = n /\ a.args = Append(Top.args, result)
    BY <2>2
  <2>4. Len(a.args) = Len(Top.args) + 1
    <3>1. Top.args \in Seq({Top.args[k] : k \in DOMAIN Top.args} \cup {result})
      BY <2>1, SequenceOfMore DEF IsSequence
    <3> QED BY <2>3, <3>1
  <2>5. Continue(<<a>>)
    BY <1>1, <1>6, <2>2
  <2>6. Accepts(Top, v[1]) <=>
          /\ \A k \in (Len(Top.args) + 1) + 1 .. Len(n.arguments) : LegalIn(n.arguments[k], v[1])
          /\ Met(NeedsFunction(n.function, Len(n.arguments)), v[1].scopes[1], v[1].arity)
    BY <1>1, <1>6, OtherCalls
  <2>7. Accepts(a, v[1]) <=>
          /\ \A k \in Len(a.args) + 1 .. Len(a.node.arguments) : LegalIn(a.node.arguments[k], v[1])
          /\ Met(NeedsFunction(a.node.function, Len(a.node.arguments)), v[1].scopes[1], v[1].arity)
    BY <2>3, OtherCalls
  <2>8. (v[2].open <=> v[1].open) /\ v[2].scopes = v[1].scopes /\ v[2].arity = v[1].arity
    BY <1>1, <1>3, <1>6, OpenCalls
  <2>9. Leads(a, v[1], v[2]) /\ ~IsVisit(a, {"module"})
    BY <2>3, <2>8, OpenCalls
  <2>10. Accepts(Top, v[1]) <=> Accepts(a, v[1])
    BY <2>3, <2>4, <2>6, <2>7
  <2> QED BY <1>2, <2>5, <2>9, <2>10, OneStep
<1> QED BY <1>4, <1>5, <1>6

\* A statement of a block is visited in an open block or throws.
LEMMA StatementLegal ==
  ASSUME LegalInv, BlocksInv, VisitStatement
  PROVE  LegalInv'
<1>1. /\ todo # <<>> /\ status = "running" /\ Top.at = "statement"
      /\ IF bb = 0 THEN Throw ELSE Continue(<<Visit(Top.node)>>)
  BY DEF VisitStatement, Running
<1>2. PICK v : Calling(v)
  BY <1>1, CallingExists
<1>3. PICK n \in Trees : n = Top.node
  <2>1. Inner(Top)
    BY <1>1, <1>2, FoundInside
  <2> QED BY <1>1, <2>1 DEF Inner, Trees
<1>4. /\ Leads(Top, v[1], v[2]) /\ (v[1].open <=> bb # 0)
      /\ StackLegal(v)
  BY <1>2, Found DEF Calling
<1>5. /\ Accepts(Top, v[1]) <=> v[1].open /\ LegalIn(n, v[1])
      /\ OpenAfter(Top, v[1]) <=> v[1].open /\ ~IsReturning(n)
  BY <1>1, <1>3, OtherCalls
<1>6. (v[2].open <=> OpenAfter(Top, v[1])) /\ v[2].scopes = v[1].scopes /\ v[2].arity = v[1].arity
  BY <1>1, <1>4, OtherCalls
<1>7. CASE bb = 0
  BY <1>1, <1>4, <1>5, <1>7, ThrowIsIllegal
<1>8. CASE bb # 0
  <2>1. PICK a : a = Visit(n)
    OBVIOUS
  <2>2. Continue(<<a>>)
    BY <1>1, <1>3, <1>8, <2>1
  <2>3. (Accepts(a, v[1]) <=> LegalIn(n, v[1])) /\ Leads(a, v[1], v[2]) /\ ~IsVisit(a, {"module"})
    BY <1>3, <1>5, <1>6, <2>1, StatementCalls
  <2>4. Accepts(Top, v[1]) <=> Accepts(a, v[1])
    BY <1>4, <1>5, <1>8, <2>3
  <2> QED BY <1>2, <2>2, <2>3, <2>4, OneStep
<1> QED BY <1>7, <1>8

(* A call that makes no other and leaves the contexts and functions alone. *)
LEMMA NoneStep ==
  ASSUME NEW v, Calling(v), Then(<<>>), UNCHANGED <<arity, c>>, Accepts(Top, v[1]),
         v[2].open <=> bb' # 0, v[2].scopes = v[1].scopes, v[2].arity = v[1].arity
  PROVE  LegalInv'
<1>1. Finds(v[1]) /\ Len(c) > 0
  BY Found
<1>2. Finds(v[2])'
  BY <1>1, FindsAlike
<1> QED BY <1>1, <1>2, AdvanceNone

\* Which demands are met, kind by kind.
LEMMA MetOfKind ==
  ASSUME NEW scope, NEW arities, NEW s, NEW k
  PROVE  /\ Met(NeedsName(s), scope, arities) <=> s \in DOMAIN scope
         /\ Met(NeedsVariable(s), scope, arities) <=> s \in DOMAIN scope /\ ~scope[s]
         /\ Met(NeedsFunction(s, k), scope, arities) <=> s \in DOMAIN arities /\ arities[s] = k
BY DEF Met, NeedsName, NeedsVariable, NeedsFunction

\* The names in scope are those some context has.
LEMMA SeesNames ==
  ASSUME NEW scopes, Sees(scopes, c), Len(c) > 0, NEW s, NEW arities
  PROVE  /\ Met(NeedsName(s), scopes[1], arities) <=> Contexts(s) # {}
         /\ Met(NeedsVariable(s), scopes[1], arities) <=> Assignable(s)
<1>1. /\ Contexts(s) # {} <=> s \in DOMAIN scopes[1]
      /\ Contexts(s) # {} => (scopes[1][s] <=> Location(s).constant)
  BY SeesLocation
<1>2. /\ Met(NeedsName(s), scopes[1], arities) <=> s \in DOMAIN scopes[1]
      /\ Met(NeedsVariable(s), scopes[1], arities) <=> s \in DOMAIN scopes[1] /\ ~scopes[1][s]
  BY MetOfKind
<1>3. Assignable(s) <=> Contexts(s) # {} /\ ~Location(s).constant
  BY DEF Assignable
<1> QED BY <1>1, <1>2, <1>3

(* The rest of the calls that only append instructions.                    *)
LEMMA AppendLegal ==
  ASSUME LegalInv, BlocksInv, Unary \/ Binary \/ Write \/ FinishBody \/ Return
  PROVE  LegalInv'
<1>1. /\ todo # <<>> /\ status = "running" /\ UNCHANGED <<arity, c>> /\ Then(<<>>)
      /\ Top.at \in {"unary", "binary", "write", "finish", "return"}
      /\ Top.at = "return" => bb' = 0
      /\ Top.at # "return" => bb' = bb
  BY DEF Unary, Binary, Write, FinishBody, Return, Running, Emit, Continue
<1>2. PICK v : Calling(v)
  BY <1>1, CallingExists
<1>3. Leads(Top, v[1], v[2]) /\ (v[1].open <=> bb # 0)
  BY <1>2, Found
<1>4. /\ v[2].open <=> OpenAfter(Top, v[1])
      /\ v[2].scopes = v[1].scopes /\ v[2].arity = v[1].arity
  BY <1>1, <1>3, OtherCalls
<1>5. Accepts(Top, v[1])
  BY <1>1, OtherCalls
<1>6. CASE Top.at = "return"
  <2>1. ~OpenAfter(Top, v[1])
    BY <1>6, OtherCalls
  <2> QED BY <1>1, <1>2, <1>4, <1>5, <1>6, <2>1, NoneStep
<1>7. CASE Top.at # "return"
  <2>1. OpenAfter(Top, v[1]) <=> v[1].open
    BY <1>1, <1>7, OtherCalls
  <2> QED BY <1>1, <1>2, <1>3, <1>4, <1>5, <1>7, <2>1, NoneStep
<1> QED BY <1>6, <1>7

\* The nodes without children.
LEMMA LeafLegal ==
  ASSUME LegalInv, BlocksInv, VisitNumber \/ VisitVariable \/ VisitRead
  PROVE  LegalInv'
<1> DEFINE s == Top.node.symbol
<1>1. /\ todo # <<>> /\ status = "running" /\ Top.at = "visit"
      /\ VisitNumber => Top.node.kind = "number"
      /\ VisitVariable => Top.node.kind = "variable"
      /\ VisitRead => Top.node.kind = "read"
  BY DEF VisitNumber, VisitVariable, VisitRead, Visiting, Running
<1>2. PICK v : Calling(v)
  BY <1>1, CallingExists
<1>3. PICK n \in Trees : n = Top.node
  BY <1>1, <1>2, FoundInside
<1>4. /\ Leads(Top, v[1], v[2]) /\ (v[1].open <=> bb # 0) /\ v[1].open
      /\ StackLegal(v) /\ Sees(v[1].scopes, c) /\ Len(c) > 0
  <2>1. Builds(Top)
    BY <1>1 DEF Builds
  <2> QED BY <1>1, <1>2, <2>1, Found, FoundInside DEF Calling
<1>5. n.kind \in {"number", "variable", "read"}
  BY <1>1, <1>3
<1>6. ~IsReturning(n)
  BY <1>5, ReturningOfKind
<1>7. /\ Accepts(Top, v[1]) <=> LegalIn(n, v[1])
      /\ v[2].open <=> v[1].open
      /\ v[2].scopes = v[1].scopes /\ v[2].arity = v[1].arity
  BY <1>1, <1>3, <1>4, <1>6, VisitCalls
<1>8. ASSUME Then(<<>>), UNCHANGED <<arity, c, bb>>, LegalIn(n, v[1])
      PROVE  LegalInv'
  <2>1. v[2].open <=> bb' # 0
    BY <1>4, <1>7, <1>8
  <2> QED BY <1>2, <1>7, <1>8, <2>1, NoneStep
<1>9. ASSUME Throw, ~LegalIn(n, v[1])
      PROVE  LegalInv'
  BY <1>1, <1>4, <1>7, <1>9, ThrowIsIllegal
<1>10. CASE VisitNumber
  <2>1. LegalIn(n, v[1])
    BY <1>1, <1>3, <1>10, LegalOfKind DEF LegalIn
  <2>2. Then(<<>>) /\ UNCHANGED <<arity, c, bb>>
    BY <1>10 DEF VisitNumber, Emit
  <2> QED BY <1>8, <2>1, <2>2
<1>11. CASE VisitVariable
  <2>1. LegalIn(n, v[1]) <=> Met(NeedsName(n.symbol), v[1].scopes[1], v[1].arity)
    BY <1>1, <1>3, <1>11, LegalOfKind DEF LegalIn
  <2>2. LegalIn(n, v[1]) <=> Contexts(s) # {}
    BY <1>3, <1>4, <2>1, SeesNames
  <2>3. CASE Contexts(s) = {}
    <3>1. Throw
      BY <1>11, <2>3 DEF VisitVariable
    <3> QED BY <1>9, <2>2, <2>3, <3>1
  <2>4. CASE Contexts(s) # {}
    <3>1. Then(<<>>) /\ UNCHANGED <<arity, c, bb>>
      BY <1>11, <2>4 DEF VisitVariable, Emit
    <3> QED BY <1>8, <2>2, <2>4, <3>1
  <2> QED BY <2>3, <2>4
<1>12. CASE VisitRead
  <2>1. LegalIn(n, v[1]) <=> Met(NeedsVariable(n.symbol), v[1].scopes[1], v[1].arity)
    BY <1>1, <1>3, <1>12, LegalOfKind DEF LegalIn
  <2>2. LegalIn(n, v[1]) <=> Assignable(s)
    BY <1>3, <1>4, <2>1, SeesNames
  <2>3. CASE ~Assignable(s)
    <3>1. Throw
      BY <1>12, <2>3 DEF VisitRead
    <3> QED BY <1>9, <2>2, <2>3, <3>1
  <2>4. CASE Assignable(s)
    <3>1. Then(<<>>) /\ UNCHANGED <<arity, c, bb>>
      BY <1>12, <2>4 DEF VisitRead, Emit
    <3> QED BY <1>8, <2>2, <2>4, <3>1
  <2> QED BY <2>3, <2>4
<1> QED BY <1>10, <1>11, <1>12

(* The ends of an assignment and of a call, which check what they name.    *)
LEMMA CheckedLegal ==
  ASSUME LegalInv, BlocksInv, Assign \/ Call
  PROVE  LegalInv'
<1>1. /\ todo # <<>> /\ status = "running" /\ Top.at \in {"assign", "call"}
      /\ Assign => Top.at = "assign"
      /\ Call => Top.at = "call"
  BY DEF Assign, Call, Running
<1>2. PICK v : Calling(v)
  BY <1>1, CallingExists
<1>3. /\ Leads(Top, v[1], v[2]) /\ (v[1].open <=> bb # 0) /\ v[1].arity = arity
      /\ StackLegal(v) /\ Sees(v[1].scopes, c) /\ Len(c) > 0
  BY <1>2, Found DEF Calling
<1>4. (v[2].open <=> v[1].open) /\ v[2].scopes = v[1].scopes /\ v[2].arity = v[1].arity
  BY <1>1, <1>3, OpenCalls
<1>5. ASSUME Then(<<>>), UNCHANGED <<arity, c, bb>>, Accepts(Top, v[1])
      PROVE  LegalInv'
  <2>1. v[2].open <=> bb' # 0
    BY <1>3, <1>4, <1>5
  <2> QED BY <1>2, <1>4, <1>5, <2>1, NoneStep
<1>6. ASSUME Throw, ~Accepts(Top, v[1])
      PROVE  LegalInv'
  BY <1>1, <1>3, <1>6, ThrowIsIllegal
<1>7. CASE Assign
  <2> DEFINE s == Top.symbol
  <2>1. Accepts(Top, v[1]) <=> Met(NeedsVariable(s), v[1].scopes[1], v[1].arity)
    BY <1>1, <1>7, OtherCalls
  <2>3. Accepts(Top, v[1]) <=> Assignable(s)
    BY <1>3, <2>1, SeesNames
  <2>4. CASE ~Assignable(s)
    <3>1. Throw
      BY <1>7, <2>4 DEF Assign
    <3> QED BY <1>6, <2>3, <2>4, <3>1
  <2>5. CASE Assignable(s)
    <3>1. Then(<<>>) /\ UNCHANGED <<arity, c, bb>>
      BY <1>7, <2>5 DEF Assign, Emit
    <3> QED BY <1>5, <2>3, <2>5, <3>1
  <2> QED BY <2>4, <2>5
<1>8. CASE Call
  <2> DEFINE n == Top.node
  <2>1. Len(Top.args) = Len(n.arguments) /\ Len(n.arguments) \in Nat
    <3>1. Inner(Top)
      BY <1>1, <1>2, FoundInside
    <3> QED BY <1>1, <1>8, <3>1 DEF Inner, ListOf, Call
  <2>2. Accepts(Top, v[1]) <=>
          /\ \A k \in Len(Top.args) + 1 .. Len(n.arguments) : LegalIn(n.arguments[k], v[1])
          /\ Met(NeedsFunction(n.function, Len(n.arguments)), v[1].scopes[1], v[1].arity)
    BY <1>1, <1>8, OtherCalls
  <2>3. Len(Top.args) + 1 .. Len(n.arguments) = {}
    BY <2>1
  <2>4. Accepts(Top, v[1]) <=> n.function \in DOMAIN arity /\ arity[n.function] = Len(n.arguments)
    BY <1>3, <2>2, <2>3, MetOfKind
  <2>5. CASE ~Accepts(Top, v[1])
    <3>1. Throw
      BY <1>8, <2>1, <2>4, <2>5 DEF Call
    <3> QED BY <1>6, <2>5, <3>1
  <2>6. CASE Accepts(Top, v[1])
    <3>1. Then(<<>>) /\ UNCHANGED <<arity, c, bb>>
      BY <1>8, <2>1, <2>4, <2>6 DEF Call, Emit
    <3> QED BY <1>5, <2>6, <3>1
  <2> QED BY <2>5, <2>6
<1> QED BY <1>7, <1>8

-----------------------------------------------------------------------------
(* The calls of if and while, which enter new blocks. *)

\* A call that makes two others.
LEMMA TwoStep ==
  ASSUME NEW v, Calling(v), NEW a, NEW b, Then(<<a, b>>), UNCHANGED <<arity, c>>,
         ~IsVisit(a, {"module"}), ~IsVisit(b, {"module"}),
         NEW x, NEW y, x.open <=> bb' # 0, x.scopes = v[1].scopes, x.arity = v[1].arity,
         Leads(a, x, y), Leads(b, y, v[2]),
         Accepts(Top, v[1]) <=> Accepts(a, x) /\ Accepts(b, y)
  PROVE  LegalInv'
<1>1. Finds(v[1]) /\ Len(c) > 0
  BY Found
<1>2. Finds(x)'
  BY <1>1, FindsAlike
<1> QED BY <1>1, <1>2, AdvanceTwo

\* What v finds but for bb.
Opened(v, open) == [open |-> open, scopes |-> v.scopes, arity |-> v.arity]

\* A view with bb set to another block, open or not.
LEMMA OpenedFacts ==
  ASSUME NEW v, NEW o
  PROVE  /\ Opened(v, o).open = o
         /\ Opened(v, o).scopes = v.scopes
         /\ Opened(v, o).arity = v.arity
         /\ \A n : LegalIn(n, Opened(v, o)) <=> LegalIn(n, v)
BY DEF Opened, LegalIn

(* The blocks that the call on top of the stack enters exist.              *)
LEMMA EntersABlock ==
  ASSUME BlocksInv, todo # <<>>
  PROVE  /\ Top.at = "ifTrue" => Top.falseCase # 0
         /\ Top.at = "ifJoin" => Top.next # 0
<1> SUFFICES ASSUME Top.at \in {"ifTrue", "ifJoin"}
             PROVE  /\ Top.at = "ifTrue" => Top.falseCase # 0
                    /\ Top.at = "ifJoin" => Top.next # 0
  OBVIOUS
<1>1. PICK p \in 2 .. Len(todo) : StackInv(p) /\ Top = todo[1]
  BY InsideBody
<1>2. 1 \in 1 .. p - 1
  BY SequenceFacts DEF BlocksInv
<1>3. Held(Top) \subseteq 1 .. fresh - 1
  BY <1>1, <1>2 DEF StackInv
<1>4. /\ Top.at = "ifTrue" => Top.falseCase \in Held(Top)
      /\ Top.at = "ifJoin" => Top.next \in Held(Top)
  BY DEF Held, Reserved
<1>5. 0 \notin Held(Top)
  BY <1>3
<1> QED BY <1>4, <1>5

\* The steps of a conditional.
LEMMA IfLegal ==
  ASSUME LegalInv, BlocksInv, IfCondition \/ IfTrue \/ IfJoin
  PROVE  LegalInv'
<1> DEFINE t == Top.node.trueCase
           e == Top.node.falseCase
<1>1. /\ todo # <<>> /\ status = "running" /\ UNCHANGED <<arity, c>>
      /\ IfCondition => Top.at = "ifCondition" /\ bb' = fresh
      /\ IfTrue => Top.at = "ifTrue" /\ bb' = Top.falseCase
      /\ IfJoin => /\ Top.at = "ifJoin" /\ Then(<<>>)
                   /\ bb' = IF bb = 0 /\ Top.trueCase = 0 THEN 0 ELSE Top.next
  BY DEF IfCondition, IfTrue, IfJoin, Running
<1>2. PICK v : Calling(v)
  BY <1>1, CallingExists
<1>3. Leads(Top, v[1], v[2]) /\ (v[1].open <=> bb # 0) /\ Inner(Top)
  BY <1>1, <1>2, Found, FoundInside
<1>4. /\ v[2].open <=> OpenAfter(Top, v[1])
      /\ v[2].scopes = v[1].scopes /\ v[2].arity = v[1].arity
  BY <1>1, <1>3, OtherCalls
<1>5. PICK x : x = Opened(v[1], TRUE)
  OBVIOUS
<1>6. /\ x.open /\ x.scopes = v[1].scopes /\ x.arity = v[1].arity
      /\ \A n : LegalIn(n, x) <=> LegalIn(n, v[1])
  BY <1>5, OpenedFacts
<1>7. CASE IfCondition
  <2>a. t \in Trees /\ e \in Trees
    BY <1>1, <1>3, <1>7 DEF Inner, Trees
  <2>1. PICK n1 \in Trees, n2 \in Trees : n1 = t /\ n2 = e
    BY <2>a
  <2>2. PICK a : a = Visit(n1)
    OBVIOUS
  <2>3. PICK b : b = [at |-> "ifTrue", node |-> Top.node, falseCase |-> fresh + 1, next |-> fresh + 2]
    OBVIOUS
  <2>4. b.at = "ifTrue" /\ b.node.falseCase = n2
    BY <2>1, <2>3
  <2>5. PICK y : y = Opened(v[1], ~IsReturning(n1))
    OBVIOUS
  <2>6. /\ y.open <=> ~IsReturning(n1)
        /\ y.scopes = v[1].scopes /\ y.arity = v[1].arity
        /\ \A n : LegalIn(n, y) <=> LegalIn(n, v[1])
    BY <2>5, OpenedFacts
  <2>7. /\ Accepts(a, x) <=> LegalIn(n1, x)
        /\ Leads(a, x, y) /\ ~IsVisit(a, {"module"})
    BY <1>6, <2>2, <2>6, StatementCalls
  <2>8. /\ OpenAfter(b, y) <=> y.open \/ ~IsReturning(n2)
        /\ Accepts(b, y) <=> LegalIn(n2, y)
    BY <2>4, OtherCalls
  <2>9. /\ OpenAfter(Top, v[1]) <=> ~(IsReturning(n1) /\ IsReturning(n2))
        /\ Accepts(Top, v[1]) <=> LegalIn(n1, v[1]) /\ LegalIn(n2, v[1])
    BY <1>1, <1>7, <2>1, OtherCalls
  <2>10. v[2].open <=> OpenAfter(b, y)
    BY <1>4, <2>6, <2>8, <2>9
  <2>11. Leads(b, y, v[2]) /\ ~IsVisit(b, {"module"})
    BY <1>4, <2>4, <2>6, <2>10, OtherCalls
  <2>12. x.open <=> bb' # 0
    BY <1>1, <1>6, <1>7 DEF BlocksInv
  <2>13. Then(<<a, b>>)
    BY <1>7, <2>1, <2>2, <2>3 DEF IfCondition
  <2>14. Accepts(Top, v[1]) <=> Accepts(a, x) /\ Accepts(b, y)
    BY <1>6, <2>6, <2>7, <2>8, <2>9
  <2> QED BY <1>1, <1>2, <1>6, <2>7, <2>11, <2>12, <2>13, <2>14, TwoStep
<1>8. CASE IfTrue
  <2>1. PICK n \in Trees : n = e
    BY <1>1, <1>3, <1>8 DEF Inner, Trees
  <2>2. PICK a : a = Visit(n)
    OBVIOUS
  <2>3. PICK b : b = [at |-> "ifJoin", next |-> Top.next, trueCase |-> bb, trueResult |-> result]
    OBVIOUS
  <2>4. b.at = "ifJoin" /\ b.trueCase = bb
    BY <2>3
  <2>5. PICK y : y = Opened(v[1], ~IsReturning(n))
    OBVIOUS
  <2>6. (y.open <=> ~IsReturning(n)) /\ y.scopes = v[1].scopes /\ y.arity = v[1].arity
    BY <2>5, OpenedFacts
  <2>7. /\ Accepts(a, x) <=> LegalIn(n, x)
        /\ Leads(a, x, y) /\ ~IsVisit(a, {"module"})
    BY <1>6, <2>2, <2>6, StatementCalls
  <2>8. (OpenAfter(b, y) <=> y.open \/ b.trueCase # 0) /\ Accepts(b, y)
    BY <2>4, OtherCalls
  <2>9. /\ OpenAfter(Top, v[1]) <=> v[1].open \/ ~IsReturning(n)
        /\ Accepts(Top, v[1]) <=> LegalIn(n, v[1])
    BY <1>1, <1>8, <2>1, OtherCalls
  <2>10. v[2].open <=> OpenAfter(b, y)
    BY <1>3, <1>4, <2>4, <2>6, <2>8, <2>9
  <2>11. Leads(b, y, v[2]) /\ ~IsVisit(b, {"module"})
    BY <1>4, <2>4, <2>6, <2>10, OtherCalls
  <2>12. x.open <=> bb' # 0
    BY <1>1, <1>6, <1>8, EntersABlock
  <2>13. Then(<<a, b>>)
    BY <1>8, <2>1, <2>2, <2>3 DEF IfTrue
  <2>14. Accepts(Top, v[1]) <=> Accepts(a, x) /\ Accepts(b, y)
    BY <1>6, <2>7, <2>8, <2>9
  <2> QED BY <1>1, <1>2, <1>6, <2>7, <2>11, <2>12, <2>13, <2>14, TwoStep
<1>9. CASE IfJoin
  <2>1. (OpenAfter(Top, v[1]) <=> v[1].open \/ Top.trueCase # 0) /\ Accepts(Top, v[1])
    BY <1>1, <1>9, OtherCalls
  <2>2. Top.next # 0
    BY <1>1, <1>9, EntersABlock
  <2>3. v[2].open <=> bb' # 0
    BY <1>1, <1>3, <1>4, <1>9, <2>1, <2>2
  <2> QED BY <1>1, <1>2, <1>4, <1>9, <2>1, <2>3, NoneStep
<1> QED BY <1>7, <1>8, <1>9

\* The steps of a loop.
LEMMA WhileLegal ==
  ASSUME LegalInv, BlocksInv, VisitWhile \/ WhileCondition \/ WhileBody
  PROVE  LegalInv'
<1>1. /\ todo # <<>> /\ status = "running" /\ UNCHANGED <<arity, c>>
      /\ VisitWhile => Top.at = "visit" /\ Top.node.kind = "while" /\ bb' = fresh
      /\ WhileCondition => Top.at = "whileCondition" /\ bb' = Top.condition + 1
      /\ WhileBody => Top.at = "whileBody" /\ Then(<<>>) /\ bb' = Top.condition + 2
  BY DEF VisitWhile, WhileCondition, WhileBody, Visiting, Running
<1>2. PICK v : Calling(v)
  BY <1>1, CallingExists
<1>3. /\ Leads(Top, v[1], v[2]) /\ Inner(Top) /\ (Builds(Top) => v[1].open)
      /\ Top.at = "visit" => Top.node \in Trees
  BY <1>1, <1>2, Found, FoundInside
<1>5. PICK x : x = Opened(v[1], TRUE)
  OBVIOUS
<1>6. /\ x.open /\ x.scopes = v[1].scopes /\ x.arity = v[1].arity
      /\ \A n : LegalIn(n, x) <=> LegalIn(n, v[1])
  BY <1>5, OpenedFacts
<1>7. CASE VisitWhile
  <2>1. PICK n \in Trees : n = Top.node
    BY <1>1, <1>3, <1>7
  <2>2. n.kind = "while" /\ v[1].open
    BY <1>1, <1>3, <1>7, <2>1 DEF Builds
  <2>3. n.condition \in Expressions /\ ~IsReturning(n)
    BY <2>2, NodeFacts, ReturningOfKind DEF Trees
  <2>4. LegalIn(n, v[1]) <=> LegalIn(n.condition, v[1]) /\ LegalIn(n.body, v[1])
    BY <2>2, LegalOfKind DEF LegalIn
  <2>5. /\ Accepts(Top, v[1]) <=> LegalIn(n, v[1])
        /\ v[2].open /\ v[2].scopes = v[1].scopes /\ v[2].arity = v[1].arity
    BY <1>1, <1>3, <1>7, <2>1, <2>2, <2>3, VisitCalls
  <2>6. PICK a : a = Visit(n.condition)
    OBVIOUS
  <2>7. PICK b : b = [at |-> "whileCondition", body |-> Top.node.body, condition |-> fresh]
    OBVIOUS
  <2>8. b.at = "whileCondition" /\ b.body = n.body
    BY <2>1, <2>7
  <2>9. (Accepts(a, x) <=> LegalIn(n.condition, x)) /\ Leads(a, x, x) /\ ~IsVisit(a, {"module"})
    BY <2>3, <2>6, ExpressionCalls
  <2>10. OpenAfter(b, x) /\ (Accepts(b, x) <=> LegalIn(b.body, x))
    BY <2>8, OtherCalls
  <2>11. Leads(b, x, v[2]) /\ ~IsVisit(b, {"module"})
    BY <1>6, <2>5, <2>8, <2>10, OtherCalls
  <2>12. x.open <=> bb' # 0
    BY <1>1, <1>6, <1>7 DEF BlocksInv
  <2>13. Then(<<a, b>>)
    BY <1>7, <2>1, <2>6, <2>7 DEF VisitWhile
  <2>14. Accepts(Top, v[1]) <=> Accepts(a, x) /\ Accepts(b, x)
    BY <1>6, <2>4, <2>5, <2>8, <2>9, <2>10
  <2> QED BY <1>1, <1>2, <1>6, <2>9, <2>11, <2>12, <2>13, <2>14, TwoStep
<1>8. CASE WhileCondition
  <2>1. PICK n \in Trees : n = Top.body
    BY <1>1, <1>3, <1>8 DEF Inner, Trees
  <2>2. PICK a : a = Visit(n)
    OBVIOUS
  <2>3. PICK b : b = [at |-> "whileBody", condition |-> Top.condition]
    OBVIOUS
  <2>4. b.at = "whileBody"
    BY <2>3
  <2>5. PICK y : y = Opened(v[1], ~IsReturning(n))
    OBVIOUS
  <2>6. (y.open <=> ~IsReturning(n)) /\ y.scopes = v[1].scopes /\ y.arity = v[1].arity
    BY <2>5, OpenedFacts
  <2>7. /\ Accepts(a, x) <=> LegalIn(n, x)
        /\ Leads(a, x, y) /\ ~IsVisit(a, {"module"})
    BY <1>6, <2>2, <2>6, StatementCalls
  <2>8. OpenAfter(b, y) /\ Accepts(b, y)
    BY <2>4, OtherCalls
  <2>9. OpenAfter(Top, v[1]) /\ (Accepts(Top, v[1]) <=> LegalIn(n, v[1]))
    BY <1>1, <1>8, <2>1, OtherCalls
  <2>10. v[2].open /\ v[2].scopes = v[1].scopes /\ v[2].arity = v[1].arity
    BY <1>1, <1>3, <1>8, <2>9, OtherCalls
  <2>11. Leads(b, y, v[2]) /\ ~IsVisit(b, {"module"})
    BY <2>4, <2>6, <2>8, <2>10, OtherCalls
  <2>12. x.open <=> bb' # 0
    BY <1>1, <1>3, <1>6, <1>8 DEF Inner
  <2>13. Then(<<a, b>>)
    BY <1>8, <2>1, <2>2, <2>3 DEF WhileCondition
  <2>14. Accepts(Top, v[1]) <=> Accepts(a, x) /\ Accepts(b, y)
    BY <1>6, <2>7, <2>8, <2>9
  <2> QED BY <1>1, <1>2, <1>6, <2>7, <2>11, <2>12, <2>13, <2>14, TwoStep
<1>9. CASE WhileBody
  <2>1. OpenAfter(Top, v[1]) /\ Accepts(Top, v[1])
    BY <1>1, <1>9, OtherCalls
  <2>2. v[2].open /\ v[2].scopes = v[1].scopes /\ v[2].arity = v[1].arity
    BY <1>1, <1>3, <1>9, <2>1, OtherCalls
  <2>3. v[2].open <=> bb' # 0
    BY <1>1, <1>3, <1>9, <2>2 DEF Inner
  <2> QED BY <1>1, <1>2, <1>9, <2>1, <2>2, <2>3, NoneStep
<1> QED BY <1>7, <1>8, <1>9

-----------------------------------------------------------------------------
(* Declarations. *)

\* Where no name is redefined, declarations with the same name are the same.
LEMMA UniqueSymbols ==
  ASSUME NEW ds, Len(ds) \in Nat, ~Redefines(ds),
         NEW j \in 1 .. Len(ds), NEW k \in 1 .. Len(ds), ds[j].symbol = ds[k].symbol
  PROVE  j = k
<1> DEFINE S == 1 .. Len(ds)
           T == Symbols(ds)
           g == [i \in S |-> ds[i].symbol]
<1>1. g \in Surjection(S, T)
  <2>1. g \in [S -> T]
    BY DEF Symbols
  <2>2. \A t \in T : \E i \in S : g[i] = t
    BY DEF Symbols
  <2> HIDE DEF g, S, T
  <2> QED BY <2>1, <2>2 DEF Surjection
<1>2. IsFiniteSet(S) /\ Cardinality(S) = Len(ds)
  <2>1. Len(ds) \in Int /\ 1 \in Int
    OBVIOUS
  <2>2. IsFiniteSet(1 .. Len(ds)) /\ Cardinality(1 .. Len(ds)) = IF 1 > Len(ds) THEN 0 ELSE Len(ds) - 1 + 1
    BY <2>1, FS_Interval
  <2> QED BY <2>2
<1> HIDE DEF S, T
<1>3. /\ IsFiniteSet(T) /\ Cardinality(T) <= Cardinality(S)
      /\ Cardinality(T) = Cardinality(S) <=> g \in Injection(S, T)
  <2> HIDE DEF g
  <2> QED BY <1>1, <1>2, FS_Surjection
<1>4. Cardinality(T) \in Nat
  BY <1>3, FS_CardinalityType
<1>5. g \in Injection(S, T)
  BY <1>2, <1>3, <1>4 DEF Redefines, T
<1>6. j \in S /\ k \in S /\ g[j] = g[k]
  BY DEF S
<1> HIDE DEF g
<1> QED BY <1>5, <1>6 DEF Injection, IsInjective

(* A context has the declared names, with whether they are constants.      *)
LEMMA DeclaredContext ==
  ASSUME NEW ds, Len(ds) \in Nat, ~Redefines(ds), NEW isGlobal
  PROVE  /\ DOMAIN ContextOf(ds, isGlobal) = Symbols(ds)
         /\ \A s \in Symbols(ds) :
              ContextOf(ds, isGlobal)[s].constant <=> DeclaresConstant(ds, s)
<1>1. DOMAIN ContextOf(ds, isGlobal) = Symbols(ds)
  BY DEF ContextOf
<1>2. ASSUME NEW s \in Symbols(ds)
      PROVE  ContextOf(ds, isGlobal)[s].constant <=> DeclaresConstant(ds, s)
  <2> DEFINE k == CHOOSE j \in 1 .. Len(ds) : ds[j].symbol = s
  <2>1. k \in 1 .. Len(ds) /\ ds[k].symbol = s
    BY <1>2 DEF Symbols
  <2>2. ContextOf(ds, isGlobal)[s] =
          IF ds[k].constant THEN ConstantLocation
          ELSE VariableLocation(IF isGlobal THEN Constant ELSE Result(fresh + k))
    BY <1>2 DEF ContextOf
  <2> HIDE DEF k
  <2>3. ContextOf(ds, isGlobal)[s].constant <=> ds[k].constant
    BY <2>2 DEF ConstantLocation, VariableLocation
  <2>4. \A j \in 1 .. Len(ds) : ds[j].symbol = s => j = k
    BY <2>1, UniqueSymbols
  <2> QED BY <2>1, <2>3, <2>4 DEF DeclaresConstant
<1> QED BY <1>1, <1>2

(* The scope inside a block is what is seen from its context.              *)
LEMMA SeesInside ==
  ASSUME NEW scopes, NEW cs, Sees(scopes, cs), Len(cs) > 0, NEW ds, NEW g,
         Len(ds) \in Nat, ~Redefines(ds), g = ContextOf(ds, FALSE)
  PROVE  Sees(<<Inside(scopes[1], ds)>> \o scopes, <<g>> \o cs)
<1> DEFINE scope == Inside(scopes[1], ds)
<1>1. DOMAIN g = Symbols(ds) /\ \A s \in Symbols(ds) : g[s].constant <=> DeclaresConstant(ds, s)
  BY DeclaredContext
<1>2. /\ DOMAIN scope = DOMAIN scopes[1] \cup DOMAIN g
      /\ \A s \in DOMAIN g : scope[s] <=> g[s].constant
      /\ \A s \in DOMAIN scopes[1] \ DOMAIN g : scope[s] <=> scopes[1][s]
  BY <1>1 DEF Inside
<1> HIDE DEF scope
<1>3. Sees(<<scope>> \o scopes, <<g>> \o cs)
  BY <1>2, SeesPush
<1> QED BY <1>3 DEF scope

(* The statements of a block are compiled one after the other, until one   *)
(* returns.                                                                *)
LEMMA BlockLegal ==
  ASSUME LegalInv, BlocksInv, VisitBlock
  PROVE  LegalInv'
<1>1. todo # <<>> /\ Top.at = "visit" /\ Top.node.kind = "block" /\ status = "running"
  BY DEF VisitBlock, Visiting, Running
<1>2. PICK v : Calling(v)
  BY <1>1, CallingExists
<1>3. PICK n \in Trees : n = Top.node
  BY <1>1, <1>2, FoundInside
<1>4. /\ Leads(Top, v[1], v[2]) /\ (v[1].open <=> bb # 0) /\ v[1].open
      /\ StackLegal(v) /\ Sees(v[1].scopes, c) /\ Len(c) > 0
      /\ v[1].arity = arity
  <2>1. Builds(Top)
    BY <1>1 DEF Builds
  <2> QED BY <1>1, <1>2, <2>1, Found, FoundInside DEF Calling
<1>5. /\ Accepts(Top, v[1]) <=> LegalIn(n, v[1])
      /\ v[2].open <=> v[1].open /\ ~IsReturning(n)
      /\ v[2].scopes = v[1].scopes /\ v[2].arity = v[1].arity
  BY <1>1, <1>3, <1>4, VisitCalls
<1> DEFINE ds == n.declarations
           ss == n.statements
           l == Len(n.statements)
           scope == Inside(v[1].scopes[1], ds)
<1>6. n.kind = "block" /\ Len(ds) \in Nat /\ l \in Nat /\ \A k \in 1 .. l : ss[k] \in Trees
  <2>1. n.kind = "block"
    BY <1>1, <1>3
  <2> QED BY <2>1, NodeFacts DEF Trees, ListOf
<1>7. /\ LegalIn(n, v[1]) <=> /\ ~Redefines(ds)
                              /\ \A k \in 1 .. l - 1 : ~IsReturning(ss[k])
                              /\ \A k \in 1 .. l : Legal(ss[k], Trees, scope, v[1].arity)
      /\ IsReturning(n) <=> \E k \in 1 .. l : IsReturning(ss[k])
  <2>1. LegalIn(n, v[1]) <=> /\ ~Redefines(ds)
                             /\ \A k \in 1 .. l - 1 : ~IsReturning(ss[k])
                             /\ \A k \in 1 .. l : Legal(ss[k], Trees, scope, v[1].arity)
    BY <1>6, LegalBlock DEF LegalIn
  <2>2. IsReturning(n) <=> \E k \in 1 .. l : IsReturning(ss[k])
    BY <1>6, ReturningOfKind
  <2> QED BY <2>1, <2>2
<1> HIDE DEF scope
<1>8. CASE Redefines(ds)
  <2>1. Throw
    BY <1>3, <1>8 DEF VisitBlock
  <2> QED BY <1>1, <1>4, <1>5, <1>7, <1>8, <2>1, ThrowIsIllegal
<1>9. CASE ~Redefines(ds)
  <2>1. PICK g : g = ContextOf(ds, FALSE)
    OBVIOUS
  <2>2. PICK statements : statements = [k \in 1 .. l |-> [at |-> "statement", node |-> ss[k]]]
    OBVIOUS
  <2>3. PICK unroll : unroll = [at |-> "unroll"]
    OBVIOUS
  <2>4. PICK calls : calls = statements \o <<unroll>>
    OBVIOUS
  <2>5. PICK inner : inner = <<scope>> \o v[1].scopes
    OBVIOUS
  <2>6. Then(calls) /\ c' = <<g>> \o c /\ UNCHANGED <<arity, bb>>
    BY <1>3, <1>9, <2>1, <2>2, <2>3, <2>4 DEF VisitBlock
  <2>7. Sees(inner, <<g>> \o c) /\ Len(<<g>> \o c) > 0 /\ Len(inner) > 1
        /\ inner[1] = scope /\ Tail(inner) = v[1].scopes
    <3>1. Sees(inner, <<g>> \o c)
      BY <1>4, <1>6, <1>9, <2>1, <2>5, SeesInside DEF scope
    <3>2. IsSequence(v[1].scopes) /\ IsSequence(c) /\ Len(v[1].scopes) = Len(c)
      BY <1>4 DEF Sees
    <3>3. Len(inner) = Len(v[1].scopes) + 1 /\ inner[1] = scope /\ Tail(inner) = v[1].scopes
      BY <2>5, <3>2, TailOfPush
    <3>4. Len(<<g>> \o c) = Len(c) + 1
      BY <3>2, TailOfPush
    <3>5. Len(c) \in Nat
      BY <3>2, SequenceFacts
    <3> QED BY <1>4, <3>1, <3>2, <3>3, <3>4, <3>5
  <2>8. PICK w : w = [k \in 1 .. l + 2 |->
                        IF k = l + 2 THEN v[2]
                        ELSE [open |-> \A j \in 1 .. k - 1 : ~IsReturning(ss[j]),
                              scopes |-> inner, arity |-> v[1].arity]]
    OBVIOUS
  <2>9. /\ w[l + 2] = v[2]
        /\ \A k \in 1 .. l + 1 : /\ w[k].open <=> \A j \in 1 .. k - 1 : ~IsReturning(ss[j])
                                 /\ w[k].scopes = inner /\ w[k].arity = v[1].arity
    BY <1>6, <2>8
  <2>10. /\ IsSequence(calls) /\ Len(calls) = l + 1
         /\ \A k \in 1 .. l : calls[k].at = "statement" /\ calls[k].node = ss[k]
         /\ calls[l + 1].at = "unroll"
    <3>1. IsSequence(statements) /\ Len(statements) = l
      <4>1. statements = [k \in 1 .. l |-> statements[k]]
        BY <2>2
      <4> QED BY <1>6, <4>1, FunctionSequence
    <3>2. IsSequence(<<unroll>>) /\ Len(<<unroll>>) = 1 /\ <<unroll>>[1] = unroll /\ 1 \in 1 .. 1
      BY ShortSequences
    <3>3. /\ IsSequence(calls) /\ Len(calls) = l + 1
          /\ \A k \in 1 .. l : calls[k] = statements[k]
          /\ calls[l + 1] = unroll
      BY <2>4, <3>1, <3>2, ConcatFacts
    <3>4. \A k \in 1 .. l : calls[k] = [at |-> "statement", node |-> ss[k]]
      BY <2>2, <3>3
    <3>5. \A k \in 1 .. l : calls[k].at = "statement" /\ calls[k].node = ss[k]
      <4> TAKE k \in 1 .. l
      <4>1. calls[k] = [at |-> "statement", node |-> ss[k]]
        BY <3>4
      <4> QED BY <4>1
    <3>6. calls[l + 1].at = "unroll"
      BY <2>3, <3>3
    <3> QED BY <3>3, <3>5, <3>6
  <2>11. \A k \in 1 .. l + 1 : k \in 1 .. l \/ k = l + 1
    BY <1>6
  <2>12. ASSUME NEW k \in 1 .. l
         PROVE  /\ ~IsVisit(calls[k], {"module"}) /\ Leads(calls[k], w[k], w[k + 1])
                /\ Accepts(calls[k], w[k]) <=>
                     /\ \A j \in 1 .. k - 1 : ~IsReturning(ss[j])
                     /\ Legal(ss[k], Trees, scope, v[1].arity)
    <3>1. k \in 1 .. l + 1 /\ k + 1 \in 1 .. l + 1 /\ (k + 1) - 1 = k
      BY <1>6
    <3>2. w[k + 1].open <=> \A j \in 1 .. k : ~IsReturning(ss[j])
      BY <2>9, <3>1
    <3>3. w[k].open <=> \A j \in 1 .. k - 1 : ~IsReturning(ss[j])
      BY <2>9, <3>1
    <3>4. w[k + 1].open <=> w[k].open /\ ~IsReturning(ss[k])
      <4>1. \A j \in 1 .. k : j \in 1 .. k - 1 \/ j = k
        OBVIOUS
      <4>2. k \in 1 .. k /\ \A j \in 1 .. k - 1 : j \in 1 .. k
        OBVIOUS
      <4> QED BY <3>2, <3>3, <4>1, <4>2
    <3>5. calls[k].at = "statement" /\ calls[k].node = ss[k]
      BY <2>10
    <3>6. (OpenAfter(calls[k], w[k]) <=> w[k].open /\ ~IsReturning(ss[k])) /\ ~IsVisit(calls[k], {"module"})
      BY <3>5, OtherCalls
    <3>7. Leads(calls[k], w[k], w[k + 1])
      BY <2>9, <3>1, <3>4, <3>5, <3>6, OtherCalls
    <3>8. Accepts(calls[k], w[k]) <=> w[k].open /\ LegalIn(ss[k], w[k])
      BY <3>5, OtherCalls
    <3>9. LegalIn(ss[k], w[k]) <=> Legal(ss[k], Trees, scope, v[1].arity)
      BY <2>7, <2>9, <3>1 DEF LegalIn
    <3> QED BY <3>3, <3>6, <3>7, <3>8, <3>9
  <2>13. /\ ~IsVisit(calls[l + 1], {"module"}) /\ Leads(calls[l + 1], w[l + 1], w[(l + 1) + 1])
         /\ Accepts(calls[l + 1], w[l + 1])
    <3>1. l + 1 \in 1 .. l + 1 /\ (l + 1) - 1 = l /\ (l + 1) + 1 = l + 2
      BY <1>6
    <3>2. w[l + 1].open <=> \A j \in 1 .. l : ~IsReturning(ss[j])
      BY <2>9, <3>1
    <3>3. v[2].open <=> w[l + 1].open
      BY <1>4, <1>5, <1>7, <3>2
    <3>4. calls[l + 1].at = "unroll"
      BY <2>10
    <3>5. \A kinds : ~IsVisit(calls[l + 1], kinds)
      BY <3>4 DEF IsVisit
    <3>6. Accepts(calls[l + 1], w[l + 1]) /\ (OpenAfter(calls[l + 1], w[l + 1]) <=> w[l + 1].open)
      BY <3>4, <3>5 DEF Accepts, OpenAfter
    <3>7. w[l + 1].scopes = inner /\ w[l + 1].arity = v[1].arity
      BY <2>9, <3>1
    <3>8. Leads(calls[l + 1], w[l + 1], v[2])
      BY <1>5, <2>7, <3>3, <3>4, <3>5, <3>6, <3>7 DEF Leads
    <3> QED BY <2>9, <3>1, <3>5, <3>6, <3>8
  <2>14. /\ \A k \in 1 .. Len(calls) : Leads(calls[k], w[k], w[k + 1])
         /\ \A k \in 1 .. Len(calls) : ~IsVisit(calls[k], {"module"})
    BY <2>10, <2>11, <2>12, <2>13
  <2>15. Accepts(Top, v[1]) <=> \A k \in 1 .. Len(calls) : Accepts(calls[k], w[k])
    <3>1. (\A k \in 1 .. Len(calls) : Accepts(calls[k], w[k])) <=>
             \A k \in 1 .. l : /\ \A j \in 1 .. k - 1 : ~IsReturning(ss[j])
                              /\ Legal(ss[k], Trees, scope, v[1].arity)
      <4>1. \A k \in 1 .. l : k \in 1 .. l + 1
        BY <1>6
      <4>2. l + 1 \in 1 .. l + 1
        BY <1>6
      <4> QED BY <2>10, <2>11, <2>12, <2>13, <4>1
    <3>2. (\A k \in 1 .. l : \A j \in 1 .. k - 1 : ~IsReturning(ss[j])) <=>
            \A k \in 1 .. l - 1 : ~IsReturning(ss[k])
      <4>1. ASSUME \A k \in 1 .. l : \A j \in 1 .. k - 1 : ~IsReturning(ss[j]), NEW k \in 1 .. l - 1
            PROVE  ~IsReturning(ss[k])
        <5>1. l \in 1 .. l
          BY <1>6
        <5> QED BY <4>1, <5>1
      <4>2. ASSUME \A k \in 1 .. l - 1 : ~IsReturning(ss[k]), NEW k \in 1 .. l, NEW j \in 1 .. k - 1
            PROVE  ~IsReturning(ss[j])
        <5>1. j \in 1 .. l - 1
          BY <1>6
        <5> QED BY <4>2, <5>1
      <4> QED BY <4>1, <4>2
    <3> QED BY <1>5, <1>7, <1>9, <3>1, <3>2
  <2>16. Finds(w[1])' /\ Len(c') > 0
    <3>1. 1 \in 1 .. l + 1 /\ 1 .. 1 - 1 = {}
      BY <1>6
    <3>2. w[1].open /\ w[1].scopes = inner /\ w[1].arity = v[1].arity
      BY <2>9, <3>1
    <3> QED BY <1>4, <2>6, <2>7, <3>2 DEF Finds
  <2>17. w[Len(calls) + 1] = v[2]
    <3>1. (l + 1) + 1 = l + 2
      BY <1>6
    <3> QED BY <2>9, <2>10, <3>1
  <2>18. /\ IsSequence(todo) /\ \A k \in 1 .. Len(todo) : ~IsVisit(todo[k], {"module"})
         /\ LegalInv /\ todo # <<>> /\ status = "running" /\ StackLegal(v)
    BY <1>2, LegalTop DEF Calling
  <2> QED BY <2>6, <2>10, <2>14, <2>15, <2>16, <2>17, <2>18, Advance
<1> QED BY <1>8, <1>9

-----------------------------------------------------------------------------
(* The calls around the bodies. *)

\* A block is left, and with it its context.
LEMMA UnrollLegal ==
  ASSUME LegalInv, BlocksInv, Unroll
  PROVE  LegalInv'
<1>1. /\ todo # <<>> /\ status = "running" /\ Top.at = "unroll"
      /\ c' = Tail(c) /\ Then(<<>>) /\ UNCHANGED <<arity, bb>>
  BY DEF Unroll, Running
<1>2. PICK v : Calling(v)
  BY <1>1, CallingExists
<1>3. /\ Leads(Top, v[1], v[2]) /\ (v[1].open <=> bb # 0) /\ v[1].arity = arity
      /\ Sees(v[1].scopes, c)
  BY <1>2, Found
<1>4. \A kinds : ~IsVisit(Top, kinds)
  BY <1>1 DEF IsVisit
<1>5. /\ v[2].open <=> v[1].open
      /\ Len(v[1].scopes) > 1 /\ v[2].scopes = Tail(v[1].scopes) /\ v[2].arity = v[1].arity
  BY <1>1, <1>3, <1>4 DEF Leads, OpenAfter
<1>6. Accepts(Top, v[1])
  BY <1>1, <1>4 DEF Accepts
<1>7. Sees(Tail(v[1].scopes), Tail(c)) /\ Len(Tail(c)) > 0
  <2>1. PICK cs : cs = c
    OBVIOUS
  <2>2. Sees(Tail(v[1].scopes), Tail(cs)) /\ Len(Tail(cs)) > 0
    BY <1>3, <1>5, <2>1, SeesPop
  <2> QED BY <2>1, <2>2
<1>8. Finds(v[2])' /\ Len(c') > 0
  BY <1>1, <1>3, <1>5, <1>7 DEF Finds
<1> QED BY <1>1, <1>2, <1>6, <1>8, AdvanceNone

(* In a function the arguments are in scope as well.                       *)
LEMMA SeesArguments ==
  ASSUME NEW scopes, NEW cs, Sees(scopes, cs), Len(cs) > 0, NEW names, NEW g,
         DOMAIN g = names, \A s \in names : ~g[s].constant
  PROVE  Sees(<<WithArguments(scopes[1], names)>> \o scopes, <<g>> \o cs)
<1> DEFINE scope == WithArguments(scopes[1], names)
<1>1. /\ DOMAIN scope = DOMAIN scopes[1] \cup DOMAIN g
      /\ \A s \in DOMAIN g : scope[s] <=> g[s].constant
      /\ \A s \in DOMAIN scopes[1] \ DOMAIN g : scope[s] <=> scopes[1][s]
  BY DEF WithArguments
<1> HIDE DEF scope
<1>2. Sees(<<scope>> \o scopes, <<g>> \o cs)
  BY <1>1, SeesPush
<1> QED BY <1>2 DEF scope

(* Where a function starts, it is known from there on.                     *)
LEMMA CreatedFunction ==
  ASSUME NEW name, NEW args, NEW insts, CreateFunction(name, args, insts)
  PROVE  arity' = With(arity, name, args) /\ bb' = fresh
BY DEF CreateFunction, With

\* The main block starts.
LEMMA MainLegal ==
  ASSUME LegalInv, BlocksInv, VisitMain
  PROVE  LegalInv'
<1>1. /\ todo # <<>> /\ status = "running" /\ Top.at = "main"
      /\ CreateFunction("main", 0, <<>>) /\ c' = c
      /\ Then(<<Visit(Top.node.body), [at |-> "finish"]>>)
  BY DEF VisitMain, Running
<1>2. PICK v : Calling(v)
  BY <1>1, CallingExists
<1>3. /\ Leads(Top, v[1], v[2]) /\ v[1].arity = arity /\ Sees(v[1].scopes, c) /\ Len(c) > 0
  BY <1>2, Found
<1>4. PICK n \in Trees : n = Top.node.body
  <2>1. Outer(Top)
    BY <1>1, OutsideBody
  <2> QED BY <1>1, <2>1 DEF Outer, Trees
<1>5. \A kinds : ~IsVisit(Top, kinds)
  BY <1>1 DEF IsVisit
<1>6. /\ v[2].open <=> ~IsReturning(n)
      /\ v[2].scopes = v[1].scopes /\ v[2].arity = With(v[1].arity, "main", 0)
  BY <1>1, <1>3, <1>4, <1>5 DEF Leads, OpenAfter
<1>7. Accepts(Top, v[1]) <=> Legal(n, Trees, v[1].scopes[1], With(v[1].arity, "main", 0))
  BY <1>1, <1>4, <1>5 DEF Accepts
<1>8. PICK x : x = [open |-> TRUE, scopes |-> v[1].scopes, arity |-> With(v[1].arity, "main", 0)]
  OBVIOUS
<1>9. PICK a : a = Visit(n)
  OBVIOUS
<1>10. PICK b : b = [at |-> "finish"]
  OBVIOUS
<1>11. b.at = "finish" /\ Then(<<a, b>>)
  BY <1>1, <1>4, <1>9, <1>10
<1>12. /\ Accepts(a, x) <=> LegalIn(n, x)
       /\ Leads(a, x, v[2]) /\ ~IsVisit(a, {"module"})
  <2>1. x.open /\ x.scopes = v[1].scopes /\ x.arity = With(v[1].arity, "main", 0)
    BY <1>8
  <2> QED BY <1>6, <1>9, <2>1, StatementCalls
<1>13. Leads(b, v[2], v[2]) /\ ~IsVisit(b, {"module"}) /\ Accepts(b, v[2])
  <2>1. Leads(b, v[2], v[2]) /\ ~IsVisit(b, {"module"})
    BY <1>11, OpenCalls
  <2>2. Accepts(b, v[2])
    BY <1>11, OtherCalls
  <2> QED BY <2>1, <2>2
<1>14. Accepts(Top, v[1]) <=> Accepts(a, x) /\ Accepts(b, v[2])
  BY <1>7, <1>8, <1>12, <1>13 DEF LegalIn
<1>15. arity' = With(arity, "main", 0) /\ bb' = fresh /\ bb' # 0
  BY <1>1, CreatedFunction DEF BlocksInv
<1>16. Finds(x)' /\ Len(c') > 0
  BY <1>1, <1>3, <1>8, <1>15 DEF Finds
<1> QED BY <1>2, <1>11, <1>12, <1>13, <1>14, <1>16, AdvanceTwo

\* A function starts.
LEMMA FunctionLegal ==
  ASSUME LegalInv, BlocksInv, VisitFunction
  PROVE  LegalInv'
<1>1. todo # <<>> /\ status = "running" /\ Top.at = "visit" /\ Top.node.kind = "function"
  BY DEF VisitFunction, Visiting, Running
<1>2. PICK v : Calling(v)
  BY <1>1, CallingExists
<1>3. /\ Leads(Top, v[1], v[2]) /\ v[1].arity = arity /\ Sees(v[1].scopes, c) /\ Len(c) > 0
      /\ StackLegal(v)
  BY <1>2, Found DEF Calling
<1> DEFINE n == Top.node
<1>4. n = Top.node
  OBVIOUS
<1>5. IsFunction(n)
  <2>1. Outer(Top)
    BY <1>1, OutsideBody
  <2> QED BY <1>1, <1>4, <2>1 DEF Outer, IsModule
<1>6. n.body \in Trees /\ Len(n.arguments) \in Nat
  BY <1>5 DEF IsFunction, Trees
<1>7. /\ IsVisit(Top, {"function"}) /\ IsVisit(Top, {"module", "function"})
      /\ ~IsVisit(Top, {"module"})
  BY <1>1 DEF IsVisit
<1> DEFINE names == ArgumentNames(n)
           l == Len(n.arguments)
           scope == WithArguments(v[1].scopes[1], names)
           arities == With(v[1].arity, n.name, l)
           allowed == /\ n.name # "main" /\ n.name \notin DOMAIN v[1].arity
                      /\ \A j, k \in 1 .. l : j # k => n.arguments[j] # n.arguments[k]
<1>8. /\ v[2].open <=> ~IsReturning(n.body)
      /\ v[2].scopes = v[1].scopes /\ v[2].arity = arities
  <2>1. OpenAfter(Top, v[1]) <=> ~IsReturning(n.body)
    BY <1>1, <1>4, <1>7 DEF OpenAfter
  <2>2. /\ v[2].open <=> OpenAfter(Top, v[1])
        /\ v[2].scopes = v[1].scopes /\ v[2].arity = arities
    BY <1>1, <1>3, <1>4, <1>7 DEF Leads
  <2> QED BY <2>1, <2>2
<1>9. Accepts(Top, v[1]) <=> allowed /\ Legal(n.body, Trees, scope, arities)
  <2>1. Accepts(Top, v[1]) <=> LegalFunction(Top.node, Trees, v[1].scopes[1], v[1].arity)
    BY <1>1, <1>7 DEF Accepts
  <2>2. Accepts(Top, v[1]) <=> LegalFunction(n, Trees, v[1].scopes[1], v[1].arity)
    BY <1>4, <2>1
  <2> QED BY <2>2 DEF LegalFunction
<1> HIDE DEF scope, arities
<1>10. CASE ~allowed
  <2>1. Throw
    BY <1>3, <1>4, <1>10 DEF VisitFunction
  <2> QED BY <1>1, <1>3, <1>9, <1>10, <2>1, ThrowIsIllegal
<1>11. CASE allowed
  <2>1. PICK g : g = [s \in names |->
                       VariableLocation(Result(fresh + CHOOSE k \in 1 .. l : n.arguments[k] = s))]
    OBVIOUS
  <2>2. PICK insts : insts = SeqsExt!FlattenSeq([k \in 1 .. l |-> ArgumentInsts(fresh + k)])
    OBVIOUS
  <2>3. /\ CreateFunction(n.name, l, insts) /\ c' = <<g>> \o c
        /\ Then(<<Visit(n.body), [at |-> "finish"], [at |-> "unroll"]>>)
    <3>1. /\ CreateFunction(n.name, l, SeqsExt!FlattenSeq([k \in 1 .. l |-> ArgumentInsts(fresh + k)]))
          /\ c' = <<[s \in {n.arguments[k] : k \in 1 .. l} |->
                       VariableLocation(Result(fresh + CHOOSE k \in 1 .. l : n.arguments[k] = s))]>>
                     \o c
          /\ Then(<<Visit(n.body), [at |-> "finish"], [at |-> "unroll"]>>)
      <4>1. ~(\/ Top.node.name = "main"
              \/ Top.node.name \in DOMAIN arity
              \/ \E j, k \in 1 .. Len(Top.node.arguments) :
                   j # k /\ Top.node.arguments[j] = Top.node.arguments[k])
        BY <1>3, <1>4, <1>11
      <4> QED BY <4>1, Zenon DEF VisitFunction
    <3> QED BY <2>1, <2>2, <3>1 DEF ArgumentNames
  <2>4. PICK inner : inner = <<scope>> \o v[1].scopes
    OBVIOUS
  <2>5. Sees(inner, <<g>> \o c) /\ Len(<<g>> \o c) > 0 /\ Len(inner) > 1
        /\ inner[1] = scope /\ Tail(inner) = v[1].scopes
    <3>1. DOMAIN g = names /\ \A s \in names : ~g[s].constant
      BY <2>1 DEF VariableLocation
    <3>2. Sees(inner, <<g>> \o c)
      BY <1>3, <2>4, <3>1, SeesArguments DEF scope
    <3>3. IsSequence(v[1].scopes) /\ IsSequence(c) /\ Len(v[1].scopes) = Len(c)
      BY <1>3 DEF Sees
    <3>4. Len(inner) = Len(v[1].scopes) + 1 /\ inner[1] = scope /\ Tail(inner) = v[1].scopes
      BY <2>4, <3>3, TailOfPush
    <3>5. Len(<<g>> \o c) = Len(c) + 1
      BY <3>3, TailOfPush
    <3>6. Len(c) \in Nat
      BY <3>3, SequenceFacts
    <3> QED BY <1>3, <3>2, <3>3, <3>4, <3>5, <3>6
  <2>6. arity' = With(arity, n.name, l) /\ bb' # 0
    BY <2>3, CreatedFunction DEF BlocksInv
  <2>7. PICK x : x = [open |-> TRUE, scopes |-> inner, arity |-> arities]
    OBVIOUS
  <2>8. PICK y : y = [open |-> ~IsReturning(n.body), scopes |-> inner, arity |-> arities]
    OBVIOUS
  <2>9. /\ x.open /\ x.scopes = inner /\ x.arity = arities
        /\ y.open <=> ~IsReturning(n.body)
        /\ y.scopes = inner /\ y.arity = arities
    BY <2>7, <2>8
  <2>10. PICK a : a = Visit(n.body)
    OBVIOUS
  <2>11. PICK b : b = [at |-> "finish"]
    OBVIOUS
  <2>12. PICK d : d = [at |-> "unroll"]
    OBVIOUS
  <2>13. b.at = "finish" /\ d.at = "unroll" /\ Then(<<a, b, d>>)
    BY <2>3, <2>10, <2>11, <2>12
  <2>14. /\ Accepts(a, x) <=> LegalIn(n.body, x)
         /\ Leads(a, x, y) /\ ~IsVisit(a, {"module"})
    BY <1>6, <2>9, <2>10, StatementCalls
  <2>15. Leads(b, y, y) /\ ~IsVisit(b, {"module"}) /\ Accepts(b, y)
    BY <2>13, OpenCalls, OtherCalls
  <2>16. Leads(d, y, v[2]) /\ ~IsVisit(d, {"module"}) /\ Accepts(d, y)
    <3>1. \A kinds : ~IsVisit(d, kinds)
      BY <2>13 DEF IsVisit
    <3>2. Accepts(d, y) /\ (OpenAfter(d, y) <=> y.open)
      BY <2>13, <3>1 DEF Accepts, OpenAfter
    <3>3. Leads(d, y, v[2])
      BY <1>8, <2>5, <2>9, <2>13, <3>1, <3>2 DEF Leads
    <3> QED BY <3>1, <3>2, <3>3
  <2>17. Accepts(Top, v[1]) <=> Accepts(a, x) /\ Accepts(b, y) /\ Accepts(d, y)
    <3>1. LegalIn(n.body, x) <=> Legal(n.body, Trees, scope, arities)
      BY <2>5, <2>9 DEF LegalIn
    <3> QED BY <1>9, <1>11, <2>14, <2>15, <2>16, <3>1
  <2>18. Finds(x)' /\ Len(c') > 0
    <3>1. x.arity = With(arity, n.name, l)
      BY <1>3, <2>9 DEF arities
    <3> QED BY <2>3, <2>5, <2>6, <2>9, <3>1 DEF Finds
  <2> QED BY <1>2, <2>13, <2>14, <2>15, <2>16, <2>17, <2>18, AdvanceThree
<1> QED BY <1>10, <1>11

-----------------------------------------------------------------------------
(* The module. *)

\* Before the first function only those of the runtime are known.
LEMMA AritiesStart ==
  ASSUME NEW m
  PROVE  Arities(m, 0) = Runtime
<1>1. DOMAIN Runtime \cup {m.functions[j].name : j \in 1 .. 0} = DOMAIN Runtime
  OBVIOUS
<1>2. \A s : {j \in 1 .. 0 : m.functions[j].name = s} = {}
  OBVIOUS
<1>3. Arities(m, 0) = [s \in DOMAIN Runtime |-> Runtime[s]]
  BY <1>1, <1>2 DEF Arities
<1> QED BY <1>3 DEF Runtime

\* After a function that one is known as well, the last of its name counts.
LEMMA AritiesGrow ==
  ASSUME NEW m, NEW k \in Nat \ {0}
  PROVE  Arities(m, k) = With(Arities(m, k - 1), m.functions[k].name, Len(m.functions[k].arguments))
<1> DEFINE name == m.functions[k].name
           named(i, s) == {j \in 1 .. i : m.functions[j].name = s}
           value(i, s) == IF named(i, s) = {} THEN Runtime[s]
                          ELSE Len(m.functions[Max(named(i, s))].arguments)
           known(i) == DOMAIN Runtime \cup {m.functions[j].name : j \in 1 .. i}
<1>1. /\ Arities(m, k) = [s \in known(k) |-> value(k, s)]
      /\ Arities(m, k - 1) = [s \in known(k - 1) |-> value(k - 1, s)]
  BY DEF Arities
<1>2. \A j \in 1 .. k : j = k \/ j \in 1 .. k - 1
  OBVIOUS
<1>3. k \in 1 .. k /\ \A j \in 1 .. k - 1 : j \in 1 .. k
  OBVIOUS
<1>4. known(k) = known(k - 1) \cup {name}
  <2>1. \A s : s \in {m.functions[j].name : j \in 1 .. k} <=>
                 s \in {m.functions[j].name : j \in 1 .. k - 1} \/ s = name
    BY <1>2, <1>3
  <2> QED BY <2>1
<1>5. value(k, name) = Len(m.functions[k].arguments)
  <2>1. k \in named(k, name) /\ \A j \in named(k, name) : k >= j
    BY <1>3
  <2>2. \A x \in named(k, name) : (\A j \in named(k, name) : x >= j) => x = k
    BY <2>1
  <2>3. Max(named(k, name)) = k
    <3> HIDE DEF named
    <3> QED BY <2>1, <2>2 DEF Max
  <2>4. named(k, name) # {}
    BY <2>1
  <2> QED BY <2>3, <2>4
<1>6. ASSUME NEW s, s # name
      PROVE  value(k, s) = value(k - 1, s)
  <2>1. named(k, s) = named(k - 1, s)
    BY <1>2, <1>3, <1>6
  <2> QED BY <2>1
<1> HIDE DEF known, value, named
<1>7. Arities(m, k) = [s \in known(k - 1) \cup {name} |->
                         IF s = name THEN Len(m.functions[k].arguments) ELSE Arities(m, k - 1)[s]]
  BY <1>1, <1>4, <1>5, <1>6
<1>8. DOMAIN Arities(m, k - 1) = known(k - 1)
  BY <1>1
<1> QED BY <1>7, <1>8 DEF With

(* What the module declares is what is seen from its context.              *)
LEMMA SeesGlobals ==
  ASSUME NEW m, Len(m.declarations) \in Nat, ~Redefines(m.declarations),
         NEW g, g = ContextOf(m.declarations, TRUE)
  PROVE  Sees(<<Globals(m)>>, <<g>>)
<1> DEFINE scope == Globals(m)
<1>1. /\ DOMAIN g = Symbols(m.declarations)
      /\ \A s \in Symbols(m.declarations) : g[s].constant <=> DeclaresConstant(m.declarations, s)
  BY DeclaredContext
<1>2. DOMAIN scope = DOMAIN g /\ \A s \in DOMAIN g : scope[s] <=> g[s].constant
  BY <1>1 DEF Globals
<1> HIDE DEF scope
<1>3. PICK cs : cs = <<g>>
  OBVIOUS
<1>4. PICK scopes : scopes = <<scope>>
  OBVIOUS
<1>5. /\ IsSequence(cs) /\ Len(cs) = 1 /\ cs[1] = g
      /\ IsSequence(scopes) /\ Len(scopes) = 1 /\ scopes[1] = scope
  BY <1>3, <1>4, ShortSequences
<1>6. ASSUME NEW k \in 1 .. Len(cs)
      PROVE  /\ DOMAIN scopes[k] = UNION {DOMAIN cs[j] : j \in k .. Len(cs)}
             /\ \A j \in k .. Len(cs) : \A s \in DOMAIN cs[j] :
                  (\A i \in k .. j - 1 : s \notin DOMAIN cs[i]) =>
                    (scopes[k][s] <=> cs[j][s].constant)
  <2>1. k = 1 /\ 1 .. 1 = {1}
    BY <1>5
  <2>2. UNION {DOMAIN cs[j] : j \in {1}} = DOMAIN g
    BY <1>5
  <2> QED BY <1>2, <1>5, <2>1, <2>2
<1>7. Sees(scopes, cs)
  BY <1>5, <1>6 DEF Sees
<1> QED BY <1>3, <1>4, <1>7 DEF scope

\* The fields of a view.
LEMMA ViewFields ==
  ASSUME NEW x, NEW o \in BOOLEAN, NEW s, NEW a, x = [open |-> o, scopes |-> s, arity |-> a]
  PROVE  (x.open <=> o) /\ x.scopes = s /\ x.arity = a
OBVIOUS

(* The functions of the module are compiled one after the other, and       *)
(* main() after them.                                                      *)
LEMMA ModuleLegal ==
  ASSUME LegalInv, BlocksInv, VisitModule
  PROVE  LegalInv'
<1>1. todo # <<>> /\ status = "running" /\ Top.at = "visit" /\ Top.node.kind = "module"
  BY DEF VisitModule, Visiting, Running
<1>2. Unstarted
  <2>1. 1 \in 1 .. Len(todo) /\ Top = todo[1]
    BY <1>1, TailFacts, SequenceFacts DEF BlocksInv, Top
  <2>2. IsVisit(todo[1], {"module"})
    BY <1>1, <2>1 DEF IsVisit
  <2> QED BY <1>1, <2>1, <2>2 DEF LegalInv
<1>3. PICK m \in Modules : m = module
  BY DEF LegalInv
<1>4. IsModule(m)
  BY GrammarAssumption
<1>5. Top.node = m /\ Len(todo) = 1 /\ IsSequence(todo)
  <2>1. todo = <<Visit(m)>>
    BY <1>2, <1>3 DEF Unstarted
  <2>2. IsSequence(todo) /\ Len(todo) = 1 /\ Top = Visit(m)
    BY <2>1, ShortSequences DEF Top
  <2> QED BY <2>2 DEF Visit
<1>6. CASE Redefines(m.declarations)
  <2>1. Throw
    BY <1>5, <1>6 DEF VisitModule
  <2>2. ~LegalModule(m, Trees)
    BY <1>6 DEF LegalModule
  <2>3. status' = "rejected" /\ module' = module
    BY <2>1 DEF Throw
  <2> QED BY <1>3, <2>2, <2>3 DEF LegalInv, RejectsTheIllegal
<1>7. CASE ~Redefines(m.declarations)
  <2> DEFINE l == Len(m.functions)
             fs == m.functions
  <2>1. /\ Len(m.declarations) \in Nat /\ l \in Nat /\ m.body \in Trees
        /\ \A k \in 1 .. l : fs[k].kind = "function" /\ fs[k].body \in Trees
    BY <1>4 DEF IsModule, IsFunction, Trees
  <2>2. PICK g : g = ContextOf(m.declarations, TRUE)
    OBVIOUS
  <2>3. PICK functions : functions = [k \in 1 .. l |-> Visit(fs[k])]
    OBVIOUS
  <2>4. PICK main : main = [at |-> "main", node |-> m]
    OBVIOUS
  <2>5. PICK calls : calls = functions \o <<main>>
    OBVIOUS
  <2>6. Then(calls) /\ c' = <<g>> /\ UNCHANGED <<arity, bb>>
    BY <1>5, <1>7, <2>2, <2>3, <2>4, <2>5 DEF VisitModule
  <2>7. /\ IsSequence(calls) /\ Len(calls) = l + 1
        /\ \A k \in 1 .. l : calls[k] = Visit(fs[k])
        /\ calls[l + 1] = main
    <3>1. IsSequence(functions) /\ Len(functions) = l
      <4>1. functions = [k \in 1 .. l |-> functions[k]]
        BY <2>3
      <4> QED BY <2>1, <4>1, FunctionSequence
    <3>2. IsSequence(<<main>>) /\ Len(<<main>>) = 1 /\ <<main>>[1] = main /\ 1 \in 1 .. 1
      BY ShortSequences
    <3>3. /\ IsSequence(calls) /\ Len(calls) = l + 1
          /\ \A k \in 1 .. l : calls[k] = functions[k]
          /\ calls[l + 1] = main
      BY <2>5, <3>1, <3>2, ConcatFacts
    <3> QED BY <2>3, <3>3
  <2>8. Len(todo') = l + 1 /\ \A k \in 1 .. l + 1 : todo'[k] = calls[k]
    <3>1. /\ Len(todo') = Len(calls) + Len(todo) - 1
          /\ \A k \in 1 .. Len(calls) : todo'[k] = calls[k]
      BY <1>1, <1>5, <2>6, <2>7, Replaced DEF Then
    <3> QED BY <1>5, <2>1, <2>7, <3>1
  <2> DEFINE globals == Globals(m)
             opened(k) == k > 1 /\ ~IsReturning(fs[k - 1].body)
  <2>a. PICK scopes : scopes = <<Globals(m)>>
    OBVIOUS
  <2>9. PICK w : w = [k \in 1 .. l + 2 |->
                        IF k = l + 2
                        THEN [open |-> ~IsReturning(m.body), scopes |-> scopes,
                              arity |-> With(Arities(m, l), "main", 0)]
                        ELSE [open |-> opened(k), scopes |-> scopes, arity |-> Arities(m, k - 1)]]
    OBVIOUS
  <2> HIDE DEF globals, opened
  <2>10. /\ w[l + 2].open <=> ~IsReturning(m.body)
         /\ w[l + 2].scopes = scopes /\ w[l + 2].arity = With(Arities(m, l), "main", 0)
         /\ \A k \in 1 .. l + 1 : /\ w[k].open <=> opened(k)
                                  /\ w[k].scopes = scopes /\ w[k].arity = Arities(m, k - 1)
    <3>1. l + 2 \in 1 .. l + 2
      BY <2>1
    <3>2. w[l + 2] = [open |-> ~IsReturning(m.body), scopes |-> scopes,
                      arity |-> With(Arities(m, l), "main", 0)]
      BY <2>9, <3>1
    <3>3. ASSUME NEW k \in 1 .. l + 1
          PROVE  w[k] = [open |-> opened(k), scopes |-> scopes, arity |-> Arities(m, k - 1)]
      <4>1. k \in 1 .. l + 2 /\ k # l + 2
        BY <2>1
      <4> QED BY <2>9, <4>1
    <3>4. ASSUME NEW k \in 1 .. l + 1
          PROVE  (w[k].open <=> opened(k)) /\ w[k].scopes = scopes /\ w[k].arity = Arities(m, k - 1)
      <4>1. w[k] = [open |-> opened(k), scopes |-> scopes, arity |-> Arities(m, k - 1)]
        BY <3>3, Zenon
      <4>2. opened(k) \in BOOLEAN
        BY DEF opened
      <4> QED BY <4>1, <4>2, ViewFields
    <3>5. /\ w[l + 2].open <=> ~IsReturning(m.body)
          /\ w[l + 2].scopes = scopes /\ w[l + 2].arity = With(Arities(m, l), "main", 0)
      <4>1. (~IsReturning(m.body)) \in BOOLEAN
        OBVIOUS
      <4>2. PICK x : x = w[l + 2]
        OBVIOUS
      <4>3. /\ x.open <=> ~IsReturning(m.body)
            /\ x.scopes = scopes /\ x.arity = With(Arities(m, l), "main", 0)
        <5>1. x = [open |-> ~IsReturning(m.body), scopes |-> scopes,
                   arity |-> With(Arities(m, l), "main", 0)]
          BY <3>2, <4>2
        <5> QED BY <5>1
      <4> QED BY <4>2, <4>3
    <3> QED BY <3>4, <3>5
  <2>11. \A k \in 1 .. l + 1 : k \in 1 .. l \/ k = l + 1
    BY <2>1
  <2>12. ASSUME NEW k \in 1 .. l
         PROVE  /\ ~IsVisit(calls[k], {"module"}) /\ Leads(calls[k], w[k], w[k + 1])
                /\ Accepts(calls[k], w[k]) <=> LegalFunction(fs[k], Trees, globals, Arities(m, k - 1))
    <3>1. k \in 1 .. l + 1 /\ k + 1 \in 1 .. l + 1 /\ (k + 1) - 1 = k /\ k + 1 > 1 /\ k \in Nat \ {0}
      BY <2>1
    <3>2. calls[k].at = "visit" /\ calls[k].node = fs[k] /\ fs[k].kind = "function"
      <4>1. calls[k] = Visit(fs[k]) /\ fs[k].kind = "function"
        BY <2>1, <2>7
      <4> QED BY <4>1 DEF Visit
    <3>3. /\ IsVisit(calls[k], {"function"}) /\ IsVisit(calls[k], {"module", "function"})
          /\ ~IsVisit(calls[k], {"module"})
      BY <3>2 DEF IsVisit
    <3>4. OpenAfter(calls[k], w[k]) <=> ~IsReturning(fs[k].body)
      BY <3>2, <3>3 DEF OpenAfter
    <3>5. w[k + 1].open <=> ~IsReturning(fs[k].body)
      BY <2>10, <3>1 DEF opened
    <3>6. Arities(m, k) = With(Arities(m, k - 1), fs[k].name, Len(fs[k].arguments))
      BY <3>1, AritiesGrow
    <3>7. w[k].arity = Arities(m, k - 1) /\ w[k + 1].arity = Arities(m, k)
      BY <2>10, <3>1
    <3>8. w[k].scopes = scopes /\ w[k + 1].scopes = scopes /\ w[k].scopes[1] = globals
      BY <2>a, <2>10, <3>1 DEF globals
    <3>9. Leads(calls[k], w[k], w[k + 1])
      BY <3>2, <3>3, <3>4, <3>5, <3>6, <3>7, <3>8 DEF Leads
    <3>10. Accepts(calls[k], w[k]) <=> LegalFunction(fs[k], Trees, w[k].scopes[1], w[k].arity)
      BY <3>2, <3>3 DEF Accepts
    <3> QED BY <3>3, <3>7, <3>8, <3>9, <3>10
  <2>13. /\ ~IsVisit(calls[l + 1], {"module"}) /\ Leads(calls[l + 1], w[l + 1], w[(l + 1) + 1])
         /\ Accepts(calls[l + 1], w[l + 1]) <=>
              Legal(m.body, Trees, globals, With(Arities(m, l), "main", 0))
    <3>1. l + 1 \in 1 .. l + 1 /\ (l + 1) - 1 = l /\ (l + 1) + 1 = l + 2
      BY <2>1
    <3>2. main.at = "main" /\ main.node = m /\ calls[l + 1] = main
      BY <2>4, <2>7
    <3>3. \A kinds : ~IsVisit(main, kinds)
      BY <3>2 DEF IsVisit
    <3>4. w[l + 1].arity = Arities(m, l) /\ w[l + 1].scopes = scopes
      BY <2>10, <3>1
    <3>5. w[l + 1].scopes[1] = globals
      BY <2>a, <3>4 DEF globals
    <3>6. OpenAfter(main, w[l + 1]) <=> ~IsReturning(m.body)
      BY <3>2, <3>3 DEF OpenAfter
    <3>7. Leads(main, w[l + 1], w[l + 2])
      BY <2>10, <3>2, <3>3, <3>4, <3>6 DEF Leads
    <3>8. Accepts(main, w[l + 1]) <=>
            Legal(m.body, Trees, w[l + 1].scopes[1], With(w[l + 1].arity, "main", 0))
      BY <3>2, <3>3 DEF Accepts
    <3>9. Accepts(main, w[l + 1]) <=> Legal(m.body, Trees, globals, With(Arities(m, l), "main", 0))
      BY <3>4, <3>5, <3>8
    <3> QED BY <3>1, <3>2, <3>3, <3>7, <3>9
  <2>14. \A k \in 1 .. Len(todo') :
            Leads(todo'[k], w[k], w[k + 1]) /\ ~IsVisit(todo'[k], {"module"})
    BY <2>8, <2>11, <2>12, <2>13
  <2>15. LegalModule(m, Trees) <=> \A k \in 1 .. Len(todo') : Accepts(todo'[k], w[k])
    <3>1. LegalModule(m, Trees) <=>
            /\ \A k \in 1 .. l : LegalFunction(fs[k], Trees, globals, Arities(m, k - 1))
            /\ Legal(m.body, Trees, globals, With(Arities(m, l), "main", 0))
      BY <1>7 DEF LegalModule, globals
    <3>2. (\A k \in 1 .. Len(todo') : Accepts(todo'[k], w[k])) <=>
            /\ \A k \in 1 .. l : Accepts(calls[k], w[k])
            /\ Accepts(calls[l + 1], w[l + 1])
      <4>1. l + 1 \in 1 .. l + 1 /\ \A k \in 1 .. l : k \in 1 .. l + 1
        BY <2>1
      <4> QED BY <2>8, <2>11, <4>1
    <3> QED BY <2>12, <2>13, <3>1, <3>2
  <2>16. Finds(w[1])' /\ Len(c') > 0
    <3>1. 1 \in 1 .. l + 1 /\ 1 - 1 = 0
      BY <2>1
    <3>2. ~w[1].open /\ w[1].scopes = scopes /\ w[1].arity = Runtime
      BY <2>10, <3>1, AritiesStart DEF opened
    <3>3. arity = Runtime /\ bb = 0
      BY <1>2 DEF Unstarted
    <3>4. Sees(scopes, <<g>>)
      BY <1>7, <2>1, <2>2, <2>a, SeesGlobals
    <3>5. Len(<<g>>) > 0
      BY ShortSequences
    <3> QED BY <2>6, <3>2, <3>3, <3>4, <3>5 DEF Finds
  <2>17. status' = "running" /\ module' = m
    BY <1>1, <1>3, <2>6 DEF Then
  <2>18. StackLegal(w)'
    BY <2>14, <2>15, <2>16, <2>17 DEF StackLegal
  <2> QED BY <2>14, <2>16, <2>17, <2>18 DEF LegalInv, RejectsTheIllegal
<1> QED BY <1>6, <1>7

-----------------------------------------------------------------------------
(* Every step. *)

\* Init, all steps together, and so the invariant.
LEMMA LegalInit ==
  ASSUME Init
  PROVE  LegalInv
<1>1. PICK m \in Modules : module = m /\ todo = <<Visit(m)>>
  BY DEF Init
<1>2. /\ status = "running" /\ bb = 0 /\ c = <<>>
      /\ arity = [n \in {"read_", "write_"} |-> IF n = "read_" THEN 0 ELSE 1]
  BY Zenon DEF Init, Constructed
<1>3. arity = Runtime
  BY <1>2 DEF Runtime
<1>4. Unstarted
  BY <1>1, <1>2, <1>3 DEF Unstarted
<1>5. PICK x : x = [open |-> FALSE, scopes |-> <<>>, arity |-> Runtime]
  OBVIOUS
<1>6. PICK v : v = <<x, x>>
  OBVIOUS
<1>7. v[1] = x /\ v[2] = x /\ v[1 + 1] = x
  BY <1>6
<1>8. PICK call : call = Visit(m)
  OBVIOUS
<1>9. /\ IsVisit(call, {"module"}) /\ IsVisit(call, {"module", "function"})
      /\ ~IsVisit(call, {"function"}) /\ call.at = "visit" /\ call.node = m
  <2>1. IsModule(m)
    BY GrammarAssumption
  <2> QED BY <1>8, <2>1 DEF IsModule, IsVisit, Visit
<1>10. Leads(call, x, x)
  <2>1. OpenAfter(call, x) <=> x.open
    BY <1>9 DEF OpenAfter
  <2> QED BY <1>9, <2>1 DEF Leads
<1>11. Accepts(call, x) <=> LegalModule(m, Trees)
  BY <1>9 DEF Accepts
<1>12. Finds(x)
  <2>1. Sees(<<>>, <<>>)
    <3>1. PICK s : s = <<>>
      OBVIOUS
    <3>2. IsSequence(s) /\ Len(s) = 0 /\ 1 .. Len(s) = {}
      BY <3>1, ShortSequences
    <3>3. Sees(s, s)
      BY <3>2 DEF Sees
    <3> QED BY <3>1, <3>3
  <2> QED BY <1>2, <1>3, <1>5, <2>1 DEF Finds
<1>13. Len(todo) = 1 /\ todo[1] = call /\ 1 .. Len(todo) = {1}
  BY <1>1, <1>8, ShortSequences
<1>14. StackLegal(v)
  BY <1>1, <1>7, <1>10, <1>11, <1>12, <1>13 DEF StackLegal
<1> QED BY <1>1, <1>2, <1>4, <1>14 DEF LegalInv, RejectsTheIllegal

(* The end of compile().                                                   *)
LEMMA VerifyLegal ==
  ASSUME LegalInv, BlocksInv, Verify
  PROVE  LegalInv'
<1>1. /\ todo = <<>> /\ status = "running" /\ module' = module
      /\ status' \in {"compiled", "invalid"}
  BY DEF Verify
<1>2. PICK v : StackLegal(v)
  BY <1>1 DEF LegalInv
<1>3. 1 .. Len(todo) = {}
  BY <1>1, ShortSequences
<1>4. LegalModule(module, Trees)
  BY <1>2, <1>3 DEF StackLegal
<1> QED BY <1>1, <1>4 DEF LegalInv, RejectsTheIllegal

LEMMA LegalInvInductive ==
  /\ Init => LegalInv
  /\ LegalInv /\ BlocksInv /\ [Next]_vars => LegalInv'
<1>1. ASSUME LegalInv, BlocksInv, [Next]_vars PROVE LegalInv'
  <2>1. CASE VisitModule \/ VisitFunction \/ VisitMain \/ Unroll
    BY <1>1, <2>1, ModuleLegal, FunctionLegal, MainLegal, UnrollLegal
  <2>2. CASE FinishBody
    BY <1>1, <2>2, AppendLegal
  <2>3. CASE Statement
    BY <1>1, <2>3, BlockLegal, StatementLegal, OperandsLegal, AppendLegal, LeafLegal, CheckedLegal,
       IfLegal, WhileLegal
       DEF Statement
  <2>4. CASE Expression
    BY <1>1, <2>4, LeafLegal, AppendLegal, OperandsLegal, BinaryLegal, ArgumentsLegal, CheckedLegal
       DEF Expression
  <2>5. CASE Verify
    BY <1>1, <2>5, VerifyLegal
  <2>6. CASE Stopped \/ UNCHANGED vars
    BY <1>1, <2>6
       DEF Stopped, vars, LegalInv, RejectsTheIllegal, Unstarted, StackLegal, Finds
  <2> QED BY <1>1, <2>1, <2>2, <2>3, <2>4, <2>5, <2>6 DEF Next
<1> QED BY <1>1, LegalInit

(* The compiler rejects a program exactly when it breaks a rule of the     *)
(* language, whatever the program.                                         *)
THEOREM RejectsExactlyTheIllegal == Spec => []RejectsTheIllegal
<1>1. LegalInv => RejectsTheIllegal
  BY DEF LegalInv
<1> QED BY <1>1, LegalInvInductive, BlocksInvInductive, PTL DEF Spec
=============================================================================
