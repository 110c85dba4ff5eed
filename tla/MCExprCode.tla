----------------------------- MODULE MCExprCode -----------------------------
(***************************************************************************)
(* Statements for ExprCode, and what they mean: Eval computes the value of *)
(* an expression from its tree, with no rax, stack or text.                *)
(***************************************************************************)
EXTENDS ExprCode

E(k, s, n, a) == [k |-> k, s |-> s, n |-> n, a |-> a]
Var(v) == E("var", v, 0, << >>)
Op(op, l, r) == E("op", op, 0, <<l, r>>)
Call(f, args) == E("call", f, 0, args)

MCFuncs == [zero |-> "int", one |-> "int", two |-> "int", len |-> "int", mix |-> "int",
            test |-> "bool", make |-> "str", from |-> "str", proc |-> "none"]
MCTypes == [x |-> "int", y |-> "int", b |-> "bool", s |-> "str",
            u |-> "u8", h |-> "i16", w |-> "u16"]
\* A U16 above 32767 is loaded as a negative number.
MCInitEnv == [x |-> 5, y |-> 2, b |-> 0, s |-> 101, u |-> 3, h |-> -300, w |-> 30000]
MCInitMemory == (100 :> [text |-> 4, static |-> TRUE]) @@ (101 :> [text |-> 6, static |-> TRUE])

\* Any function that tells its arguments and their order apart.
MCResult(f, args) ==
    LET sum == IF Len(args) = 0 THEN 3
               ELSE IF Len(args) = 1 THEN args[1] + 1 ELSE 2 * args[1] + 3 * args[2]
    IN  IF f = "test" THEN Truth(sum > 3) ELSE sum

-----------------------------------------------------------------------------
(* The meaning of a tree: operands from left to right, arguments from      *)
(* right to left, the operands of && and || as far as needed.              *)

Val(v, calls, trap) == [v |-> v, calls |-> calls, trap |-> trap]

RECURSIVE Eval(_, _), EvalAll(_, _), EvalLogic(_, _, _)

\* The values of several expressions, evaluated in order.
EvalAll(es, calls) ==
    IF es = << >> THEN Val(<< >>, calls, FALSE)
    ELSE LET first == Eval(es[1], calls)
             rest == EvalAll(Tail(es), first.calls)
         IN  IF first.trap THEN first
             ELSE [rest EXCEPT !.v = IF rest.trap THEN @ ELSE <<first.v>> \o @]

\* stop is the value after which && (0) or || (1) needs no further operand.
EvalLogic(es, stop, calls) ==
    LET first == Eval(es[1], calls)
    IN  IF first.trap \/ first.v = stop \/ Len(es) = 1 THEN first
        ELSE EvalLogic(Tail(es), stop, first.calls)

Eval(e, calls) ==
    CASE e.k = "var" -> Val(IF Types[e.s] = "str" THEN InitMemory[InitEnv[e.s]].text
                            ELSE InitEnv[e.s], calls, FALSE)
      [] e.k \in {"int", "bool"} -> Val(e.n, calls, FALSE)
      [] e.k = "str" -> Val(InitMemory[e.n].text, calls, FALSE)
      [] e.k \in {"neg", "not"} ->
            LET r == Eval(e.a[1], calls)
            IN  IF r.trap THEN r ELSE [r EXCEPT !.v = IF e.k = "neg" THEN -@ ELSE 1 - @]
      [] e.k = "op" ->
            LET r == EvalAll(e.a, calls)
            IN  IF r.trap THEN r
                ELSE IF Divides(e.s, r.v[1], r.v[2]) THEN [r EXCEPT !.trap = TRUE]
                ELSE [r EXCEPT !.v = Apply(e.s, @[1], @[2])]
      [] e.k = "and" -> EvalLogic(e.a, 0, calls)
      [] e.k = "or" -> EvalLogic(e.a, 1, calls)
      [] e.k = "call" ->
            LET r == EvalAll(Reverse(e.a), calls)
                args == Reverse(r.v)
            IN  IF r.trap THEN r
                ELSE Val(MCResult(e.s, args), Append(r.calls, <<e.s, args>>), FALSE)

RECURSIVE IsConst(_)
IsConst(e) ==
    \/ e.k \in {"int", "bool", "str"}
    \/ e.k \in {"neg", "not", "op"} /\ \A i \in DOMAIN e.a : IsConst(e.a[i])

\* A constant is assigned unchanged, or not at all; a number that is computed
\* is cut to the variable's type.
Stored(p, n) ==
    IF p.op = "=" /\ p.e.k \in {"int", "neg"} /\ IsConst(p.e) THEN n
    ELSE Wrap(Types[p.s], n)

\* What the statement does: the new value of its variable, or its result.
Meaning(p) ==
    LET r == Eval(p.e, << >>)
        old == InitEnv[p.s]
        trap == r.trap \/ (p.k = "assign" /\ p.op = "/" /\ r.v = 0)
    IN  [calls |-> r.calls,
         trap |-> trap,
         env |-> IF trap \/ p.k # "assign" THEN InitEnv
                 ELSE [InitEnv EXCEPT ![p.s] = Stored(p, Assign(p.op, old, r.v))],
         res |-> IF trap \/ p.k \in {"assign", "call"} THEN 0 ELSE r.v]

-----------------------------------------------------------------------------
(* The statements whose code is right.  The compiler accepts others; what  *)
(* it makes of them is listed in the README.                               *)

RECURSIVE Leads(_), Sound(_), TempIn(_)

\* The expression begins with a call: its code is in the text that was there.
Leads(e) ==
    \/ e.k = "call"
    \/ e.k \in {"neg", "not", "op", "and", "or"} /\ Leads(e.a[1])

\* A call in e has a temporary as argument.
TempIn(e) ==
    \E i \in DOMAIN e.a : (e.k = "call" /\ IsTemp(e.a[i])) \/ TempIn(e.a[i])

\* A call without arguments drops the entry of its operand.
RECURSIVE LeadsEmpty(_)
LeadsEmpty(e) ==
    \/ e.k = "call" /\ e.a = << >>
    \/ e.k \in {"neg", "not", "op", "and", "or"} /\ LeadsEmpty(e.a[1])

SoundNode(e) ==
    CASE e.k = "op" ->
            /\ ~LeadsEmpty(e.a[2]) \/ IsConst(e.a[1])
            /\ IsConst(e) => LET v == [i \in {1, 2} |-> Eval(e.a[i], << >>)]
                             IN  ~v[1].trap /\ ~v[2].trap /\ v[1].v >= 0 /\ v[2].v >= 0
                                 /\ ~Divides(e.s, v[1].v, v[2].v)
      [] e.k = "not" -> ~IsConst(e.a[1])
      [] e.k \in {"and", "or"} ->
            /\ \A i \in DOMAIN e.a : ~IsConst(e.a[i])
            /\ e.a[1].k # "call"
            /\ \A i \in 2..Len(e.a) : ~Leads(e.a[i])
      [] e.k = "call" ->
            /\ \A i, j \in DOMAIN e.a : IsTemp(e.a[i]) /\ IsTemp(e.a[j]) => i = j
            /\ \A i \in 2..Len(e.a) : ~TempIn(e.a[i])
      [] OTHER -> TRUE

Sound(e) == SoundNode(e) /\ \A i \in DOMAIN e.a : Sound(e.a[i])

SoundStatement(p) ==
    /\ Sound(p.e)
    /\ ~(Types[p.s] = "u16" /\ IsConst(p.e) /\ Eval(p.e, << >>).v < 0)
    /\ p.k = "assign" => ~(p.op = "/" /\ ~IsConst(p.e)) /\ ~(p.op = "*" /\ p.e.k = "call")
    /\ p.k = "if" => ~IsConst(p.e)
    /\ p.k = "return" => p.e.k # "call"

-----------------------------------------------------------------------------
Arith == {"-", "/"}

Ints0 == {Var("x"), Var("y"), E("int", "", 3, << >>)}
Strs == {E("str", "", 100, << >>), Var("s"), Call("make", << >>), Call("from", <<Var("y")>>)}
Bools0 == {Var("b"), E("bool", "", 1, << >>)}

IntsOf(es, bs) ==
    {E("neg", "", 0, <<e>>) : e \in es} \cup {Op(o, l, r) : o \in Arith, l, r \in es}
    \cup {Call("one", <<e>>) : e \in es} \cup {Call("two", <<l, r>>) : l, r \in es}

Ints1 == Ints0 \cup IntsOf(Ints0, Bools0) \cup {Call("zero", << >>)}
         \cup {Call("len", <<e>>) : e \in Strs}
         \cup {Call("mix", <<e, t>>) : e \in {Var("x"), Call("zero", << >>)}, t \in Strs}

Bools1 ==
    Bools0 \cup {Op("<", l, r) : l, r \in Ints0} \cup {E("not", "", 0, <<e>>) : e \in Bools0}
    \cup {Call("test", <<e>>) : e \in Ints0}
    \cup {E(k, "", 0, <<Var("b"), e>>) : k \in {"and", "or"},
                                        e \in {Op("==", Var("x"), Call("one", <<Var("y")>>)),
                                               Op("<", Op("/", Var("x"), Op("-", Var("y"), Var("y"))), Var("x"))}}

Ints2 == IntsOf(Ints1, Bools1) \cup {Op("-", l, r) : l \in Ints0, r \in Bools1}
Bools2 ==
    {Op("<", l, r) : l, r \in Ints1} \cup {Op("==", l, E("bool", "", 1, << >>)) : l \in Bools1}
    \cup {E("not", "", 0, <<e>>) : e \in Bools1} \cup {Call("test", <<e>>) : e \in Bools1}
    \cup {E(k, "", 0, <<l, r>>) : k \in {"and", "or"}, l, r \in Bools1}
    \cup {E(k, "", 0, <<l, m, r>>) : k \in {"and", "or"}, l \in Bools1,
              m \in {Var("b"), Op("<", Var("y"), Var("x"))}, r \in {Var("b"), Op("<", Var("y"), Var("x"))}}

\* The ends of the types' ranges, and numbers of all types.
Edges == LET c(n) == E("int", "", n, << >>) IN
         {c(n) : n \in {0, 255, 256, 32767, 32768, 65535, 65536}}
         \cup {E("neg", "", 0, <<c(n)>>) : n \in {1, 32768, 32769, 65535}}
Shorts == LET names == {Var(v) : v \in {"u", "h", "w", "x"}} IN
          names \cup {Op("-", l, r) : l \in names, r \in names \cup {E("int", "", 300, << >>)}}
          \cup {Var("b"), E("bool", "", 1, << >>)}

Stm(k, s, op, e) == [k |-> k, s |-> s, op |-> op, e |-> e]

MCPrograms == {p \in
    {Stm("assign", "x", "=", e) : e \in Ints2}
    \cup {Stm("assign", "x", op, e) : op \in {"-", "*", "/"}, e \in Ints1}
    \cup {Stm("assign", "b", "=", e) : e \in Bools1 \cup Shorts}
    \cup {Stm("assign", v, op, e) : v \in {"u", "h", "w", "x"}, op \in {"=", "-"},
                                    e \in Edges \cup Shorts}
    \cup {Stm("return", v, "", e) : v \in {"u", "h", "w"}, e \in Edges}
    \cup {Stm("if", "b", "", e) : e \in Bools2}
    \cup {Stm("return", "x", "", e) : e \in Ints1} \cup {Stm("return", "b", "", e) : e \in Bools1}
    \cup {Stm("call", "x", "", Call("proc", a)) :
            a \in {<< >>} \cup {<<e>> : e \in Ints1 \cup Strs}
                 \cup {<<e, t>> : e \in Strs \cup {Var("x")}, t \in Ints1 \cup Strs}} : SoundStatement(p)}

\* These statements are plain, but for those in which a call without arguments
\* follows a constant.
RECURSIVE Below(_)
Below(e) == {e} \cup UNION {Below(e.a[i]) : i \in DOMAIN e.a}

MCPlainPrograms ==
    {p \in MCPrograms : \A e \in Below(p.e) : e.k = "op" => ~LeadsEmpty(e.a[2])}

MCTrees ==
    LET all == UNION {Below(p.e) : p \in MCPlainPrograms}
        const == {e \in all : IsConst(e)}
    IN  [all |-> all, const |-> const,
         num |-> [e \in const |-> IF e.k = "str" THEN 0 ELSE Eval(e, << >>).v],
         lead |-> {e \in all : Leads(e)}, empty |-> {e \in all : LeadsEmpty(e)},
         temps |-> {e \in all : TempIn(e)}]

ASSUME MCPlain ==
    PlainTrees(MCTrees) /\ \A p \in MCPlainPrograms : PlainStatement(MCTrees, p)

\* What the code did is what the statement means: the same value, the same
\* calls in the same order with the same arguments, the same division by zero.
ResultIsMeaning ==
    phase \in {"done", "trap"} =>
        LET m == Meaning(prog)
        IN  /\ (phase = "trap") = m.trap
            /\ mach.calls = m.calls
            /\ m.trap \/ (mach.env = m.env /\ (prog.k # "call" => mach.res = m.res))
=============================================================================
