------------------------------ MODULE ExprCode ------------------------------
(***************************************************************************)
(* The code of one statement: the parser walks its expression and emits    *)
(* instructions, the machine executes them.  The parser does not build a   *)
(* tree; it knows only where the last value is (rax, the stack, or         *)
(* nowhere) and orders pieces of text on the stack ArgCode, so that the    *)
(* instructions run in another order than they were emitted in.            *)
(*                                                                         *)
(* An expression is the tree that the parser's recursion makes of it: k is *)
(* its kind, s a variable, operator or function, n a number or the address *)
(* of a literal, a the operands.  The recursion itself is the sequence     *)
(* todo of what remains to be parsed.                                      *)
(***************************************************************************)
EXTENDS Integers, Sequences, SequencesExt

CONSTANTS
    Programs,       \* statements: [k, s, op, e], see Begin
    Funcs,          \* function |-> the type it returns, "none" for a procedure
    Types,          \* variable |-> its type
    InitEnv,        \* variable |-> its value, for a string an address
    InitMemory,     \* address |-> [text, static]: literals and strings of variables
    Result(_, _)    \* what a function returns for the contents of its arguments

FirstAddress == 200     \* strings that functions make are put from here on

ASSUME MemoryAssumption ==
    /\ InitMemory = [a \in DOMAIN InitMemory |-> InitMemory[a]]
    /\ \A a \in DOMAIN InitMemory : a \in Nat /\ a < FirstAddress

VARIABLES
    prog,       \* the statement
    todo,       \* what the parser has yet to do
    vals,       \* the ValueDefs of the parsers that have not returned
    gen,        \* the state of package code
    mach,       \* the machine that runs the emitted code
    phase       \* "parse", "run", or how it ended

vars == <<prog, todo, vals, gen, mach, phase>>

-----------------------------------------------------------------------------
(* Package code: state says where the value is, arg and clean are the      *)
(* stacks ArgCode and CleanupCode, file is the output, sp is LocalSp.      *)

Ins(op, s, n) == [op |-> op, s |-> s, n |-> n]
Push == Ins("push", "", 1)
Pop == Ins("pop", "", 1)

At(g, st) == [g EXCEPT !.state = st]

Write(g, i) ==
    IF g.arg = << >> THEN [g EXCEPT !.file = Append(@, i)]
                     ELSE [g EXCEPT !.arg[Len(g.arg)] = Append(@, i)]

Growth(i) ==
    IF i.op \in {"push", "reserve"} THEN i.n
    ELSE IF i.op \in {"pop", "drop", "operator"} THEN -i.n ELSE 0

Emit(g, i) == [Write(g, i) EXCEPT !.sp = @ + Growth(i)]

NewArgCode(g) == [g EXCEPT !.arg = Append(@, << >>)]

\* Mutant: the pieces always follow each other as they were emitted.
ConsInOrder(g, count, reverse) ==
    LET first == Len(g.arg) - (IF count < Len(g.arg) THEN count ELSE Len(g.arg))
    IN  IF count = 0 \/ g.arg = << >> THEN g
        ELSE [g EXCEPT !.arg = SubSeq(g.arg, 1, first)
                \o << FlattenSeq(SubSeq(g.arg, first + 1, Len(g.arg))) >>]

ConsArgCode(g, count, reverse) ==
    LET first == Len(g.arg) - (IF count < Len(g.arg) THEN count ELSE Len(g.arg))
        last == SubSeq(g.arg, first + 1, Len(g.arg))
    IN  IF count = 0 \/ g.arg = << >> THEN g
        ELSE [g EXCEPT !.arg = SubSeq(g.arg, 1, first)
                \o << FlattenSeq(IF reverse THEN Reverse(last) ELSE last) >>]

OutputArgCode(g) ==
    IF g.arg = << >> THEN g
    ELSE [g EXCEPT !.file = @ \o g.arg[1], !.arg = << >>]

PushCleanupCode(g) == [g EXCEPT !.clean = Append(@, << >>)]

SetCleanupCode(g, txt) ==
    IF txt = << >> THEN g ELSE [g EXCEPT !.clean[Len(g.clean)] = txt]

\* Mutant: the entries are taken from the bottom of the stack.
OutputFirstCleanup(g, n) ==
    [g EXCEPT !.arg[Len(g.arg)] = @ \o FlattenSeq(SubSeq(g.clean, 1, n))]

OutputCleanupCode(g, n) ==
    LET last == SubSeq(g.clean, Len(g.clean) - n + 1, Len(g.clean))
    IN  [g EXCEPT !.arg[Len(g.arg)] = @ \o FlattenSeq(Reverse(last))]

EmitFlushRax(g) == IF g.state = "ax" THEN At(Emit(g, Push), "undef") ELSE g

EmitAssertTosInRax(g) ==
    IF g.state = "sp" THEN At(Emit(g, Pop), "ax") ELSE g

EmitPushTos(g) == IF g.state = "ax" THEN At(Emit(g, Push), "sp") ELSE g

EmitLoad(g, v) == At(Emit(EmitFlushRax(g), Ins("load", v, 0)), "ax")

EmitPushConst(g, n) == At(Emit(EmitFlushRax(g), Ins("const", "", n)), "ax")

EmitLoadBool(g, n) == At(Emit(g, Ins("const", "", n)), "ax")

EmitNot(g) == Emit(EmitAssertTosInRax(g), Ins("unary", "not", 0))

EmitNegate(g) == Emit(EmitAssertTosInRax(g), Ins("unary", "neg", 0))

EmitJump(g, jump, lbl) == At(Emit(g, Ins(jump, "", lbl)), "undef")

EmitAddToSp(g, n) ==
    IF n > 0 THEN Emit(g, Ins("reserve", "", n))
    ELSE IF n < 0 THEN Emit(g, Ins("drop", "", -n)) ELSE g

EmitCall(g, f, n) ==
    Emit(IF n > 0 /\ g.state = "ax" THEN Emit(g, Push) ELSE g, Ins("call", f, n))

-----------------------------------------------------------------------------
(* Operators.  A number is cut towards zero by idiv.                       *)

Compares == {"<", "<=", ">", ">=", "==", "!="}

Sign(n) == IF n < 0 THEN -1 ELSE 1
Quotient(m, n) == Sign(m) * Sign(n) * ((Sign(m) * m) \div (Sign(n) * n))
Truth(p) == IF p THEN 1 ELSE 0

Apply(op, m, n) ==
    CASE op = "+" -> m + n
      [] op = "*" -> m * n
      [] op = "-" -> m - n
      [] op = "/" -> Quotient(m, n)
      [] op = "%" -> m - n * Quotient(m, n)
      [] op = "<" -> Truth(m < n)
      [] op = "<=" -> Truth(m <= n)
      [] op = ">" -> Truth(m > n)
      [] op = ">=" -> Truth(m >= n)
      [] op = "==" -> Truth(m = n)
      [] op = "!=" -> Truth(m # n)
      [] op = "inv-" -> n - m
      [] op = "inv/" -> Quotient(n, m)
      [] op = "inv%" -> n - m * Quotient(n, m)

Divides(op, m, n) ==
    \/ op \in {"/", "%"} /\ n = 0
    \/ op \in {"inv/", "inv%"} /\ m = 0

\* Integer types: what they hold, and what is left of a number stored in one.
Range64 == -2000000 .. 2000000      \* I64; the bound of the numbers here
Values(typ) ==
    CASE typ = "u8" -> 0 .. 255
      [] typ = "i16" -> -32768 .. 32767
      [] typ = "u16" -> 0 .. 65535
      [] typ = "int" -> Range64

IsInteger(typ) == typ \in {"u8", "i16", "u16", "int"}

Wrap(typ, n) ==
    CASE typ = "u8" -> n % 256
      [] typ = "u16" -> n % 65536
      [] typ = "i16" -> ((n + 32768) % 65536) - 32768
      [] OTHER -> n

\* MovOpcode: bytes are extended with zeros, other short integers by their sign.
Loaded(typ, n) == IF typ = "u16" THEN Wrap("i16", n) ELSE n

\* The operator that gives the same result for swapped operands.
InverseOp(op) ==
    CASE op = "<" -> ">"   [] op = "<=" -> ">="
      [] op = ">" -> "<"   [] op = ">=" -> "<="
      [] op = "-" -> "inv-" [] op = "/" -> "inv/" [] op = "%" -> "inv%"
      [] OTHER -> op

\* n is the number of a constant, lit the address of a literal.
ValueDef(typ) == [typ |-> typ, const |-> FALSE, n |-> 0, lit |-> 0, temp |-> FALSE]
Constant(typ, n) == [typ |-> typ, const |-> TRUE, n |-> n, lit |-> 0, temp |-> FALSE]
Literal(a) == [Constant("str", 0) EXCEPT !.lit = a]

\* The bounds in CanAssign; those of U16 reach below 0.
Fits(typ, n) ==
    n \in IF typ = "u16" THEN -65535 .. 65535 ELSE Values(typ)

\* May v be assigned to a variable of type dst?  For an expression only the
\* types count, and to an integer everything may be assigned.
CanAssign(dst, v) ==
    \/ dst = v.typ
    \/ v.const /\ v.lit = 0 /\ IsInteger(dst) /\ Fits(dst, v.n)
    \/ ~v.const /\ (IsInteger(dst) \/ (dst = "str" /\ IsInteger(v.typ)))

OpResult(op, v) == IF op \in Compares THEN ValueDef("bool") ELSE v

Outcome(g, v, err) == [g |-> g, v |-> v, err |-> err]

\* A number that starts with a minus sign gets the type of a string, see
\* TypeFromConstValue; the compiler divides two constants itself.
ConstOpConst(g, op, v1, v2) ==
    IF Divides(op, v1.n, v2.n) THEN Outcome(g, v1, "panic")
    ELSE Outcome(g, Constant(IF op \in Compares THEN "bool"
                             ELSE IF v1.n < 0 \/ v2.n < 0 THEN "str" ELSE "int",
                             Apply(op, v1.n, v2.n)), "")

EmitOpIntConst(g, op, n) == At(Emit(g, Ins("operconst", op, n)), "ax")

\* The value is in rax, the constant is v2.
TosOpConst(g, op, v1, v2) ==
    LET allowed == \/ IsInteger(v1.typ) /\ IsInteger(v2.typ)
                   \/ op \in Compares /\ v1.typ = "bool" /\ v2.typ = "bool"
        err == IF ~allowed THEN "rejected"
               ELSE IF op \notin Compares /\ g.state # "ax" THEN "panic" ELSE ""
    IN  Outcome(EmitOpIntConst(g, op, v2.n), OpResult(op, ValueDef(v1.typ)), err)

\* EmitIntegerOp and EmitCompareIntegers pop the left operand.
EmitIntegerOp(g, op) == At(Emit(g, Ins("operator", op, 1)), "ax")

\* The value is in rax, the left operand is on the stack.
TosOpNos(g, op, v1, v2) ==
    LET allowed == /\ IsInteger(v1.typ)
                   /\ IsInteger(v2.typ) \/ (op \notin Compares /\ v2.typ = "bool")
        err == IF ~allowed THEN "rejected"
               ELSE IF op \notin Compares /\ g.state # "ax" THEN "panic" ELSE ""
    IN  Outcome(EmitIntegerOp(g, op), OpResult(op, v1), err)

GenerateOp(g, op, v1, v2) ==
    IF v1.const /\ v2.const THEN ConstOpConst(g, op, v1, v2)
    ELSE IF v2.const THEN TosOpConst(EmitAssertTosInRax(g), op, v1, v2)
    ELSE IF v1.const THEN TosOpConst(EmitAssertTosInRax(g), InverseOp(op), v2, v1)
    ELSE TosOpNos(EmitAssertTosInRax(g), op, v1, v2)

-----------------------------------------------------------------------------
(* The parser.  A task is an expression to parse, or what is left of a     *)
(* function of the parser when an operand has been parsed.                 *)

\* In a loop i is the number of the operand, and n is kept from round to round.
Loop(t, e, n, i) == [t |-> t, e |-> e, n |-> n, i |-> i]
Task(t, e) == Loop(t, e, 0, 0)
Parse(e) == Task("expr", e)

\* The first task is t, of kind k if it is an expression.
Next1(t) == phase = "parse" /\ todo # << >> /\ todo[1].t = t
Expr(k) == Next1("expr") /\ todo[1].e.k = k

Become(tasks) == todo' = tasks \o Tail(todo)

Keep == UNCHANGED <<prog, mach>>

Parsed(g, v) ==
    gen' = g /\ vals' = Append(vals, v) /\ todo' = Tail(todo) /\ phase' = phase /\ Keep

Descend(tasks) == Become(tasks) /\ UNCHANGED <<prog, vals, gen, mach, phase>>

Stop(why) == phase' = why /\ UNCHANGED <<prog, todo, vals, gen, mach>>

LoadVariable ==
    Expr("var") /\ LET v == todo[1].e.s IN Parsed(EmitLoad(gen, v), ValueDef(Types[v]))

\* A constant has no code until it is used.
LoadConstant ==
    \E typ \in {"int", "bool", "str"} :
        /\ Expr(typ)
        /\ LET n == todo[1].e.n
           IN  Parsed(gen, IF typ = "str" THEN Literal(n) ELSE Constant(typ, n))

PushConstant(g, v) == EmitPushConst(g, IF v.typ = "str" THEN v.lit ELSE v.n)

\* -e and !e; the minus of a constant is put in front of its text, the not
\* of a constant changes rax.
ParseUnary ==
    \E k \in {"neg", "not"} :
        Expr(k) /\ Descend(<<Parse(todo[1].e.a[1]), Task(k, todo[1].e)>>)

Negate ==
    Next1("neg") /\
    LET v == Last(vals)
        negated == IF v.const THEN [v EXCEPT !.n = -@] ELSE v
    IN  IF v.const /\ v.n < 0 THEN Stop("rejected")    \* two signs are no number
        ELSE /\ gen' = IF v.const THEN gen ELSE EmitNegate(gen)
             /\ vals' = Append(Front(vals), negated)
             /\ Become(<< >>) /\ UNCHANGED <<prog, mach, phase>>

Not ==
    Next1("not") /\
    IF Last(vals).typ # "bool" THEN Stop("rejected")
    ELSE gen' = EmitNot(gen) /\ Become(<< >>) /\ UNCHANGED <<prog, vals, mach, phase>>

\* ParseProd, ParseSumTerm and ParseCompareTerm
ParseOperator ==
    Expr("op") /\ LET e == todo[1].e IN
    Descend(<<Parse(e.a[1]), Task("right", e), Parse(e.a[2]), Task("op", e)>>)

RightOperand ==
    Next1("right") /\ gen' = NewArgCode(gen) /\ Become(<< >>)
    /\ UNCHANGED <<prog, vals, mach, phase>>

Operator ==
    Next1("op") /\
    LET n == Len(vals)
        r == GenerateOp(NewArgCode(gen), todo[1].e.s, vals[n - 1], vals[n])
    IN  IF r.err # "" THEN Stop(r.err)
        ELSE /\ gen' = ConsArgCode(r.g, 3, FALSE)
             /\ vals' = Append(SubSeq(vals, 1, n - 2), r.v)
             /\ Become(<< >>) /\ UNCHANGED <<prog, mach, phase>>

\* ParseLogAnd and ParseExpression.
ParseLogic ==
    \E k \in {"and", "or"} :
        Expr(k) /\ LET e == todo[1].e IN Descend(<<Parse(e.a[1]), Loop("term", e, 0, 2)>>)

\* One label for the whole chain.  The value of the first operand stands for
\* it: LogTerm looks at it before every further operand.
LogTerm ==
    Next1("term") /\
    LET v == Last(vals)
        e == todo[1].e
        i == todo[1].i
        lbl == IF i = 2 THEN gen.labels + 1 ELSE todo[1].n
        g == IF i = 2 THEN [gen EXCEPT !.labels = lbl] ELSE gen
        loaded == IF v.const THEN EmitLoadBool(g, v.n) ELSE g
    IN  IF v.typ # "bool" THEN Stop("rejected")
        ELSE /\ gen' = EmitJump(loaded, IF e.k = "and" THEN "jz" ELSE "jnz", lbl)
             /\ Become(<<Parse(e.a[i]), Loop("drop", e, lbl, i)>>)
             /\ UNCHANGED <<prog, vals, mach, phase>>

DropOperand ==
    Next1("drop") /\
    LET t == todo[1]
        more == t.i < Len(t.e.a)
    IN  IF Last(vals).typ # "bool" THEN Stop("rejected")
        ELSE /\ vals' = Front(vals)
             /\ Become(<<Loop(IF more THEN "term" ELSE "label", t.e, t.n, t.i + 1)>>)
             /\ UNCHANGED <<prog, gen, mach, phase>>

EndLogic ==
    Next1("label") /\ gen' = Emit(gen, Ins("label", "", todo[1].n)) /\ Become(<< >>)
    /\ UNCHANGED <<prog, vals, mach, phase>>

\* A call; its tasks keep whether rax held a value (HadAx).
Argument(e, hadAx, i) ==
    Loop(IF i <= Len(e.a) THEN "arg" ELSE "call", e, hadAx, i)

ParseFuncCall ==
    Expr("call") /\ Descend(<<Argument(todo[1].e, Truth(gen.state = "ax"), 1)>>)

BeginArgument ==
    Next1("arg") /\
    LET t == todo[1]
        g == IF t.i > 1 THEN NewArgCode(gen) ELSE gen
    IN  /\ gen' = Emit(At(g, "undef"), Ins("comment", "", 0))
        /\ Become(<<Parse(t.e.a[t.i]), Loop("pass", t.e, t.n, t.i)>>)
        /\ UNCHANGED <<prog, vals, mach, phase>>

PassArgument ==
    Next1("pass") /\
    LET t == todo[1]
        v == Last(vals)
        g == PushCleanupCode(gen)
    IN  /\ gen' = EmitPushTos(IF v.const THEN PushConstant(g, v) ELSE g)
        /\ Become(<<Argument(t.e, t.n, t.i + 1)>>)
        /\ UNCHANGED <<prog, vals, mach, phase>>

\* Mutant: the offset of the argument after the one that is freed.
CleanupNext(g, args) ==
    LET temps == {i \in 1..Len(args) : args[i].temp}
    IN  IF temps = {} THEN g
        ELSE SetCleanupCode(g, <<Ins("free", "", 1 + CHOOSE i \in temps : \A j \in temps : j <= i)>>)

\* The clean-up of each temporary argument is put in the same place: the
\* last one stays.
CleanupArgs(g, args) ==
    LET temps == {i \in 1..Len(args) : args[i].temp}
    IN  IF temps = {} THEN g
        ELSE SetCleanupCode(g, <<Ins("free", "", CHOOSE i \in temps : \A j \in temps : j <= i)>>)

DropEmptyArg(g, n) ==
    IF n = 0 /\ g.arg # << >> /\ Last(g.arg) = << >> THEN [g EXCEPT !.arg = Front(@)] ELSE g

\* The code that makes room for the results is put in front of the arguments,
\* and the last argument in front of the first.
CallCode(g, f, args, hadAx) ==
    LET n == Len(args)
        g1 == DropEmptyArg(CleanupArgs(g, args), n)
        g2 == NewArgCode(IF hadAx THEN At(g1, "ax") ELSE g1)
        g3 == EmitAddToSp(EmitFlushRax(g2), Truth(Funcs[f] # "none"))
        g4 == ConsArgCode(g3, IF n = 0 THEN 2 ELSE n + 1, TRUE)
    IN  EmitAddToSp(OutputCleanupCode(EmitCall(g4, f, n), n), -n)

CallFunction ==
    Next1("call") /\
    LET e == todo[1].e
        n == Len(e.a)
        args == SubSeq(vals, Len(vals) - n + 1, Len(vals))
        rest == SubSeq(vals, 1, Len(vals) - n)
        g == CallCode(gen, e.s, args, todo[1].n = 1)
        result == [ValueDef(Funcs[e.s]) EXCEPT !.temp = (Funcs[e.s] = "str")]
        used == prog.k # "call" \/ Len(todo) > 2
    IN  CASE used /\ Funcs[e.s] # "none" ->
               Become(<< >>) /\ gen' = At(g, "sp") /\ vals' = Append(rest, result)
               /\ UNCHANGED <<prog, mach, phase>>
          [] ~used /\ Funcs[e.s] = "none" ->
               Become(<< >>) /\ gen' = g /\ vals' = rest /\ UNCHANGED <<prog, mach, phase>>
          [] OTHER -> Stop("rejected")

-----------------------------------------------------------------------------
(* Statements.  The value is nowhere when a statement begins.              *)

Begin(p) ==
    CASE p.k = "assign" -> <<Task("entry", p.e), Parse(p.e), Task("assign", p.e)>>
      [] p.k = "if" -> <<Task("entry", p.e), Parse(p.e), Task("if", p.e)>>
      [] p.k = "return" -> <<Task("entry", p.e), Parse(p.e), Task("return", p.e)>>
      [] p.k = "call" -> <<Task("entry", p.e), Parse(p.e), Task("output", p.e)>>

BeginStatement ==
    Next1("entry") /\ gen' = At(NewArgCode(gen), "undef") /\ Become(<< >>)
    /\ UNCHANGED <<prog, vals, mach, phase>>

Output(g) ==
    IF Len(g.arg) > 1 THEN Stop("panic")
    ELSE /\ gen' = OutputArgCode(g) /\ vals' = << >> /\ Become(<< >>) /\ phase' = "run" /\ Keep

\* Mutant: the value is stored from rax even when it is on the stack.
AssignRax(g, op) == At(Emit(g, Ins("store", op, 0)), "sp")

\* AssignVariableConst: += and -= take no negative constant.
ConstRejected(typ, op, v) ==
    \/ IsInteger(typ) /\ ~IsInteger(v.typ)
    \/ op \in {"+", "-"} /\ v.n < 0

AssignConst(g, op, v) == Emit(g, Ins("storeconst", op, v.n))

\* EmitAssignVariableExpressionInt: *= and /= take rax as it is, and /= has
\* the operands of idiv swapped.
AssignExpression(g, op) ==
    LET h == IF op \in {"*", "/"} THEN g ELSE EmitAssertTosInRax(g)
    IN  At(Emit(h, Ins("store", IF op = "/" THEN "inv/" ELSE op, 0)), "sp")

GenerateAssignment ==
    Next1("assign") /\
    LET v == Last(vals)
        g == IF v.const THEN AssignConst(gen, prog.op, v) ELSE AssignExpression(gen, prog.op)
        typ == Types[prog.s]
    IN  IF ~CanAssign(typ, v) \/ (v.const /\ ConstRejected(typ, prog.op, v))
        THEN Stop("rejected")
        ELSE Output(ConsArgCode(g, Len(g.arg), FALSE))

\* ParseIf with a block, which is one instruction here.  The block of a
\* condition that is the constant true is left out (NoCode), that of the
\* constant false is not.
IfCode(g, v, lbl) ==
    LET test == EmitJump(EmitAssertTosInRax(g), "jz", lbl)
        block == Ins("block", "", 1)
    IN  IF v.const THEN IF v.n = 0 THEN Emit(g, block) ELSE g
        ELSE Emit(Emit(test, block), Ins("label", "", lbl))

ParseIf ==
    Next1("if") /\
    LET lbl == gen.labels + 1
    IN  IF Last(vals).typ # "bool" THEN Stop("rejected")
        ELSE IF Len(gen.arg) > 1 THEN Stop("panic")
        ELSE Output(IfCode([OutputArgCode(gen) EXCEPT !.labels = lbl], Last(vals), lbl))

ParseReturn ==
    Next1("return") /\
    LET v == Last(vals)
        g == IF v.const THEN PushConstant(gen, v) ELSE gen
        stored == At(Emit(g, Ins("result", "", 0)), "sp")
    IN  IF ~CanAssign(Types[prog.s], v) THEN Stop("rejected")
        ELSE Output(ConsArgCode(stored, 1, FALSE))

EndCallStatement == Next1("output") /\ Output(gen)

-----------------------------------------------------------------------------
(* The machine: rax, the words pushed since the statement began, the      *)
(* variables, the memory and what was called.                              *)

Junk == -1000       \* a word that was never written, or rax after a call

I == gen.file[mach.pc]
At1(op) == phase = "run" /\ mach.pc <= Len(gen.file) /\ I.op = op

Go(m) == mach' = [m EXCEPT !.pc = @ + 1] /\ UNCHANGED <<prog, todo, vals, gen, phase>>

\* The values that rsp points to: depth 0 is the word on top.
Word(depth) == mach.stk[Len(mach.stk) - depth]
Popped(n) == SubSeq(mach.stk, 1, Len(mach.stk) - n)

ExecLoad ==
    \/ At1("load") /\ Go([mach EXCEPT !.rax = Loaded(Types[I.s], mach.env[I.s])])
    \/ At1("const") /\ Go([mach EXCEPT !.rax = I.n])

ExecStack ==
    \/ At1("push") /\ Go([mach EXCEPT !.stk = Append(@, mach.rax)])
    \/ At1("reserve") /\ Go([mach EXCEPT !.stk = @ \o [i \in 1..I.n |-> Junk]])
    \/ /\ At1("drop") \/ At1("pop")
       /\ IF Len(mach.stk) < I.n THEN Stop("fault")
          ELSE Go([mach EXCEPT !.stk = Popped(I.n),
                               !.rax = IF I.op = "pop" THEN Word(0) ELSE @])

ExecOperator ==
    \/ At1("operconst") /\
       IF Divides(I.s, mach.rax, I.n) THEN Stop("trap")
       ELSE Go([mach EXCEPT !.rax = Apply(I.s, @, I.n)])
    \/ At1("operator") /\
       IF mach.stk = << >> THEN Stop("fault")
       ELSE IF Divides(I.s, Word(0), mach.rax) THEN Stop("trap")
       ELSE Go([mach EXCEPT !.rax = Apply(I.s, Word(0), @), !.stk = Popped(1)])
    \/ At1("unary") /\ Go([mach EXCEPT !.rax = IF I.s = "neg" THEN -@ ELSE 1 - @])

\* A jump on junk goes either way.
ExecJump ==
    \E jump \in BOOLEAN :
        /\ \/ At1("jz") /\ (mach.rax # Junk => jump = (mach.rax = 0))
           \/ At1("jnz") /\ (mach.rax # Junk => jump = (mach.rax # 0))
        /\ IF ~jump THEN Go(mach)
           ELSE \E pc \in 1..Len(gen.file) :
                    gen.file[pc] = Ins("label", "", I.n) /\ Go([mach EXCEPT !.pc = pc])

\* What a function sees of the word it is given.
IsString(w) == w \in DOMAIN mach.mem
Content(w) == IF IsString(w) THEN mach.mem[w].text ELSE w

\* The string x at a new address a.
NewString(mem, a, x) == [b \in DOMAIN mem \cup {a} |-> IF b = a THEN x ELSE mem[b]]

\* The callee leaves its result in the slot above the arguments; rax holds
\* the same value, or what the end of the callee left there.
ExecCall ==
    At1("call") /\
    LET f == I.s
        args == [i \in 1..I.n |-> Content(Word(i - 1))]
        slot == Len(mach.stk) - I.n
        value == Result(f, args)
        new == FirstAddress + mach.made
        word == IF Funcs[f] = "str" THEN new ELSE value
        m == [mach EXCEPT !.calls = Append(@, <<f, args>>),
                          !.stk = IF Funcs[f] = "none" THEN @ ELSE [@ EXCEPT ![slot] = word],
                          !.mem = IF Funcs[f] # "str" THEN @
                                  ELSE NewString(@, new, [text |-> value, static |-> FALSE]),
                          !.made = IF Funcs[f] = "str" THEN @ + 1 ELSE @]
    IN  IF Len(mach.stk) < I.n + Truth(Funcs[f] # "none") THEN Stop("fault")
        ELSE \E rax \in {Junk, word} : Go([m EXCEPT !.rax = rax])

\* The clean-up reads the header of the block before it frees it.
ExecFree ==
    At1("free") /\
    IF Len(mach.stk) < I.n \/ ~IsString(Word(I.n - 1)) THEN Stop("fault")
    ELSE LET w == Word(I.n - 1)
             keep == IF mach.mem[w].static THEN DOMAIN mach.mem ELSE DOMAIN mach.mem \ {w}
         IN  Go([mach EXCEPT !.mem = Restrict(@, keep), !.rax = Junk])

Assign(op, v, n) == IF op = "=" THEN n ELSE Apply(op, v, n)

ExecStore ==
    /\ At1("store") \/ At1("storeconst")
    /\ LET v == mach.env[prog.s]
           n == IF I.op = "store" THEN mach.rax ELSE I.n
       IN  IF I.s # "=" /\ Divides(I.s, v, n) THEN Stop("trap")
           ELSE Go([mach EXCEPT !.env[prog.s] = Wrap(Types[prog.s], Assign(I.s, v, n))])

\* The value returned, or the block of an if.
ExecEffect ==
    \/ At1("result") /\ Go([mach EXCEPT !.res = mach.rax])
    \/ At1("block") /\ Go([mach EXCEPT !.res = 1])

ExecNothing == (At1("label") \/ At1("comment")) /\ Go(mach)

Finish == phase = "run" /\ mach.pc > Len(gen.file) /\ Stop("done")

-----------------------------------------------------------------------------
InitGen == [state |-> "undef", arg |-> << >>, clean |-> << >>, file |-> << >>,
            sp |-> 0, labels |-> 0]
InitMach == [pc |-> 1, rax |-> Junk, stk |-> << >>, env |-> InitEnv, mem |-> InitMemory,
             made |-> 0, calls |-> << >>, res |-> 0]

Init ==
    /\ prog \in Programs /\ todo = Begin(prog) /\ vals = << >>
    /\ gen = InitGen /\ mach = InitMach /\ phase = "parse"

Parser ==
    \/ BeginStatement \/ LoadVariable \/ LoadConstant \/ ParseUnary \/ Negate \/ Not
    \/ ParseOperator \/ RightOperand \/ Operator
    \/ ParseLogic \/ LogTerm \/ DropOperand \/ EndLogic
    \/ ParseFuncCall \/ BeginArgument \/ PassArgument \/ CallFunction
    \/ GenerateAssignment \/ ParseIf \/ ParseReturn \/ EndCallStatement

Machine ==
    \/ ExecLoad \/ ExecStack \/ ExecOperator \/ ExecJump \/ ExecCall \/ ExecFree
    \/ ExecStore \/ ExecEffect \/ ExecNothing \/ Finish

Next == Parser \/ Machine

Spec == Init /\ [][Next]_vars

-----------------------------------------------------------------------------
(* Plain statements: those whose code is right whatever their depth.  t     *)
(* sorts their trees: all of them, those that are constants (num holds     *)
(* their numbers), those that begin with a call (lead), with a call        *)
(* without arguments (empty), and those in which a call has a temporary as *)
(* argument (temps).                                                       *)

Procedure(e) == e.k = "call" /\ Funcs[e.s] = "none"
IsTemp(e) == e.k = "call" /\ Funcs[e.s] = "str"
Prefixed(e) == e.k \in {"neg", "not", "op", "and", "or"}

\* What the operands of a tree may be.
PlainOperands(t, e) ==
    \/ e.k \in {"var", "int", "bool", "str"} /\ e.a = << >>
    \/ e.k = "neg" /\ Len(e.a) = 1 /\ ~IsTemp(e.a[1])
    \/ e.k = "not" /\ Len(e.a) = 1 /\ ~IsTemp(e.a[1]) /\ e.a[1] \notin t.const
    \/ /\ e.k = "op" /\ Len(e.a) = 2
       /\ ~IsTemp(e.a[1]) /\ ~IsTemp(e.a[2]) /\ e.a[2] \notin t.empty
       /\ e \in t.const => ~Divides(e.s, t.num[e.a[1]], t.num[e.a[2]])
    \/ /\ e.k \in {"and", "or"} /\ Len(e.a) >= 2 /\ e.a[1].k # "call"
       /\ \A i \in 1..Len(e.a) : e.a[i] \notin t.const
       /\ \A i \in 2..Len(e.a) : e.a[i] \notin t.lead
    \/ /\ e.k = "call"
       /\ \A i, j \in 1..Len(e.a) : IsTemp(e.a[i]) /\ IsTemp(e.a[j]) => i = j
       /\ \A i \in 2..Len(e.a) : e.a[i] \notin t.temps

\* Each tree is in the sets it belongs to; the numbers are those of the code.
Sorted(t, e) ==
    /\ e \in t.const <=> \/ e.k \in {"int", "bool", "str"}
                         \/ e.k \in {"neg", "op"} /\ \A i \in 1..Len(e.a) : e.a[i] \in t.const
    /\ e.k \in {"int", "bool"} => t.num[e] = e.n
    /\ e.k = "str" => t.num[e] = 0
    /\ e \in t.const /\ e.k = "neg" => t.num[e] = -t.num[e.a[1]]
    /\ e \in t.const /\ e.k = "op" => t.num[e] = Apply(e.s, t.num[e.a[1]], t.num[e.a[2]])
    /\ e.k = "call" \/ (Prefixed(e) /\ e.a[1] \in t.lead) => e \in t.lead
    /\ (e.k = "call" /\ e.a = << >>) \/ (Prefixed(e) /\ e.a[1] \in t.empty) => e \in t.empty
    /\ \A i \in 1..Len(e.a) :
           (e.k = "call" /\ IsTemp(e.a[i])) \/ e.a[i] \in t.temps => e \in t.temps

PlainTrees(t) ==
    \A e \in t.all :
        /\ e.a \in Seq(t.all) /\ \A i \in 1..Len(e.a) : ~Procedure(e.a[i])
        /\ PlainOperands(t, e) /\ Sorted(t, e)

PlainStatement(t, p) ==
    /\ p.e \in t.all /\ ~IsTemp(p.e)
    /\ \/ p.k = "assign" /\ ~Procedure(p.e) /\ (p.e.k = "call" => p.op \notin {"*", "/"})
       \/ p.k = "if" /\ ~Procedure(p.e)
       \/ p.k = "return" /\ p.e.k # "call"
       \/ p.k = "call" /\ Procedure(p.e)

Plain(t) == PlainTrees(t) /\ \A p \in Programs : PlainStatement(t, p)

-----------------------------------------------------------------------------
Ended == phase \notin {"parse", "run"}

\* When the code has run, rsp is where it was, and so is the counter LocalSp
\* from which the parser takes the offsets of the variables declared next.
StackRestored == phase = "done" => mach.stk = << >> /\ gen.sp = 0

\* Every string that a call made for another call has been freed, once, and
\* no string of a variable or a literal: the clean-up reads the right word.
TempsFreed == phase = "done" => mach.mem = InitMemory

\* The compiler does not panic over its own state, the code never pops an
\* empty stack and never frees a word that is not a string.
NoPanic == phase \notin {"panic", "fault"}
=============================================================================
