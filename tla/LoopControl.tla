----------------------------- MODULE LoopControl -----------------------------
(***************************************************************************)
(* Control flow and stack discipline of one JKV function: what the parser  *)
(* emits for if, for, loop, break, return and fail (iterator.go,           *)
(* statements.go, variables.go), and what the emitted code does.           *)
(*                                                                         *)
(* A local variable is a word pushed when the parser first meets it, at    *)
(* the offset it computes from LocalSp, its own count of the words on the  *)
(* stack.  Blocks pop their variables.  break and return leave a mark in   *)
(* r15 (1, 2) and jump to a label of the innermost loop; the code behind   *)
(* the loop consumes the mark.  Whether the stack at run time is what      *)
(* LocalSp says depends on the path, which the parser does not follow.     *)
(*                                                                         *)
(* A behaviour first parses a function, a statement at a time, and then    *)
(* runs the code.  Every function of this form compiles.  Habits names the *)
(* risky things the functions of a model do.                               *)
(***************************************************************************)
EXTENDS Integers, Sequences, FiniteSets, SequencesExt

CONSTANTS
  Kinds,     (* the kinds of variables: "int", "str"                       *)
  Codes,     (* the error codes given to fail                              *)
  Items,     (* how many elements an iterator yields                       *)
  Objs,      (* 1 .. n, the heap objects (bounds those alive at a time)    *)
  MaxStmts,  (* bound: statements of the function                          *)
  MaxNest,   (* bound: blocks open at a time, the function included        *)
  Habits     (* what the functions do besides following the rules          *)

AllHabits ==
  {"breakUnderVars",     (* break from a block inside a block with         *)
                         (* variables, or directly from a loop's body      *)
   "declareAfterBreak",  (* in the body of a loop: a variable after a break*)
   "declareAfterReturn", (* a string after a return or fail                *)
   "returnUnderVars",    (* if c ? return with variables in the same block *)
   "returnInLoop",       (* return inside loop                             *)
   "leak"}               (* leave a block that owns a string or iterator   *)

ASSUME LoopAssumption ==
  /\ Kinds \subseteq {"int", "str"}
  /\ Codes \subseteq Nat \ {0, 1, 2}
  /\ Items \in Nat /\ MaxStmts \in Nat /\ MaxNest \in Nat
  /\ Objs \subseteq Nat \ {0}
  /\ Habits \subseteq AllHabits

VARIABLES
  code,      (* the instructions emitted so far                            *)
  blocks,    (* the blocks being parsed, the function's first              *)
  varDefs,   (* VarDefs                                                    *)
  sp,        (* code.LocalSp                                               *)
  returned,  (* State.HasReturned                                          *)
  early,     (* some return or fail has been parsed                        *)
  labels,    (* labels handed out by NewLabel                              *)
  stmts,     (* statements parsed                                          *)
  pc,        (* 0 while parsing, then the instruction to execute           *)
  depth,     (* the words between rbp and rsp, negative if rsp is above    *)
  stack,     (* what they hold: 0 or an object                             *)
  r15,
  heap,      (* what each object is, and the elements it has left to yield *)
  leaving,   (* history: the last mark was left by a return                *)
  fault      (* the first undefined access                                 *)

parser == <<code, blocks, varDefs, sp, returned, early, labels, stmts>>
machine == <<depth, stack, r15, heap, leaving, fault>>
vars == <<parser, pc, machine>>

(***************************************************************************)
(* Instructions.  Those about a variable name its kind and offset, jumps   *)
(* and labels the number of the label; the return label has number 0.      *)
(***************************************************************************)
New(kind) == [op |-> "new", kind |-> kind, ofs |-> sp + 1]
Free(v) == [op |-> "free", ofs |-> v.ofs]
Pops(n) == IF n = 0 THEN <<>> ELSE <<[op |-> "pop", n |-> n]>>
Mark(k) == [op |-> "mark", n |-> k, by |-> "statement"]
MarkReturn(k) == [op |-> "mark", n |-> k, by |-> "return"]
Jump(l) == [op |-> "jump", label |-> l]
JumpFalse(l) == [op |-> "jumpFalse", label |-> l]
JumpError(l) == [op |-> "jumpError", label |-> l]
JumpNoError(l) == [op |-> "jumpNoError", label |-> l]
CallFailing == [op |-> "call"]
Label(l) == [op |-> "label", label |-> l]
CallNext == [op |-> "next"]
ReturnIfErr2 == [op |-> "returnIfErr2", label |-> 0]
ClearBreakErr == [op |-> "clearBreakErr"]
Leave == [op |-> "leave"]

ReturnLabel == 0
Block == blocks[Len(blocks)]
BlockLevel == Block.level

(* The forms of a jump statement, and the level it is parsed at: only else *)
(* counts as a level of its own.                                           *)
Forms == {"plain", "if", "else"}
LevelIn(form) == IF form = "else" THEN BlockLevel + 1 ELSE BlockLevel

(* LoopStack: the positions of the loops among the open blocks.            *)
LoopBlocks == {i \in DOMAIN blocks : blocks[i].kind \in {"for", "loop"}}
InLoop == LoopBlocks # {}
InnermostAt == CHOOSE i \in LoopBlocks : \A j \in LoopBlocks : j <= i
Loop == blocks[InnermostAt]
OutermostAt == CHOOSE i \in LoopBlocks : \A j \in LoopBlocks : i <= j

-----------------------------------------------------------------------------
(* variables.go.                                                           *)

VarsAt(level) == {v \in varDefs : v.level >= level}
Owning(vs) == {v \in vs : v.kind # "int"}

(* The code of DeleteLocalVar for each variable of the level, in the order *)
(* of a walk over a Go map, and one add to rsp for all of them (mutant:    *)
(* deeper levels only).                                                    *)
Frees(vs) ==
  LET owners == SetToSeq(Owning(vs))
  IN  [i \in 1 .. Len(owners) |-> Free(owners[i])]
FreeVars(vs) == Frees(vs) \o Pops(Cardinality(vs))

FreeDeeperVars(level) == Frees(VarsAt(level + 1)) \o Pops(Cardinality(VarsAt(level)))
FreeBlockVars(level) == FreeVars(VarsAt(level))

(* The add to rsp alone (mutant: nothing).                                 *)
PopNothing(level) == <<>>
FreeBlockVarsNoDelete(level) == Pops(Cardinality(VarsAt(level)))

(* After FreeBlockVars the variables are gone and LocalSp has followed the *)
(* add; FreeBlockVarsNoDelete keeps both (mutant: LocalSp follows twice).  *)
SpTwiceWithout(level) == sp - 2 * Cardinality(VarsAt(level))
Forget(level) == varDefs' = varDefs \ VarsAt(level)
SpWithout(level) == sp - Cardinality(VarsAt(level))

-----------------------------------------------------------------------------
(* The rules.                                                              *)

May(habit) == habit \in Habits

(* The strings of the open loops and of the blocks inside them.            *)
LoopStrings == {v \in varDefs : v.kind = "str" /\ InLoop /\ v.level >= Loop.level}

MayDeclare(kind) ==
  /\ Block.kind = "loop" /\ Block.broken => May("declareAfterBreak")
  /\ kind = "str" =>
       /\ Block.kind = "loop" => May("leak")
       /\ early => May("declareAfterReturn")

(* What a break does not pop although the label it jumps to is reached     *)
(* from elsewhere without: the variables of the loop and of the blocks     *)
(* between it and the break (the label of "loop" pops its own).            *)
LeftOnStack(form) ==
  {v \in varDefs : /\ v.level >= Loop.level /\ v.level < LevelIn(form)
                   /\ Loop.kind = "loop" => v.level > Loop.level}
PoppedTwice(form) ==
  {v \in varDefs : /\ Loop.kind = "loop" /\ v.level = Loop.level
                   /\ v.level = LevelIn(form)}

MayBreak(form) ==
  /\ LeftOnStack(form) \cup PoppedTwice(form) # {} => May("breakUnderVars")
  /\ LoopStrings # {} => May("leak")

(* What a return leaves to nobody: all that its path neither frees on the  *)
(* spot, nor behind the loop, nor at the return label.                     *)
LostOnReturn(form) ==
  {v \in Owning(VarsAt(2)) :
     InLoop => v.level < LevelIn(form) /\ v.level # Loop.level - 1}

MayReturn(form) ==
  /\ form = "if" /\ InLoop /\ VarsAt(BlockLevel) # {} => May("returnUnderVars")
  /\ InLoop /\ Loop.kind = "loop" => May("returnInLoop")
  /\ LostOnReturn(form) # {} => May("leak")

MayFail == Owning(VarsAt(2)) # {} => May("leak")

-----------------------------------------------------------------------------
(* The parser.                                                             *)

Parsing == pc = 0 /\ blocks # <<>>
Statement == Parsing /\ ~returned /\ stmts < MaxStmts /\ stmts' = stmts + 1

Define(kind, level, ofs) == [kind |-> kind, level |-> level, ofs |-> ofs]

(* An assignment to a new identifier.                                      *)
NewVar(kind) ==
  /\ Statement /\ MayDeclare(kind)
  /\ code' = Append(code, New(kind))
  /\ varDefs' = varDefs \cup {Define(kind, BlockLevel, sp + 1)}
  /\ sp' = sp + 1
  /\ UNCHANGED <<blocks, returned, early, labels, pc, machine>>

(* if c {                                                                  *)
OpenIf ==
  /\ Statement /\ Len(blocks) < MaxNest
  /\ code' = Append(code, JumpFalse(labels + 1))
  /\ labels' = labels + 1
  /\ blocks' = Append(blocks, [kind |-> "if", level |-> BlockLevel + 1,
                               start |-> 0, exit |-> labels + 1, break |-> 0,
                               broken |-> FALSE])
  /\ UNCHANGED <<varDefs, sp, returned, early, pc, machine>>

(***************************************************************************)
(* for i = range(n) {: the loop variable and the iterator are pushed one   *)
(* level above the body.  next finds the iterator on top of the stack.     *)
(* break jumps to the start, where next is called once more and the mark   *)
(* in r15 ends the loop.                                                   *)
(***************************************************************************)
OpenFor ==
  /\ Statement /\ Len(blocks) < MaxNest
  /\ code' = code \o <<New("int"), [op |-> "new", kind |-> "iter", ofs |-> sp + 2],
                       Label(labels + 1), CallNext, JumpError(labels + 2)>>
  /\ labels' = labels + 2
  /\ varDefs' = varDefs \cup {Define("int", BlockLevel + 1, sp + 1),
                              Define("iter", BlockLevel + 1, sp + 2)}
  /\ sp' = sp + 2
  /\ blocks' = Append(blocks, [kind |-> "for", level |-> BlockLevel + 2,
                               start |-> labels + 1, exit |-> labels + 2,
                               break |-> labels + 1, broken |-> FALSE])
  /\ UNCHANGED <<returned, early, pc, machine>>

(* loop {                                                                  *)
OpenLoop ==
  /\ Statement /\ Len(blocks) < MaxNest
  /\ code' = Append(code, Label(labels + 1))
  /\ labels' = labels + 3
  /\ blocks' = Append(blocks, [kind |-> "loop", level |-> BlockLevel + 1,
                               start |-> labels + 1, exit |-> labels + 2,
                               break |-> labels + 3, broken |-> FALSE])
  /\ UNCHANGED <<varDefs, sp, returned, early, pc, machine>>

(* "stm" or, without braces, "if c ? stm" and "f() else stm", where the    *)
(* statement runs if f has failed.                                         *)
Guard(form) ==
  IF form = "if" THEN <<JumpFalse(labels + 1)>>
                 ELSE <<CallFailing, JumpNoError(labels + 1)>>
Guarded(form, instructions) ==
  IF form = "plain"
  THEN code' = code \o instructions /\ UNCHANGED labels
  ELSE /\ code' = code \o Guard(form) \o instructions \o <<Label(labels + 1)>>
       /\ labels' = labels + 1

Break(form) ==
  /\ Statement /\ InLoop /\ MayBreak(form)
  /\ Guarded(form, <<Mark(1)>> \o FreeBlockVarsNoDelete(LevelIn(form))
                     \o <<Jump(Loop.break)>>)
  /\ blocks' = [blocks EXCEPT ![InnermostAt].broken = TRUE]
  /\ UNCHANGED <<varDefs, sp, returned, early, pc, machine>>

(* Inside a loop the variables of the current block are freed and          *)
(* forgotten, and control goes to the loop's exit (mutant: with the mark   *)
(* of a break).                                                            *)
BreakMark == 1
ReturnMark == 2

Return(form) ==
  /\ Statement /\ MayReturn(form)
  /\ IF InLoop
     THEN /\ Guarded(form, FreeBlockVars(LevelIn(form)) \o
                           <<MarkReturn(ReturnMark), Jump(Loop.exit), Jump(ReturnLabel)>>)
          /\ Forget(LevelIn(form)) /\ sp' = SpWithout(LevelIn(form))
     ELSE /\ Guarded(form, <<Jump(ReturnLabel)>>)
          /\ UNCHANGED <<varDefs, sp>>
  /\ returned' = (form # "if")
  /\ early' = TRUE
  /\ UNCHANGED <<blocks, pc, machine>>

ParseFail(form, k) ==
  /\ Statement /\ MayFail
  /\ Guarded(form, <<Mark(k), Jump(ReturnLabel)>>)
  /\ early' = TRUE
  /\ UNCHANGED <<blocks, varDefs, sp, returned, pc, machine>>

(* The closing braces.                                                     *)
Closed == blocks' = SubSeq(blocks, 1, Len(blocks) - 1)

CloseIf ==
  /\ Parsing /\ Block.kind = "if"
  /\ code' = code \o FreeBlockVars(BlockLevel) \o <<Label(Block.exit)>>
  /\ Forget(BlockLevel) /\ sp' = SpWithout(BlockLevel)
  /\ returned' = FALSE
  /\ Closed
  /\ UNCHANGED <<early, labels, stmts, pc, machine>>

(* The code behind a for loop (mutant: the mark of a return is not looked  *)
(* at; behind either loop: the mark of a break stays).                     *)
NoReturn == <<ClearBreakErr>>
AfterFor == <<ReturnIfErr2, ClearBreakErr>>
KeepBreakErr == <<>>
AfterLoop == <<ClearBreakErr>>

CloseFor ==
  /\ Parsing /\ Block.kind = "for"
  /\ code' = code \o FreeBlockVars(BlockLevel)
               \o <<Jump(Block.start), Label(Block.exit)>>
               \o FreeVars({v \in varDefs : v.level = BlockLevel - 1})
               \o AfterFor
  /\ Forget(BlockLevel - 1) /\ sp' = SpWithout(BlockLevel - 1)
  /\ Closed
  /\ UNCHANGED <<returned, early, labels, stmts, pc, machine>>

CloseLoop ==
  /\ Parsing /\ Block.kind = "loop"
  /\ code' = code \o FreeBlockVarsNoDelete(BlockLevel)
               \o <<Jump(Block.start), Label(Block.break)>>
               \o FreeBlockVars(BlockLevel)
               \o <<Label(Block.exit)>> \o AfterLoop
  /\ Forget(BlockLevel) /\ sp' = SpWithout(BlockLevel)
  /\ Closed
  /\ UNCHANGED <<returned, early, labels, stmts, pc, machine>>

(* The end of the function; it is called.                                  *)
CloseFunction ==
  /\ Parsing /\ Block.kind = "function"
  /\ code' = code \o <<Label(ReturnLabel)>> \o FreeBlockVars(1) \o <<Leave>>
  /\ Forget(1) /\ sp' = SpWithout(1)
  /\ Closed
  /\ pc' = 1
  /\ UNCHANGED <<returned, early, labels, stmts, machine>>

-----------------------------------------------------------------------------
(* The machine.                                                            *)

Running == pc \in DOMAIN code /\ fault = "none"
Instr == code[pc]
At(op) == Running /\ Instr.op = op

Position(l) ==
  CHOOSE i \in DOMAIN code : code[i].op = "label" /\ code[i].label = l
GoTo(l) == pc' = Position(l)
Step == pc' = pc + 1
Fails(f) == fault' = f /\ UNCHANGED <<pc, depth, stack, r15, heap, leaving>>

Unused == [kind |-> "free", left |-> 0]
FreeObjs == {o \in Objs : heap[o] = Unused}

(* A word is pushed and stored at the variable's offset: the same word, if *)
(* rsp is where the parser believes it to be.                              *)
ExecNew ==
  /\ At("new")
  /\ IF Instr.ofs # depth + 1 THEN Fails("wrong slot")
     ELSE /\ depth' = depth + 1
          /\ IF Instr.kind = "int"
             THEN stack' = Append(stack, 0) /\ UNCHANGED heap
             ELSE \E o \in FreeObjs :
                    /\ \A p \in FreeObjs : o <= p
                    /\ stack' = Append(stack, o)
                    /\ heap' = [heap EXCEPT ![o] =
                         [kind |-> Instr.kind,
                          left |-> IF Instr.kind = "iter" THEN Items ELSE 0]]
          /\ Step /\ UNCHANGED <<r15, leaving, fault>>
  /\ UNCHANGED parser

(* The word at the offset is an object's address and the object is freed.  *)
ExecFree ==
  /\ At("free")
  /\ IF Instr.ofs > depth THEN Fails("below the stack")
     ELSE LET o == stack[Instr.ofs]
          IN  IF o = 0 \/ heap[o] = Unused THEN Fails("not an object")
              ELSE /\ heap' = [heap EXCEPT ![o] = Unused]
                   /\ Step /\ UNCHANGED <<depth, stack, r15, leaving, fault>>
  /\ UNCHANGED parser

ExecPop ==
  /\ At("pop")
  /\ depth' = depth - Instr.n
  /\ stack' = SubSeq(stack, 1, depth - Instr.n)
  /\ Step /\ UNCHANGED <<r15, heap, leaving, fault, parser>>

ExecMark ==
  /\ At("mark")
  /\ r15' = Instr.n /\ leaving' = (Instr.by = "return")
  /\ Step /\ UNCHANGED <<depth, stack, heap, fault, parser>>

ExecJump ==
  /\ \/ At("jump") /\ GoTo(Instr.label)
     \/ At("jumpFalse") /\ (GoTo(Instr.label) \/ Step)
     \/ At("jumpError") /\ (IF r15 # 0 THEN GoTo(Instr.label) ELSE Step)
     \/ At("jumpNoError") /\ (IF r15 = 0 THEN GoTo(Instr.label) ELSE Step)
     \/ At("label") /\ Step
  /\ UNCHANGED <<machine, parser>>

(* A function that fails or does not.                                      *)
ExecCall ==
  /\ At("call")
  /\ r15' \in {r15} \cup Codes
  /\ Step /\ UNCHANGED <<depth, stack, heap, leaving, fault, parser>>

(* next takes the iterator from the top of the stack: its next element, or *)
(* fail(1) when there is none (mutant: the end is not reported).           *)
Endless(o) == r15
AfterNext(o) == IF heap[o].left = 0 THEN 1 ELSE r15

ExecNext ==
  /\ At("next")
  /\ IF depth < 1 THEN Fails("wrong argument")
     ELSE LET o == stack[depth]
          IN  IF o = 0 \/ heap[o].kind # "iter" THEN Fails("wrong argument")
              ELSE /\ heap' = [heap EXCEPT ![o].left = IF @ = 0 THEN 0 ELSE @ - 1]
                   /\ r15' = AfterNext(o)
                   /\ Step /\ UNCHANGED <<depth, stack, leaving, fault>>
  /\ UNCHANGED parser

(* The code behind a for loop consumes the mark of a return (mutant: it    *)
(* stays in r15).                                                          *)
KeptErr == r15
ClearedErr == 0

ExecReturnIfErr2 ==
  /\ At("returnIfErr2")
  /\ IF r15 = 2 THEN r15' = ClearedErr /\ GoTo(Instr.label)
     ELSE Step /\ UNCHANGED r15
  /\ UNCHANGED <<depth, stack, heap, leaving, fault, parser>>

ExecClearBreakErr ==
  /\ At("clearBreakErr")
  /\ r15' = IF r15 = 1 THEN 0 ELSE r15
  /\ Step /\ UNCHANGED <<depth, stack, heap, leaving, fault, parser>>

(* leave; ret                                                              *)
ExecLeave ==
  /\ At("leave")
  /\ depth' = 0 /\ stack' = <<>>
  /\ Step /\ UNCHANGED <<r15, heap, leaving, fault, parser>>

-----------------------------------------------------------------------------

Init ==
  /\ code = <<>>
  /\ blocks = <<[kind |-> "function", level |-> 1, start |-> 0, exit |-> 0,
                 break |-> 0, broken |-> FALSE]>>
  /\ varDefs = {} /\ sp = 0
  /\ returned = FALSE /\ early = FALSE
  /\ labels = 0 /\ stmts = 0
  /\ pc = 0 /\ depth = 0 /\ stack = <<>> /\ r15 = 0
  /\ heap = [o \in Objs |-> Unused]
  /\ leaving = FALSE /\ fault = "none"

ParseStatement ==
  \/ \E kind \in Kinds : NewVar(kind)
  \/ OpenIf \/ OpenFor \/ OpenLoop
  \/ \E form \in Forms : Break(form) \/ Return(form)
  \/ \E form \in Forms, k \in Codes : ParseFail(form, k)

Close == CloseIf \/ CloseFor \/ CloseLoop \/ CloseFunction

Execute ==
  \/ ExecNew \/ ExecFree \/ ExecPop \/ ExecMark \/ ExecJump \/ ExecCall \/ ExecNext
  \/ ExecReturnIfErr2 \/ ExecClearBreakErr \/ ExecLeave

Next == ParseStatement \/ Close \/ Execute

(* One thread compiles, one runs the program.                              *)
Spec == Init /\ [][Next]_vars /\ WF_vars(Next)

-----------------------------------------------------------------------------
(* Type invariant.                                                         *)
Instructions ==
  [op : {"new"}, kind : {"int", "str", "iter"}, ofs : Nat]
    \cup [op : {"free"}, ofs : Nat]
    \cup [op : {"pop"}, n : Nat]
    \cup [op : {"mark"}, n : Nat, by : {"statement", "return"}]
    \cup [op : {"jump", "jumpFalse", "jumpError", "jumpNoError", "label",
             "returnIfErr2"}, label : Nat]
    \cup [op : {"call", "next", "clearBreakErr", "leave"}]

TypeOK ==
  /\ code \in Seq(Instructions)
  /\ varDefs \subseteq [kind : {"int", "str", "iter"}, level : Nat, ofs : Nat]
  /\ sp \in Nat /\ labels \in Nat /\ stmts \in 0 .. MaxStmts
  /\ returned \in BOOLEAN /\ early \in BOOLEAN
  /\ pc \in 0 .. Len(code) + 1
  /\ depth \in Int /\ stack \in Seq(Objs \cup {0})
  /\ r15 \in {0, 1, 2} \cup Codes
  /\ heap \in [Objs -> [kind : {"free", "str", "iter"}, left : 0 .. Items]]
  /\ leaving \in BOOLEAN
  /\ fault \in {"none", "wrong slot", "below the stack", "not an object",
                 "wrong argument"}

(* LocalSp counts the variables in VarDefs, and each has a word of its own *)
(* among the LocalSp words: so ParseFuncDef never reports its stack error, *)
(* and two variables in scope never share a slot.                          *)
SlotsAreDense == {v.ofs : v \in varDefs} = 1 .. sp /\ Cardinality(varDefs) = sp

Ruled == Habits = {}
Left == pc = Len(code) + 1

(* Whatever path control takes, a new variable is pushed at the offset the *)
(* parser gave it, a variable that is freed has been pushed and holds its  *)
(* object, and next finds its iterator on top of the stack.                *)
NoStackFault == Ruled => fault = "none"

(* Nobody sees the marks of break and return but the code behind the loop: *)
(* every new variable is initialised, and every loop entered, with r15 = 0.*)
MarksAreConsumed == Ruled /\ At("new") => r15 = 0

(* A function ends with r15 = 0 or with the code of a fail.                *)
LeavesWithError == Ruled /\ Left => r15 \in {0} \cup Codes

(* When the function has returned, all its strings and iterators are free. *)
AllFreed == Ruled /\ Left => \A o \in Objs : heap[o] = Unused

(* A return statement inside loops ends the function: once it has left its *)
(* mark, no variable is initialised and no iterator is asked for an element*)
(* ("Return: Jump to end of loop", "Return from function if r15==2").      *)
ReturnReturns == leaving => ~At("new") /\ ~At("next")

(* A function without "loop" ends: each round of its for loops takes an    *)
(* element, and break and return end them early.                           *)
ForOnly ==
  \A i \in DOMAIN code :
    code[i].op = "jump" /\ Position(code[i].label) < i
      => code[Position(code[i].label) + 1].op = "next"

ForLoopsEnd == (pc = 1 /\ ForOnly /\ Ruled) ~> Left

=============================================================================
