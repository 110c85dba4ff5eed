--------------------------- MODULE StringOwnership ---------------------------
(***************************************************************************)
(* One JKV function over string variables, called once by main: what the   *)
(* single-pass compiler emits for it and what the emitted code does.       *)
(*                                                                         *)
(* Who frees a string is decided at compile time by two flags of the       *)
(* parser, VarDef.Destroyed and ValueDef.IsTempObj; whether the decision   *)
(* is right shows only when the code runs.  Each action therefore parses   *)
(* one operand, operator or statement, in textual order, and executes the  *)
(* code it emits when control reaches it.  An early return makes the two   *)
(* part: control goes to the return label while the parser goes on.  At    *)
(* the return label the variables whose flag is clear are freed, in any    *)
(* order (a Go map is walked).                                             *)
(*                                                                         *)
(* The compiler accepts every program of this form.  Two it does not:      *)
(* "return f(s)" and "s += f()" leave the result of f on the stack, and    *)
(* ParseFuncDef refuses the function ("Stack error").  Habits names the    *)
(* risky things the programs of a model do; with Habits = {} they keep the *)
(* ownership rules the flags assume.                                       *)
(***************************************************************************)
EXTENDS StringHeap

CONSTANTS
  Locals,    (* the local string variables                                 *)
  Params,    (* the string parameters, still owned by the caller           *)
  ArgLit,    (* the literal main's own heap strings are made from          *)
  NewCaps,   (* the capacities given to new(String, n)                     *)
  Indices,   (* the values of i in v[i] = 'c'                              *)
  Habits,    (* what the programs do besides following the rules           *)
  NoVar,     (* "the value is not a variable"                              *)
  MaxDepth,  (* bound: operands on the evaluation stack                    *)
  MaxChunks  (* bound: chunks in a text                                    *)

AllHabits ==
  {"useMoved",      (* mention a variable after its string was moved       *)
   "selfAssign",    (* s = s                                               *)
   "selfAppend",    (* s += s                                              *)
   "appendTemp",    (* s += a + b                                          *)
   "returnUse",     (* return s + t, return f(s) + t                       *)
   "earlyReturn",   (* return from inside an if                            *)
   "nilUse",        (* read a variable that was only declared              *)
   "changeParam",   (* assign or append to a parameter                     *)
   "returnParam",   (* return a parameter                                  *)
   "compareTemps",  (* f() == g()                                          *)
   "pastEnd",       (* v[i] = 'c' with i negative or not below the length  *)
   "newOperand"}    (* use new(String, n) other than by assigning it       *)

Vars == Locals \cup Params

(* "No value" is not taken for a text.                                     *)
ASSUME NoVarAssumption == NoVar \notin Seq(Chunks)

ASSUME OwnershipAssumption ==
  /\ Locals \cap Params = {} /\ NoVar \notin Vars
  /\ IsFiniteSet(Params)
  /\ ArgLit \in Lits
  /\ NewCaps \subseteq Nat /\ Indices \subseteq Int
  /\ Habits \subseteq AllHabits
  /\ MaxDepth \in Nat /\ MaxChunks \in Nat

VARIABLES
  mem,        (* the cells, allocation_count and the first fault           *)
  slot,       (* the stack slot of each variable                           *)
  declared,   (* the variables in VarDefs                                  *)
  destroyed,  (* those whose Destroyed flag is set                         *)
  est,        (* the operands parsed so far in the current statement       *)
  onStack,    (* the last of them is a call's result, still on the stack   *)
  mode,       (* "stmt", or in a return: before / after its first variable *)
  skip,       (* the statement is in a branch that is not taken            *)
  flow,       (* where control is: in the body, gone to the return label   *)
              (* while the parser is still in the body, at the label, back *)
              (* in main, or at the end of the program                     *)
  result,     (* the pointer in main's return slot, then in its variable   *)
  mains,      (* the heap strings held by main's other variables           *)
  exit        (* the exit code, -1 before the program ends                 *)

control == <<mode, skip, flow>>
caller == <<result, mains, exit>>
vars == <<mem, slot, declared, destroyed, est, onStack, control, caller>>

Flows == {"body", "gone", "label", "main", "exiting", "ended"}

(* ValueDef: the pointer, its kind and, for a variable, which one.         *)
Value ==
  [ptr : Ptrs \cup {Uninit}, kind : {"var"}, var : Vars]
    \cup [ptr : Ptrs \cup {Uninit}, kind : {"const", "temp", "new"}, var : {NoVar}]

Executing == flow = "body" /\ ~skip
Parsing == flow \in {"body", "gone"} /\ Sound(mem)
Top == est[Len(est)]
Below == est[Len(est) - 1]

(* Pop n operands and push one (mutant: an operand is left behind).        *)
ReplaceLess(n, v) == Append(SubSeq(est, 1, Len(est) + 1 - n), v)
Replace(n, v) == Append(SubSeq(est, 1, Len(est) - n), v)

(* What the emitted code does, if control is there at all.                 *)
Run(m) == mem' = IF Executing THEN m ELSE mem

TextAt(p) == IF p \in Addrs THEN mem.cell[p].text ELSE <<>>
Room(p, q) == Len(TextAt(p)) + Len(TextAt(q)) <= MaxChunks

(***************************************************************************)
(* The rules.  A string moved out of a variable is not reached through it  *)
(* again; what a return consumes whole is all it may have marked.          *)
(***************************************************************************)
MayUse(v) ==
  /\ v \in destroyed \ Params => "useMoved" \in Habits
  /\ slot[v] = Nil /\ Executing => "nilUse" \in Habits

MayChange(v) ==
  /\ v \in destroyed => "useMoved" \in Habits
  /\ v \in Params => "changeParam" \in Habits

MayBorrow(x) ==
  /\ x.var \in destroyed \ Params /\ x.ptr \in Blocks => "returnUse" \in Habits
  /\ x.kind = "new" => "newOperand" \in Habits

MayMoveTo(x, v) ==
  /\ x.var = v => "selfAssign" \in Habits
  /\ x.var \in Params => "changeParam" \in Habits

MayAppend(x, v) ==
  /\ x.var = v => "selfAppend" \in Habits
  /\ x.kind = "temp" => "appendTemp" \in Habits
  /\ x.kind = "new" => "newOperand" \in Habits

MayStore(v, i) ==
  Executing /\ Usable(mem, slot[v]) /\ (i < 0 \/ i >= mem.cell[slot[v]].len)
    => "pastEnd" \in Habits

-----------------------------------------------------------------------------
(* Operands.                                                               *)

Literal(l) ==
  /\ Parsing /\ Len(est) < MaxDepth
  /\ est' = Append(est, [ptr |-> l, kind |-> "const", var |-> NoVar])
  /\ onStack' = FALSE
  /\ UNCHANGED <<mem, slot, declared, destroyed, control, caller>>

(* ParseVarOrFunc: reading a variable sets its flag if it is the first one *)
(* of a return statement and clears it otherwise (mutants: it never sets   *)
(* it; it sets it whether in a return or not).                             *)
NeverFlagged(v) == destroyed \ {v}
AlwaysFlagged(v) == destroyed \cup {v}
Flagged(v) == IF mode = "returning" THEN destroyed \cup {v} ELSE destroyed \ {v}

Variable(v) ==
  /\ Parsing /\ Len(est) < MaxDepth
  /\ v \in declared /\ MayUse(v)
  /\ est' = Append(est, [ptr |-> IF Executing THEN slot[v] ELSE Nil,
                         kind |-> "var", var |-> v])
  /\ onStack' = FALSE
  /\ destroyed' = Flagged(v)
  /\ mode' = IF mode = "returning" THEN "returned" ELSE mode
  /\ UNCHANGED <<mem, slot, declared, skip, flow, caller>>

(* new(String, n).                                                         *)
New(n) ==
  /\ Parsing /\ Len(est) < MaxDepth
  /\ \E b \in FreeBlocks(mem) :
       /\ Run(NewString(mem, b, n))
       /\ est' = Append(est, [ptr |-> IF Executing THEN b ELSE Nil,
                              kind |-> "new", var |-> NoVar])
  /\ onStack' = FALSE
  /\ UNCHANGED <<slot, declared, destroyed, control, caller>>

(***************************************************************************)
(* f(x): the callee borrows its argument, which the caller frees after the *)
(* call if it is a temporary, and returns either a literal or a string of  *)
(* its own; the caller treats both as a temporary.  The result stays on    *)
(* the stack until the next operand or operator takes it from there.       *)
(***************************************************************************)
FreeArgument(m, x) == FreeString(m, x.ptr)      (* mutant: variables too *)
FreeTemp(m, x) == IF x.kind = "temp" THEN FreeString(m, x.ptr) ELSE m

Borrow(m, x) ==
  IF x.ptr = Nil \/ Usable(m, x.ptr) THEN FreeTemp(m, x) ELSE BadDeref(m, x.ptr)

Call(l) ==
  /\ Parsing /\ Len(est) >= 1 /\ MayBorrow(Top)
  /\ \/ /\ Run(Borrow(mem, Top))
        /\ est' = Replace(1, [ptr |-> IF Executing THEN l ELSE Nil,
                              kind |-> "temp", var |-> NoVar])
     \/ \E b \in FreeBlocks(mem) :
          /\ Room(Top.ptr, l)
          /\ Run(FreeTemp(Concat(mem, b, Top.ptr, l, FALSE, FALSE), Top))
          /\ est' = Replace(1, [ptr |-> IF Executing THEN b ELSE Nil,
                                kind |-> "temp", var |-> NoVar])
  /\ onStack' = TRUE
  /\ UNCHANGED <<slot, declared, destroyed, control, caller>>

(* a + b in ParseSumTerm.                                                  *)
Plus ==
  /\ Parsing /\ Len(est) >= 2
  /\ MayBorrow(Below) /\ MayBorrow(Top) /\ Room(Below.ptr, Top.ptr)
  /\ \E b \in FreeBlocks(mem) :
       /\ Run(Concat(mem, b, Below.ptr, Top.ptr,
                     Below.kind = "temp", Top.kind = "temp"))
       /\ est' = Replace(2, [ptr |-> IF Executing THEN b ELSE Nil,
                             kind |-> "temp", var |-> NoVar])
  /\ onStack' = FALSE
  /\ UNCHANGED <<slot, declared, destroyed, control, caller>>

-----------------------------------------------------------------------------
(* Statements.                                                             *)

(* ParseLvalue: a new variable is a nil slot pushed on the stack           *)
(* (mutant: every variable is treated as new).                             *)
ForgottenPtr(v) == Nil
OldPtr(v) == IF v \in declared THEN slot[v] ELSE Nil
Update(v, p) ==
  slot' = IF Executing THEN [slot EXCEPT ![v] = p] ELSE slot

(* var v String                                                            *)
Declare(v) ==
  /\ Parsing /\ est = <<>> /\ mode = "stmt" /\ v \notin declared
  /\ declared' = declared \cup {v}
  /\ Update(v, Nil)
  /\ UNCHANGED <<mem, destroyed, est, onStack, control, caller>>

(***************************************************************************)
(* v = x.  The string v had is freed; the pointer is stored.  If x is a    *)
(* variable the string moves: x is flagged (destructive read).             *)
(***************************************************************************)
Assign(v) ==
  /\ Parsing /\ Len(est) = 1 /\ mode = "stmt"
  /\ v \in declared => MayChange(v)
  /\ MayMoveTo(Top, v)
  /\ Run(FreeString(mem, OldPtr(v)))
  /\ Update(v, Top.ptr)
  /\ declared' = declared \cup {v}
  /\ destroyed' = destroyed \cup (IF Top.kind = "var" THEN {Top.var} ELSE {})
  /\ est' = <<>> /\ onStack' = FALSE
  /\ UNCHANGED <<control, caller>>

(* v += x.  A literal goes through EmitConcat, an expression through       *)
(* ExtendStringCapacity.                                                   *)
PlusAssign(v) ==
  /\ Parsing /\ Len(est) = 1 /\ mode = "stmt" /\ ~onStack
  /\ v \in declared /\ MayChange(v) /\ MayAppend(Top, v)
  /\ Top.kind = "const" => MayUse(v)
  /\ Room(slot[v], Top.ptr)
  /\ \E b \in FreeBlocks(mem) :
       IF Top.kind = "const"
       THEN /\ Run(Concat(mem, b, slot[v], Top.ptr, TRUE, FALSE))
            /\ Update(v, b)
       ELSE /\ Run(AppendStr(mem, b, slot[v], Top.ptr))
            /\ Update(v, IF Usable(mem, Top.ptr)
                         THEN ExtendedPtr(mem, b, slot[v],
                                          mem.cell[Top.ptr].len)
                         ELSE slot[v])
  /\ est' = <<>>
  /\ UNCHANGED <<declared, destroyed, onStack, control, caller>>

(* v += 'c'                                                                *)
PlusAssignChar(v, c) ==
  /\ Parsing /\ est = <<>> /\ mode = "stmt"
  /\ v \in declared /\ MayChange(v)
  /\ Len(TextAt(slot[v])) < MaxChunks
  /\ \E b \in FreeBlocks(mem) :
       /\ Run(AppendChar(mem, b, slot[v], c))
       /\ Update(v, ExtendedPtr(mem, b, slot[v], 1))
  /\ UNCHANGED <<declared, destroyed, est, onStack, control, caller>>

(* v[i] = 'c': the string is made writable first (mutants: it is not; the  *)
(* address is one byte too far).                                           *)
WritableInPlace(v, b, i) ==
  IF Usable(mem, slot[v]) THEN Poke(mem, slot[v], i) ELSE mem
WritableNext(v, b, i) ==
  LET m == CopyToRam(mem, b, slot[v])
  IN  IF Sound(m) THEN Poke(m, CopiedPtr(mem, b, slot[v]), i + 1) ELSE m
Writable(v, b, i) ==
  LET m == CopyToRam(mem, b, slot[v])
  IN  IF Sound(m) THEN Poke(m, CopiedPtr(mem, b, slot[v]), i) ELSE m

AssignChar(v, i) ==
  /\ Parsing /\ est = <<>> /\ mode = "stmt"
  /\ v \in declared /\ MayUse(v) /\ MayChange(v) /\ MayStore(v, i)
  /\ \E b \in FreeBlocks(mem) :
       /\ Run(Writable(v, b, i))
       /\ Update(v, CopiedPtr(mem, b, slot[v]))
  /\ UNCHANGED <<declared, destroyed, est, onStack, control, caller>>

(* x == "lit" as a statement's condition: a temporary is freed.            *)
CompareLit ==
  /\ Parsing /\ Len(est) = 1 /\ mode = "stmt" /\ Top.kind # "const"
  /\ Top.kind = "new" => "newOperand" \in Habits
  /\ Run(Borrow(mem, Top))
  /\ est' = <<>> /\ onStack' = FALSE
  /\ UNCHANGED <<slot, declared, destroyed, control, caller>>

(***************************************************************************)
(* x == y with neither a literal: the byte comparison has moved both       *)
(* registers past the header by the time a temporary is freed through      *)
(* them, so HeapFree is given an address inside the string.                *)
(***************************************************************************)
CompareStrings ==
  /\ Parsing /\ Len(est) = 2 /\ mode = "stmt"
  /\ Top.kind # "const" /\ Below.kind # "const"
  /\ "new" \in {Top.kind, Below.kind} => "newOperand" \in Habits
  /\ "temp" \in {Top.kind, Below.kind} => "compareTemps" \in Habits
  /\ Run(IF ~Usable(mem, Below.ptr) THEN BadDeref(mem, Below.ptr)
         ELSE IF ~Usable(mem, Top.ptr) THEN BadDeref(mem, Top.ptr)
         ELSE IF "temp" \in {Top.kind, Below.kind} THEN Fail(mem, "badfree")
         ELSE mem)
  /\ est' = <<>> /\ onStack' = FALSE
  /\ UNCHANGED <<slot, declared, destroyed, control, caller>>

-----------------------------------------------------------------------------
(* Return and the end of the function.                                     *)

(* if c { return ...: the branch is taken or not.                          *)
BeginReturn ==
  /\ Parsing /\ est = <<>> /\ mode = "stmt"
  /\ mode' = "returning"
  /\ skip' \in (IF "earlyReturn" \in Habits THEN BOOLEAN ELSE {FALSE})
  /\ UNCHANGED <<mem, slot, declared, destroyed, est, onStack, flow, caller>>

(* The value goes to the caller's slot and control to the return label.    *)
(* Nothing is parsed after a return that is not inside an if.              *)
FinishReturn(last) ==
  /\ Parsing /\ Len(est) = 1 /\ mode # "stmt" /\ ~onStack
  /\ IF last THEN ~skip ELSE "earlyReturn" \in Habits
  /\ Top.var \in Params => "returnParam" \in Habits
  /\ result' = IF Executing THEN Top.ptr ELSE result
  /\ flow' = IF last THEN "label" ELSE IF skip THEN flow ELSE "gone"
  /\ est' = <<>> /\ mode' = "stmt" /\ skip' = FALSE
  /\ UNCHANGED <<mem, slot, declared, destroyed, onStack, mains, exit>>

(* The closing brace of a function without a result.                       *)
CloseBody ==
  /\ Parsing /\ est = <<>> /\ mode = "stmt"
  /\ flow' = "label"
  /\ UNCHANGED <<mem, slot, declared, destroyed, est, onStack, mode, skip, caller>>

(* DeleteLocalVar for one variable at the return label.                    *)
FreeLocal(v) ==
  /\ flow = "label" /\ Sound(mem)
  /\ v \in declared \ Params
  /\ mem' = IF v \in destroyed THEN mem ELSE FreeString(mem, slot[v])
  /\ declared' = declared \ {v} /\ slot' = [slot EXCEPT ![v] = Uninit]
  /\ UNCHANGED <<destroyed, est, onStack, control, caller>>

Leave ==
  /\ flow = "label" /\ Sound(mem) /\ declared \subseteq Params
  /\ flow' = "main"
  /\ UNCHANGED <<mem, slot, declared, destroyed, est, onStack, mode, skip, caller>>

(***************************************************************************)
(* main assigned the result to a variable; at its own return label it      *)
(* frees that and its other variables, then compares allocation_count      *)
(* with 0 (EmitEpilogue).                                                  *)
(***************************************************************************)
MainFreesResult ==
  /\ flow = "main" /\ Sound(mem)
  /\ mem' = FreeString(mem, result) /\ result' = Nil
  /\ flow' = "exiting"
  /\ UNCHANGED <<slot, declared, destroyed, est, onStack, mode, skip, mains, exit>>

MainFrees(b) ==
  /\ flow = "exiting" /\ Sound(mem)
  /\ b \in mains
  /\ mem' = FreeString(mem, b)
  /\ mains' = mains \ {b}
  /\ UNCHANGED <<slot, declared, destroyed, est, onStack, control, result, exit>>

Epilogue ==
  /\ flow = "exiting" /\ Sound(mem) /\ mains = {}
  /\ flow' = "ended"
  /\ exit' = IF mem.count # 0 THEN 97 ELSE 0
  /\ UNCHANGED <<mem, slot, declared, destroyed, est, onStack, mode, skip,
                 result, mains>>

-----------------------------------------------------------------------------

(* main's heap strings are one literal and 32 spare bytes each, what       *)
(* EmitConcat makes of "" + "lit"; each argument is a literal or one of    *)
(* them (the same one twice included).                                     *)
ArgCell ==
  [live |-> TRUE, room |-> Size[ArgLit] + 40, len |-> Size[ArgLit],
   cap  |-> Size[ArgLit] + 32, text |-> <<Chunk(ArgLit)>>, past |-> {}]

Init ==
  /\ \E arg \in [Params -> Lits \cup Blocks] :
       /\ mains = {arg[v] : v \in Params} \cap Blocks
       /\ slot = [v \in Vars |-> IF v \in Params THEN arg[v] ELSE Uninit]
       /\ mem = [cell  |-> [a \in Addrs |-> IF a \in mains THEN ArgCell
                                            ELSE InitMem.cell[a]],
                 count |-> Cardinality(mains) * ArgCell.room,
                 fault |-> "none"]
  /\ declared = Params
  /\ destroyed = {}
  /\ est = <<>> /\ onStack = FALSE /\ mode = "stmt" /\ skip = FALSE
  /\ flow = "body"
  /\ result = Nil
  /\ exit = -1

Operand ==
  \/ \E l \in Lits : Literal(l) \/ Call(l)
  \/ \E v \in Vars : Variable(v)
  \/ \E n \in NewCaps : New(n)
  \/ Plus

Statement ==
  \/ \E v \in Vars : Assign(v) \/ PlusAssign(v)
  \/ \E v \in Vars, i \in Indices : AssignChar(v, i)
  \/ \E v \in Locals : Declare(v)
  \/ \E v \in Vars, c \in Chars : PlusAssignChar(v, c)
  \/ CompareLit
  \/ CompareStrings

Ending ==
  \/ BeginReturn
  \/ \E last \in BOOLEAN : FinishReturn(last)
  \/ CloseBody
  \/ \E v \in Locals : FreeLocal(v)
  \/ Leave
  \/ MainFreesResult
  \/ \E b \in Blocks : MainFrees(b)
  \/ Epilogue

Next == Operand \/ Statement \/ Ending

Spec == Init /\ [][Next]_vars

-----------------------------------------------------------------------------
(* Type invariant: the flags, the slots, the evaluation stack and memory   *)
(* keep the shapes the parser and the machine code give them.              *)
TypeOK ==
  /\ mem \in Mem
  /\ slot \in [Vars -> Ptrs \cup {Uninit}]
  /\ declared \subseteq Vars /\ Params \subseteq declared
  /\ destroyed \subseteq Vars
  /\ est \in Seq(Value) /\ Len(est) <= MaxDepth
  /\ onStack \in BOOLEAN
  /\ mode \in {"stmt", "returning", "returned"} /\ skip \in BOOLEAN
  /\ flow \in Flows
  /\ result \in Ptrs \cup {Uninit}
  /\ mains \subseteq Blocks
  /\ exit \in {-1, 0, 97}

(***************************************************************************)
(* The facts about memory that hold for every program, rules or no rules,  *)
(* as long as no pointer has been misused and nothing was stored outside a *)
(* block.                                                                  *)
(***************************************************************************)

(* The length word counts the bytes that were stored, and a string that    *)
(* owns its capacity ends below it, inside the block that was asked for:   *)
(* what appends store stays in the block, whichever way the string was     *)
(* made and however often it was extended.                                 *)
StaysInBlock ==
  \A a \in Addrs :
    LET c == mem.cell[a]
    IN  c.live => /\ c.len = Bytes(c.text)
                  /\ c.cap # 0 => c.len < c.cap /\ c.cap + 8 <= c.room

(* The byte behind such a string is one of its block and the zero that     *)
(* HeapAlloc put there: printf, which takes the bytes for a C string,      *)
(* stops where the string ends.  This takes programs that store characters *)
(* only below the length: v[i] = 'c' checks no bound, and one at or past   *)
(* the length overwrites the zero.                                         *)
ZeroTerminated ==
  "pastEnd" \notin Habits =>
    \A b \in LiveBlocks(mem) :
      LET c == mem.cell[b]
      IN  c.cap # 0 => c.len + 8 < c.room /\ c.len \notin c.past

(* What _free_string gives back is what _alloc took: allocation_count is   *)
(* the number of bytes in the live blocks, whatever was extended, copied,  *)
(* concatenated or freed before.                                           *)
CountIsExact ==
  Sound(mem) => mem.count = MapThenSumSet(LAMBDA b : mem.cell[b].room, LiveBlocks(mem))

(* Read-only data is never written, extended in place or freed, although   *)
(* variables, operands and results point to it as to any other string.     *)
LiteralsIntact == \A l \in Lits : mem.cell[l] = LitCell(l)

(* A program that ends with exit code 0 has freed every block, and 97 is   *)
(* returned only when one is left: the leak check of main's epilogue is    *)
(* neither blind nor wrong.                                                *)
ExitTellsLeak ==
  flow = "ended" => (exit = 0 <=> LiveBlocks(mem) = {})

(***************************************************************************)
(* What the rules buy.                                                     *)
(***************************************************************************)
Ruled == Habits = {}

(* No program that keeps the rules dereferences nil or a freed string,     *)
(* frees one twice or frees an address that is not a string.               *)
NoFault == Ruled => Sound(mem)

OwningLocals(b) ==
  {v \in (declared \ Params) \ destroyed : slot[v] = b}
OwningOperands(b) ==
  {i \in DOMAIN est : /\ est[i].ptr = b
                      /\ \/ est[i].kind \in {"temp", "new"}
                         \/ est[i].var \in destroyed \ Params}
Owners(b) ==
  Cardinality(OwningLocals(b)) + Cardinality(OwningOperands(b))
    + (IF result = b THEN 1 ELSE 0)
    + (IF b \in mains THEN 1 ELSE 0)

(* Each live block has exactly one owner that will free it: a variable     *)
(* whose flag is clear, an operand, the result or main; and each owner     *)
(* owns a live block.  Moves, returns and appends pass ownership on.       *)
OneOwner ==
  Ruled => \A b \in Blocks : Owners(b) = IF mem.cell[b].live THEN 1 ELSE 0

(* The strings main lent to the function are as main left them.            *)
CallerIntact == Ruled => \A b \in mains : mem.cell[b] = ArgCell

(* A program that keeps the rules ends with exit code 0.                   *)
ExitClean == Ruled /\ flow = "ended" => exit = 0

(* Once the function has returned, its own variables hold nothing: what is *)
(* live is what main lent it and what it returned (the comment above the   *)
(* return label: "Free local variables that have objects on the heap").    *)
LocalsFreed == flow = "main" => LiveBlocks(mem) \subseteq mains \cup {result}

(* Pointers behave as values: a variable that has been given one has the   *)
(* text at its slot unless its flag says the string has moved, and no      *)
(* statement changes the text of a variable it does not name, although     *)
(* operands share blocks with variables and appends reuse or replace them. *)
HasValue(v) ==
  v \in declared \ (destroyed \ Params) /\ flow \in {"body", "gone", "label"}
Values == INSTANCE StringValues WITH
  Texts    <- Seq(Chunks),
  Text     <- LAMBDA c : <<Chunk(c)>>,
  Written  <- Overwritten,
  Gone     <- NoVar,
  val      <- [v \in Vars |-> IF HasValue(v) THEN TextAt(slot[v]) ELSE NoVar],
  operands <- [i \in DOMAIN est |-> TextAt(est[i].ptr)],
  over     <- flow \notin {"body", "gone"},
  returned <- IF flow \in {"label", "main"} THEN TextAt(result) ELSE <<>>

StringsAreValues == Values!Spec

=============================================================================
