----------------------------- MODULE StringValues -----------------------------
(***************************************************************************)
(* What JKV strings promise a programmer, without pointers, headers or     *)
(* frees: a variable holds a text of its own.  A statement changes only    *)
(* the variable it names, a text that is assigned or returned moves and    *)
(* leaves its variable without a value, and the text a function returns    *)
(* outlives the function's variables.                                      *)
(***************************************************************************)
EXTENDS Naturals, Sequences

CONSTANTS
  Vars,    (* the variables of the function                                *)
  Params,  (* those whose texts belong to the caller                       *)
  Lits,    (* the literals                                                 *)
  Texts,   (* the set of texts                                             *)
  Text(_), (* the text of a literal or a character                         *)
  Chars,
  Indices,
  Written(_, _), (* a text with its i-th character overwritten             *)
  Gone     (* no value: never assigned, or moved away                      *)

VARIABLES
  val,     (* the text of each variable                                    *)
  operands,(* the texts on the evaluation stack                            *)
  over,    (* the function is returning                                    *)
  returned (* the text it returns                                          *)

vars == <<val, operands, over, returned>>

Init ==
  /\ val \in [Vars -> Texts \cup {Gone}]
  /\ \A v \in Vars \ Params : val[v] = Gone
  /\ operands = <<>> /\ over = FALSE /\ returned = <<>>

Last == operands[Len(operands)]
Pop(n, t) == Append(SubSeq(operands, 1, Len(operands) - n), t)

Push(t) ==
  /\ operands' = Append(operands, t)
  /\ UNCHANGED <<val, over, returned>>

(* The text of a variable is read, or moved out of it.                     *)
Read(v) == val[v] # Gone /\ Push(val[v])

Move(v) ==
  /\ val[v] # Gone /\ v \notin Params
  /\ operands' = Append(operands, val[v])
  /\ val' = [val EXCEPT ![v] = Gone]
  /\ UNCHANGED <<over, returned>>

(* A function that returns a literal or appends it to its argument.        *)
Apply(l) ==
  /\ Len(operands) >= 1
  /\ operands' \in {Pop(1, Text(l)), Pop(1, Last \o Text(l))}
  /\ UNCHANGED <<val, over, returned>>

Concat ==
  /\ Len(operands) >= 2
  /\ operands' = Pop(2, operands[Len(operands) - 1] \o Last)
  /\ UNCHANGED <<val, over, returned>>

(* An operand is assigned to v; if it was read from the variable w, w      *)
(* loses it.                                                               *)
Assign(v) ==
  /\ Len(operands) = 1 /\ v \notin Params
  /\ \/ val' = [val EXCEPT ![v] = Last]
     \/ \E w \in Vars \ (Params \cup {v}) :
          /\ val[w] = Last
          /\ val' = [val EXCEPT ![v] = Last, ![w] = Gone]
  /\ operands' = <<>>
  /\ UNCHANGED <<over, returned>>

(* Changes of one variable: declared empty, appended to, overwritten.      *)
Set(v, t) ==
  /\ operands = <<>> /\ v \notin Params
  /\ val' = [val EXCEPT ![v] = t]
  /\ UNCHANGED <<operands, over, returned>>

Change(v) ==
  \/ val[v] = Gone /\ Set(v, <<>>)
  \/ /\ val[v] # Gone
     /\ \/ \E c \in Chars : Set(v, val[v] \o Text(c))
        \/ \E i \in Indices : Set(v, Written(val[v], i))

AppendOperand(v) ==
  /\ Len(operands) = 1 /\ val[v] # Gone /\ v \notin Params
  /\ val' = [val EXCEPT ![v] = @ \o Last]
  /\ operands' = <<>>
  /\ UNCHANGED <<over, returned>>

Discard ==
  /\ operands # <<>> /\ operands' = <<>>
  /\ UNCHANGED <<val, over, returned>>

Return ==
  /\ over' = TRUE /\ operands' = <<>>
  /\ \/ operands = <<>> /\ UNCHANGED returned
     \/ Len(operands) = 1 /\ returned' = Last
  /\ ~over
  /\ UNCHANGED val

Drop(v) ==
  /\ over /\ v \notin Params
  /\ val' = [val EXCEPT ![v] = Gone]
  /\ UNCHANGED <<operands, over, returned>>

(* The variables go when the function leaves; the returned text goes when  *)
(* the caller is done with it.                                             *)
Forget ==
  /\ over /\ val' = [v \in Vars |-> Gone]
  /\ UNCHANGED <<operands, over, returned>>

Consume ==
  /\ over /\ returned' = <<>>
  /\ UNCHANGED <<val, operands, over>>

Next ==
  \/ \E l \in Lits : Push(Text(l)) \/ Apply(l)
  \/ Push(<<>>)
  \/ \E v \in Vars :
       Read(v) \/ Move(v) \/ Assign(v) \/ Change(v) \/ AppendOperand(v) \/ Drop(v)
  \/ Concat \/ Discard \/ Return \/ Forget \/ Consume

Spec == Init /\ [][Next]_vars
=============================================================================
