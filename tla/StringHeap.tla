----------------------------- MODULE StringHeap -----------------------------
(***************************************************************************)
(* The run-time representation of JKV strings and the machine code that    *)
(* manipulates it: the allocator entry points of lib/sys.asm and the       *)
(* instruction sequences of emit_nasm.go that concatenate, extend, copy    *)
(* and free strings.                                                       *)
(*                                                                         *)
(* A string value is a pointer to a header word (length in the low half,   *)
(* capacity in the high half) followed by the bytes.  A literal lives in   *)
(* read-only data with capacity 0; every other string is a heap block.     *)
(* What a string says is abstracted to a sequence of chunks, each standing *)
(* for Size[c] bytes; lengths and capacities are the real numbers.         *)
(***************************************************************************)
EXTENDS Integers, Sequences, FiniteSetsExt

CONSTANTS
  Lits,     (* the string literals of the program                          *)
  Chars,    (* the characters appended or stored one at a time             *)
  Blocks,   (* the addresses HeapAlloc can return (bounds the live blocks) *)
  Size,     (* Size[c] is the number of bytes of chunk c                   *)
  Nil,      (* the pointer 0                                               *)
  Uninit    (* what a stack slot holds before it is pushed                 *)

ASSUME HeapAssumption ==
  /\ Lits \cap Chars = {} /\ Lits \cap Blocks = {}
  /\ Nil \notin Lits \cup Blocks
  /\ Uninit \notin Lits \cup Blocks \cup {Nil}
  /\ Size \in [Lits \cup Chars -> Nat \ {0}]
  /\ \A c \in Chars : Size[c] = 1

(* A chunk of a text: where its bytes came from, and whether one of them   *)
(* has been overwritten since.                                             *)
Chunks == (Lits \cup Chars) \X BOOLEAN
Chunk(c) == <<c, FALSE>>
Bytes(text) == MapThenSumSet(LAMBDA i : Size[text[i][1]], DOMAIN text)
Addrs == Lits \cup Blocks
Ptrs == Addrs \cup {Nil}

(***************************************************************************)
(* One addressable string.  "room" is the number of bytes HeapAlloc was    *)
(* asked for (0 in read-only data), "live" whether it is allocated, "past" *)
(* the spare bytes behind the text in which v[i] = 'c' has stored, all     *)
(* others being the zeros HeapAlloc put there.                             *)
(***************************************************************************)
Cell == [live : BOOLEAN, room : Nat, len : Nat, cap : Nat, text : Seq(Chunks),
         past : SUBSET Nat]

LitCell(l) ==
  [live |-> TRUE, room |-> 0, len |-> Size[l], cap |-> 0, text |-> <<Chunk(l)>>,
   past |-> {}]

FreeCell ==
  [live |-> FALSE, room |-> 0, len |-> 0, cap |-> 0, text |-> <<>>, past |-> {}]

(***************************************************************************)
(* The memory of the process: its cells, the global allocation_count and   *)
(* the first undefined access the machine code has made, after which       *)
(* nothing more is said of the run.                                        *)
(***************************************************************************)
Faults ==
  {"none", "nil", "stale", "doublefree", "badfree", "uninit", "outside"}

Mem == [cell : [Addrs -> Cell], count : Int, fault : Faults]

InitMem ==
  [cell  |-> [a \in Addrs |-> IF a \in Lits THEN LitCell(a) ELSE FreeCell],
   count |-> 0, fault |-> "none"]

Sound(m) == m.fault = "none"
Fail(m, f) ==
  IF Sound(m) THEN [cell |-> m.cell, count |-> m.count, fault |-> f] ELSE m

Usable(m, p) == p \in Addrs /\ m.cell[p].live

(* Dereferencing a pointer that is nil, freed or never stored.             *)
BadDeref(m, p) ==
  Fail(m, IF p = Nil THEN "nil" ELSE IF p = Uninit THEN "uninit" ELSE "stale")

FreeBlocks(m) == {b \in Blocks : ~m.cell[b].live}
LiveBlocks(m) == {b \in Blocks : m.cell[b].live}

-----------------------------------------------------------------------------

(* The cell at p becomes c and allocation_count changes by k.              *)
Put(m, p, c, k) ==
  [cell |-> [m.cell EXCEPT ![p] = c], count |-> m.count + k, fault |-> m.fault]

(* _alloc: HeapAlloc of n zeroed bytes at a free address, counted; then    *)
(* the header word and the bytes are stored.                               *)
Alloc(m, b, n, len, cap, text) ==
  Put(m, b, [live |-> TRUE, room |-> n, len |-> len, cap |-> cap, text |-> text,
             past |-> {}], n)

(* Length and bytes of the string at p change in place.                    *)
Fill(m, p, len, text, past) ==
  Put(m, p, [live |-> m.cell[p].live, room |-> m.cell[p].room, len |-> len,
             cap  |-> m.cell[p].cap, text |-> text, past |-> past], 0)

(* What a string's capacity says its block takes, header included          *)
(* (mutant: the header is forgotten).                                      *)
FreedPayload(m, p) == m.cell[p].cap
FreedBytes(m, p) == m.cell[p].cap + 8

(* _free_string: nil and capacity 0 are skipped; otherwise the count drops *)
(* by FreedBytes and the block is handed to HeapFree.                    *)
FreeString(m, p) ==
  IF ~Sound(m) \/ p = Nil THEN m
  ELSE IF p = Uninit THEN Fail(m, "uninit")
  ELSE IF ~m.cell[p].live THEN Fail(m, "doublefree")
  ELSE IF m.cell[p].cap = 0 THEN m
  ELSE Put(m, p, FreeCell, -FreedBytes(m, p))

(* EmitConcat: a new block with 32 spare bytes; each operand that the      *)
(* compiler flagged as a temporary is freed once it has been copied.       *)
Concat(m, b, p, q, free1, free2) ==
  IF ~Usable(m, p) THEN BadDeref(m, p)
  ELSE IF ~Usable(m, q) THEN BadDeref(m, q)
  ELSE LET n  == m.cell[p].len + m.cell[q].len
           m1 == Alloc(m, b, n + 40, n, n + 32, m.cell[p].text \o m.cell[q].text)
           m2 == IF free1 THEN FreeString(m1, p) ELSE m1
       IN  IF free2 THEN FreeString(m2, q) ELSE m2

(***************************************************************************)
(* ExtendStringCapacity(extra) before n more bytes are stored behind the   *)
(* string at p: nothing if they fit below the capacity, else a larger      *)
(* block b, the old bytes copied and the old string freed.                 *)
(***************************************************************************)
FitsToTheBrim(m, p, n) == m.cell[p].len + n <= m.cell[p].cap   (* mutant *)
Fits(m, p, n) == m.cell[p].len + n < m.cell[p].cap

ExtendedPtr(m, b, p, n) == IF p \in Addrs /\ Fits(m, p, n) THEN p ELSE b

Extend(m, b, p, n, extra) ==
  IF p # Nil /\ ~Usable(m, p) THEN BadDeref(m, p)
  ELSE IF p # Nil /\ Fits(m, p, n) THEN m
  ELSE LET old    == IF p = Nil THEN FreeCell ELSE m.cell[p]
           newcap == old.len + n + extra + 4
           m1     == Alloc(m, b, newcap + 8, old.len, newcap, old.text)
       IN  FreeString(m1, p)

(* The bytes stored behind the extended string at p.                       *)
Behind(c, n) == {i \in c.past : i >= c.len + n}
Store(m, p, n, text) ==
  Fill(m, p, m.cell[p].len + n, m.cell[p].text \o text, Behind(m.cell[p], n))

(* EmitAppendVariableExpressionStrStr: append the string at q to the one   *)
(* at p.  The length of q is read first, its bytes after the extension.    *)
AppendStr(m, b, p, q) ==
  IF ~Usable(m, q) THEN BadDeref(m, q)
  ELSE LET n  == m.cell[q].len
           m1 == Extend(m, b, p, n, 4)
       IN  IF ~Sound(m1) THEN m1
           ELSE IF ~Usable(m1, q) THEN BadDeref(m1, q)
           ELSE Store(m1, ExtendedPtr(m, b, p, n), n, m1.cell[q].text)

(* The character variants: one byte more.                                  *)
AppendChar(m, b, p, c) ==
  LET m1 == Extend(m, b, p, 1, 4)
  IN  IF ~Sound(m1) THEN m1
      ELSE Store(m1, ExtendedPtr(m, b, p, 1), 1, <<Chunk(c)>>)

(* EmitCopyStringToRam: a literal is copied to a block with 24 spare bytes *)
(* before it is written; a string that has a capacity is used in place     *)
(* (mutant: the spare bytes of a concatenation, in the same block).        *)
SpareOfConcat == 32
Spare == 24

CopyToRam(m, b, p) ==
  IF ~Usable(m, p) THEN BadDeref(m, p)
  ELSE IF m.cell[p].cap # 0 THEN m
  ELSE Alloc(m, b, m.cell[p].len + 32,
             m.cell[p].len, m.cell[p].len + Spare, m.cell[p].text)

CopiedPtr(m, b, p) == IF p \in Addrs /\ m.cell[p].cap # 0 THEN p ELSE b

(* The text after a character was stored in its byte i, which lies in its  *)
(* k-th chunk or, if i is no index of the text, in none of them.           *)
InChunk(text, k, i) ==
  Bytes(SubSeq(text, 1, k - 1)) <= i /\ i < Bytes(SubSeq(text, 1, k))
Overwritten(text, i) ==
  [k \in DOMAIN text |-> IF InChunk(text, k, i) THEN <<text[k][1], TRUE>>
                         ELSE text[k]]

(***************************************************************************)
(* A character stored in byte i of the string at p.  No bound is checked:  *)
(* an i at or past the length leaves the length word alone and changes a   *)
(* spare byte, one outside the block makes the write undefined.            *)
(***************************************************************************)
Poke(m, p, i) ==
  LET c == m.cell[p]
  IN  IF i < 0 \/ (i >= c.len /\ i + 8 >= c.room) THEN Fail(m, "outside")
      ELSE Fill(m, p, c.len, Overwritten(c.text, i),
                IF i < c.len THEN c.past ELSE c.past \cup {i})

(* EmitNewString: an empty string with capacity n.                         *)
NewString(m, b, n) == Alloc(m, b, n + 8, 0, n, <<>>)

=============================================================================
