------------------------ MODULE StringOwnership_proofs ------------------------
(***************************************************************************)
(* What holds of memory for every JKV function, whatever its statements    *)
(* and the number of variables, blocks, literals and sizes: the shapes of  *)
(* the state, that literals are never written or freed, that every string  *)
(* ends below its capacity and inside its block, that its length is the    *)
(* number of its bytes, that a zero is behind them unless the function     *)
(* stores characters past the end, and that allocation_count is the sum of *)
(* the blocks that live, so that main's leak check tells the truth.        *)
(***************************************************************************)
EXTENDS StringOwnership, SequenceTheorems, Inductions

-----------------------------------------------------------------------------
(* The run-time library: what its operations preserve, for any number of   *)
(* blocks and literals and any sizes.                                      *)

(* What holds of a cell that is allocated: the block is a header and the   *)
(* capacity, the length counts the bytes, a string that owns its capacity  *)
(* ends below it, and the spare bytes are zeros unless the program stores  *)
(* characters past the end.                                                *)
Fitting(c) ==
  c.live => /\ c.room = c.cap + 8
            /\ c.len = Bytes(c.text)
            /\ c.cap # 0 => c.len < c.cap
            /\ c.past # {} => "pastEnd" \in Habits

(* The bytes that the live blocks take together.                           *)
Rooms(m) == [b \in Blocks |-> m.cell[b].room]
Total(m) == SumOver(Rooms(m), LiveBlocks(m))
Held(c) == IF c.live THEN c.room ELSE 0

HeapOK(m) ==
  /\ m \in Mem
  /\ \A l \in Lits : m.cell[l] = LitCell(l)
  /\ \A b \in Blocks : Fitting(m.cell[b])
  /\ IsFiniteSet(LiveBlocks(m))
  /\ m.count = Total(m)

AnyPtr == Ptrs \cup {Uninit}

-----------------------------------------------------------------------------
(* The number of bytes of a text, as a sum over its positions.             *)
Sizes(text) == [i \in DOMAIN text |-> Size[text[i][1]]]

LEMMA ChunkInChunks == \A c \in Lits \cup Chars : Chunk(c) \in Chunks
  BY DEF Chunk, Chunks

LEMMA SizesAreNat ==
  ASSUME NEW text \in Seq(Chunks)
  PROVE  /\ DOMAIN text = 1 .. Len(text) /\ Len(text) \in Nat
         /\ IsFiniteSet(DOMAIN text)
         /\ \A i \in DOMAIN text : /\ text[i] \in Chunks
                                   /\ Sizes(text)[i] = Size[text[i][1]]
                                   /\ Sizes(text)[i] \in Nat
<1>1. DOMAIN text = 1 .. Len(text) /\ Len(text) \in Nat
  BY LenProperties
<1>2. \A i \in DOMAIN text : text[i] \in Chunks
  BY <1>1, ElementOfSeq
<1>3. \A c \in Chunks : Size[c[1]] \in Nat
  BY HeapAssumption DEF Chunks
<1>4. IsFiniteSet(DOMAIN text)
  BY <1>1, FS_Interval
<1> QED
  BY <1>1, <1>2, <1>3, <1>4 DEF Sizes

LEMMA BytesIsSum ==
  ASSUME NEW text \in Seq(Chunks)
  PROVE  Bytes(text) = SumOver(Sizes(text), DOMAIN text)
<1> DEFINE S == DOMAIN text
           Sums(g) == g = [s \in SUBSET S |->
                             IF s = {} THEN 0
                             ELSE Size[text[Pick(s)][1]] + g[s \ {Pick(s)}]]
           c == CHOOSE g : Sums(g)
<1>1. Bytes(text) = c[S]
  BY DEF Bytes, MapThenSumSet, MapThenFoldSet, Pick
<1>2. IsFiniteSet(S)
  BY SizesAreNat
<1>3. ASSUME NEW g PROVE SumsTo(g, Sizes(text), S) <=> Sums(g)
  <2>1. \A s \in SUBSET S : s # {} => Sizes(text)[Pick(s)] = Size[text[Pick(s)][1]]
    BY PickIn, SizesAreNat
  <2>2. [s \in SUBSET S |-> IF s = {} THEN 0
                            ELSE Sizes(text)[Pick(s)] + g[s \ {Pick(s)}]]
        = [s \in SUBSET S |-> IF s = {} THEN 0
                              ELSE Size[text[Pick(s)][1]] + g[s \ {Pick(s)}]]
    <3> HIDE DEF S
    <3> QED
      BY <2>1
  <2> QED
    BY <2>2 DEF SumsTo
<1> HIDE DEF Sums
<1>4. \E g : Sums(g)
  BY <1>2, <1>3, SumsExist
<1>5. Sums(c)
  BY <1>4
<1>6. SumsTo(c, Sizes(text), S)
  BY <1>3, <1>5
<1> HIDE DEF c, S
<1>7. SumOver(Sizes(text), S) = c[S]
  BY <1>2, <1>6, SumOfAny
<1> QED
  BY <1>1, <1>7 DEF S

LEMMA BytesIsNat ==
  ASSUME NEW text \in Seq(Chunks)
  PROVE  Bytes(text) \in Nat
<1> DEFINE f == Sizes(text)
           S == DOMAIN text
<1>1. IsFiniteSet(S) /\ \A i \in S : f[i] \in Nat
  BY SizesAreNat
<1>2. Bytes(text) = SumOver(f, S)
  BY BytesIsSum
<1> HIDE DEF f, S
<1> QED
  BY <1>1, <1>2, SumIsInt

LEMMA BytesOfEmpty == Bytes(<<>>) = 0
<1>1. <<>> \in Seq(Chunks) /\ DOMAIN <<>> = {}
  BY EmptySeq, LenProperties
<1> QED
  BY <1>1, BytesIsSum, SumEmpty

LEMMA BytesOfOne ==
  ASSUME NEW c \in Lits \cup Chars
  PROVE  Bytes(<<Chunk(c)>>) = Size[c]
<1> DEFINE text == <<Chunk(c)>>
           f == Sizes(text)
<1>1. text \in Seq(Chunks) /\ DOMAIN text = {1} /\ text[1][1] = c
  <2>1. Chunk(c) \in Chunks /\ Chunk(c)[1] = c
    BY ChunkInChunks DEF Chunk
  <2>2. text \in Seq(Chunks) /\ Len(text) = 1 /\ text[1] = Chunk(c)
    BY <2>1
  <2>3. DOMAIN text = 1 .. 1
    BY <2>2, LenProperties
  <2> QED
    BY <2>1, <2>2, <2>3
<1>2. Bytes(text) = SumOver(f, {1})
  BY <1>1, BytesIsSum
<1>3. f[1] = Size[c] /\ Size[c] \in Nat
  BY <1>1, HeapAssumption DEF Sizes
<1> HIDE DEF text, f
<1>4. IsFiniteSet({1}) /\ {1} \ {1} = {}
  BY FS_Singleton
<1>5. SumOver(f, {1}) = f[1] + SumOver(f, {1} \ {1})
  BY <1>3, <1>4, SumRemove
<1>6. SumOver(f, {1}) = Size[c]
  BY <1>3, <1>4, <1>5, SumEmpty
<1> QED
  BY <1>2, <1>6 DEF text

(* The bytes of two texts, one behind the other, are theirs together.      *)
LEMMA BytesOfConcat ==
  ASSUME NEW s \in Seq(Chunks), NEW t \in Seq(Chunks)
  PROVE  Bytes(s \o t) = Bytes(s) + Bytes(t)
<1> DEFINE u == s \o t
           m == Len(s)
           n == Len(t)
           f == Sizes(s)
           g == Sizes(t)
           h == Sizes(u)
<1>1. u \in Seq(Chunks) /\ Len(u) = m + n /\ m \in Nat /\ n \in Nat
  BY ConcatProperties, LenProperties
<1>a. \A i \in 1 .. m : f[i] = Size[s[i][1]]
  BY SizesAreNat
<1>b. \A i \in 1 .. n : g[i] = Size[t[i][1]]
  BY SizesAreNat
<1>c. \A i \in 1 .. (m + n) : h[i] = Size[u[i][1]] /\ h[i] \in Nat
  <2> HIDE DEF u, m, n
  <2> QED
    BY <1>1, SizesAreNat
<1>d. \A i \in 1 .. (m + n) : u[i] = IF i <= m THEN s[i] ELSE t[i - m]
  BY ConcatProperties
<1> HIDE DEF u, m, n, f, g, h
<1>2. \A i \in 1 .. m : h[i] = f[i]
  <2>1. \A i \in 1 .. m : i \in 1 .. (m + n) /\ i <= m
    BY <1>1
  <2> QED
    BY <1>a, <1>c, <1>d, <2>1
<1>3. \A i \in 1 .. n : h[m + i] = g[i]
  <2>1. \A i \in 1 .. n : m + i \in 1 .. (m + n) /\ ~(m + i <= m) /\ (m + i) - m = i
    BY <1>1
  <2> QED
    BY <1>b, <1>c, <1>d, <2>1
<1>4. \A i \in 1 .. (m + n) : h[i] \in Int
  BY <1>c
<1> USE DEF u, m, n, f, g, h
<1>5. \A i \in 1 .. n : g[i] \in Int
  BY SizesAreNat
<1>6. /\ Bytes(s) = SumOver(f, 1 .. m) /\ Bytes(t) = SumOver(g, 1 .. n)
      /\ Bytes(u) = SumOver(h, 1 .. (m + n))
  BY <1>1, BytesIsSum, SizesAreNat
<1> HIDE DEF u, m, n, f, g, h
<1> DEFINE first(k) == 1 .. k
           K == {k \in Nat : k <= n => SumOver(h, first(m + k)) =
                                         SumOver(f, first(m)) + SumOver(g, first(k))}
<1>7. ASSUME NEW k \in Nat PROVE IsFiniteSet(first(k))
  BY FS_Interval
<1>8. SumOver(h, first(m)) = SumOver(f, first(m)) /\ SumOver(f, first(m)) \in Int
  <2>1. \A i \in first(m) : h[i] = f[i] /\ f[i] \in Int
    BY <1>1, <1>2, <1>4
  <2>2. IsFiniteSet(first(m))
    BY <1>1, <1>7
  <2> HIDE DEF first
  <2> QED
    BY <2>1, <2>2, SumSame, SumIsInt
<1>9. 0 \in K
  <2>1. first(0) = {} /\ m + 0 = m
    BY <1>1
  <2>2. SumOver(g, first(0)) = 0
    BY <2>1, SumEmpty
  <2> HIDE DEF first
  <2> QED
    BY <1>8, <2>1, <2>2
<1>10. ASSUME NEW k \in Nat, k \in K PROVE k + 1 \in K
  <2> SUFFICES ASSUME k + 1 <= n
               PROVE  SumOver(h, first(m + (k + 1))) =
                        SumOver(f, first(m)) + SumOver(g, first(k + 1))
    OBVIOUS
  <2>1. SumOver(h, first(m + k)) = SumOver(f, first(m)) + SumOver(g, first(k))
    <3>1. k <= n
      BY <1>1
    <3> HIDE DEF first
    <3> QED
      BY <1>10, <3>1
  <2>2. /\ first(m + (k + 1)) = first(m + k) \cup {m + (k + 1)}
        /\ m + (k + 1) \notin first(m + k)
        /\ first(k + 1) = first(k) \cup {k + 1} /\ k + 1 \notin first(k)
    BY <1>1
  <2>3. /\ \A i \in first(m + (k + 1)) : h[i] \in Int
        /\ \A i \in first(k + 1) : g[i] \in Int
    BY <1>1, <1>4, <1>5
  <2>4. IsFiniteSet(first(m + k)) /\ IsFiniteSet(first(k))
    BY <1>1, <1>7
  <2>5. h[m + (k + 1)] = g[k + 1] /\ g[k + 1] \in Int
    BY <1>1, <1>3, <1>5
  <2> HIDE DEF first
  <2>6. SumOver(h, first(m + (k + 1))) = h[m + (k + 1)] + SumOver(h, first(m + k))
    BY <2>2, <2>3, <2>4, SumAdd
  <2>7. SumOver(g, first(k + 1)) = g[k + 1] + SumOver(g, first(k))
    BY <2>2, <2>3, <2>4, SumAdd
  <2>8. SumOver(g, first(k)) \in Int
    BY <2>2, <2>3, <2>4, SumIsInt
  <2> QED
    BY <1>8, <2>1, <2>5, <2>6, <2>7, <2>8
<1>11. n \in K
  <2> HIDE DEF K
  <2> QED
    BY <1>1, <1>9, <1>10, NatSetInduction
<1> QED
  BY <1>1, <1>6, <1>11 DEF u

LEMMA FunctionIsSeq ==
  ASSUME NEW T, NEW n \in Nat, NEW u \in [1 .. n -> T]
  PROVE  u \in Seq(T) /\ Len(u) = n
  OBVIOUS

(* A character stored in a text leaves the text as long as it was.         *)
LEMMA OverwrittenInSeq ==
  ASSUME NEW text \in Seq(Chunks), NEW i
  PROVE  /\ Overwritten(text, i) \in Seq(Chunks)
         /\ Bytes(Overwritten(text, i)) = Bytes(text)
<1> DEFINE t == Overwritten(text, i)
<1>1. DOMAIN text = 1 .. Len(text) /\ Len(text) \in Nat /\ IsFiniteSet(DOMAIN text)
  BY SizesAreNat
<1>2. /\ DOMAIN t = DOMAIN text
      /\ \A k \in DOMAIN text : t[k] \in Chunks /\ t[k][1] = text[k][1]
  <2>1. \A k \in DOMAIN text : text[k] \in Chunks
    BY SizesAreNat
  <2>2. \A c \in Chunks : <<c[1], TRUE>> \in Chunks /\ <<c[1], TRUE>>[1] = c[1]
    BY DEF Chunks
  <2>3. /\ DOMAIN t = DOMAIN text
        /\ \A k \in DOMAIN text : t[k] \in {<<text[k][1], TRUE>>, text[k]}
    BY DEF Overwritten
  <2> HIDE DEF t
  <2>4. ASSUME NEW k \in DOMAIN text PROVE t[k] \in Chunks /\ t[k][1] = text[k][1]
    <3>1. CASE t[k] = text[k]
      BY <2>1, <3>1
    <3>2. CASE t[k] = <<text[k][1], TRUE>>
      <4>1. PICK c \in Chunks : c = text[k]
        BY <2>1
      <4>2. t[k] = <<c[1], TRUE>>
        BY <3>2, <4>1
      <4>3. <<c[1], TRUE>> \in Chunks /\ <<c[1], TRUE>>[1] = c[1]
        BY <2>2
      <4> QED
        BY <4>1, <4>2, <4>3
    <3> QED
      BY <2>3, <3>1, <3>2
  <2> QED
    BY <2>3, <2>4
<1>3. t = [k \in DOMAIN t |-> t[k]]
  BY DEF Overwritten
<1> HIDE DEF t
<1>4. t \in [1 .. Len(text) -> Chunks]
  BY <1>1, <1>2, <1>3
<1>5. t \in Seq(Chunks)
  BY <1>1, <1>4, FunctionIsSeq
<1>6. \A k \in DOMAIN text : Sizes(t)[k] = Sizes(text)[k]
  BY <1>2 DEF Sizes
<1>7. SumOver(Sizes(t), DOMAIN text) = SumOver(Sizes(text), DOMAIN text)
  BY <1>1, <1>6, SumSame
<1> QED
  BY <1>2, <1>5, <1>7, BytesIsSum DEF t

-----------------------------------------------------------------------------
LEMMA LitCellFields ==
  \A l \in Lits : /\ LitCell(l).live /\ LitCell(l).cap = 0
                  /\ LitCell(l).len = Bytes(LitCell(l).text)
  BY BytesOfOne DEF LitCell

LEMMA CellOfAddr ==
  ASSUME NEW m, HeapOK(m), NEW a \in Addrs
  PROVE  /\ m.cell[a] \in Cell
         /\ m.cell[a].live \in BOOLEAN /\ m.cell[a].room \in Nat
         /\ m.cell[a].len \in Nat /\ m.cell[a].cap \in Nat
         /\ m.cell[a].text \in Seq(Chunks)
         /\ m.cell[a].past \in SUBSET Nat
  BY DEF HeapOK, Mem, Cell

LEMMA LengthOfUsable ==
  ASSUME NEW m, HeapOK(m), NEW p, Usable(m, p)
  PROVE  m.cell[p].len = Bytes(m.cell[p].text)
  BY LitCellFields DEF HeapOK, Usable, Addrs, Fitting

LEMMA OwnedIsBlock ==
  ASSUME NEW m, HeapOK(m), NEW a \in Addrs, m.cell[a].cap # 0
  PROVE  a \in Blocks
  BY LitCellFields DEF HeapOK, Addrs

LEMMA LiteralIsLive ==
  ASSUME NEW m, HeapOK(m), NEW l \in Lits
  PROVE  m.cell[l].live /\ m.cell[l].cap = 0
  BY LitCellFields DEF HeapOK

(* One block beside all the others.                                        *)
LEMMA TotalSplit ==
  ASSUME NEW m, IsFiniteSet(LiveBlocks(m)), NEW b \in Blocks,
         \A a \in Blocks : m.cell[a].room \in Nat
  PROVE  /\ Total(m) = Held(m.cell[b]) + SumOver(Rooms(m), LiveBlocks(m) \ {b})
         /\ SumOver(Rooms(m), LiveBlocks(m) \ {b}) \in Nat
         /\ Held(m.cell[b]) \in Nat
<1> DEFINE L == LiveBlocks(m)
           f == Rooms(m)
<1>1. \A a \in Blocks : f[a] = m.cell[a].room
  BY DEF Rooms
<1>2. L \subseteq Blocks /\ (b \in L <=> m.cell[b].live)
  BY DEF LiveBlocks
<1>3. \A a \in L : f[a] \in Int
  BY <1>1, <1>2
<1>4. IsFiniteSet(L \ {b}) /\ \A a \in L \ {b} : f[a] \in Nat
  BY <1>1, <1>2, FS_RemoveElement
<1>5. Total(m) = SumOver(f, L)
  BY DEF Total
<1> HIDE DEF f
<1>6. SumOver(f, L \ {b}) \in Nat
  <2> DEFINE R == L \ {b}
  <2>1. IsFiniteSet(R) /\ \A a \in R : f[a] \in Nat
    BY <1>4
  <2> HIDE DEF R
  <2>2. SumOver(f, R) \in Nat
    BY <2>1, SumIsInt
  <2> QED
    BY <2>2 DEF R
<1>7. CASE m.cell[b].live
  <2> HIDE DEF L
  <2>1. IsFiniteSet(L)
    BY DEF L
  <2>2. SumOver(f, L) = f[b] + SumOver(f, L \ {b})
    BY <1>2, <1>3, <1>7, <2>1, SumRemove
  <2> QED
    BY <1>1, <1>5, <1>6, <1>7, <2>2 DEF Held, L, f
<1>8. CASE ~m.cell[b].live
  <2>1. L \ {b} = L
    BY <1>2, <1>8
  <2>2. Held(m.cell[b]) = 0 /\ Total(m) = SumOver(f, L \ {b})
    BY <1>5, <1>8, <2>1 DEF Held
  <2> HIDE DEF L
  <2>3. Total(m) = 0 + SumOver(f, L \ {b})
    BY <1>6, <2>2
  <2> QED
    BY <1>6, <2>2, <2>3 DEF L, f
<1> QED
  BY <1>7, <1>8

(* All changes of memory are of one block and the count, which changes by  *)
(* what the block holds more or less than before.                          *)
LEMMA PutKeeps ==
  ASSUME NEW m, HeapOK(m), NEW b \in Blocks, NEW c \in Cell, Fitting(c),
         NEW k \in Int, k = Held(c) - Held(m.cell[b])
  PROVE  /\ HeapOK(Put(m, b, c, k))
         /\ Put(m, b, c, k).cell[b] = c
         /\ \A a \in Addrs \ {b} : Put(m, b, c, k).cell[a] = m.cell[a]
<1> DEFINE n == [m.cell EXCEPT ![b] = c]
           m1 == [cell |-> n, count |-> m.count + k, fault |-> m.fault]
<1>1. m.cell \in [Addrs -> Cell] /\ m.count + k \in Int /\ m.fault \in Faults
  BY DEF HeapOK, Mem
<1>2. n \in [Addrs -> Cell] /\ b \in Addrs
  BY <1>1 DEF Addrs
<1>3. n[b] = c /\ \A a \in Addrs \ {b} : n[a] = m.cell[a]
  BY <1>1, <1>2
<1>4. \A l \in Lits : n[l] = LitCell(l)
  BY <1>3, HeapAssumption DEF HeapOK, Addrs
<1>5. \A a \in Blocks : Fitting(n[a])
  BY <1>3 DEF HeapOK, Addrs
<1> HIDE DEF n
<1>6. Put(m, b, c, k) = m1
  BY DEF Put, n
<1>7. m1 \in Mem /\ m1.cell = n /\ m1.count = m.count + k
  BY <1>1, <1>2 DEF Mem
<1> HIDE DEF m1
<1>8. /\ LiveBlocks(m1) \subseteq LiveBlocks(m) \cup {b}
      /\ LiveBlocks(m1) \ {b} = LiveBlocks(m) \ {b}
  BY <1>3, <1>7 DEF LiveBlocks, Addrs
<1>9. IsFiniteSet(LiveBlocks(m)) /\ IsFiniteSet(LiveBlocks(m1))
  BY <1>8, FS_AddElement, FS_Subset DEF HeapOK
<1>10. m1.count = Total(m1)
  <2>1. \A a \in Blocks : m.cell[a].room \in Nat /\ m1.cell[a].room \in Nat
    BY <1>1, <1>2, <1>7 DEF Cell, Addrs
  <2> DEFINE R == LiveBlocks(m) \ {b}
             s == SumOver(Rooms(m), R)
  <2>2. Total(m) = Held(m.cell[b]) + s /\ s \in Nat /\ Held(m.cell[b]) \in Nat
    BY <1>9, <2>1, TotalSplit
  <2>3. Total(m1) = Held(c) + SumOver(Rooms(m1), R) /\ Held(c) \in Nat
    BY <1>3, <1>7, <1>8, <1>9, <2>1, TotalSplit
  <2>4. IsFiniteSet(R) /\ \A a \in R : Rooms(m)[a] = Rooms(m1)[a]
    BY <1>3, <1>7, <1>9, FS_RemoveElement DEF Rooms, LiveBlocks, Addrs
  <2> HIDE DEF R
  <2>5. s = SumOver(Rooms(m1), R)
    BY <2>4, SumSame
  <2>6. m.count = Total(m)
    BY DEF HeapOK
  <2> HIDE DEF s
  <2> QED
    BY <1>7, <2>2, <2>3, <2>5, <2>6
<1> QED
  BY <1>3, <1>4, <1>5, <1>6, <1>7, <1>9, <1>10 DEF HeapOK

LEMMA FailKeeps ==
  ASSUME NEW m, HeapOK(m), NEW f \in Faults
  PROVE  HeapOK(Fail(m, f))
<1> DEFINE n == [cell |-> m.cell, count |-> m.count, fault |-> f]
<1>1. Total(n) = Total(m) /\ LiveBlocks(n) = LiveBlocks(m)
  BY DEF Total, Rooms, LiveBlocks
<1>2. n \in Mem /\ n.cell = m.cell /\ n.count = m.count
  BY DEF HeapOK, Mem
<1> HIDE DEF n
<1>3. HeapOK(n)
  BY <1>1, <1>2 DEF HeapOK
<1> QED
  BY <1>3 DEF Fail, n

LEMMA BadDerefKeeps ==
  ASSUME NEW m, HeapOK(m), NEW p
  PROVE  HeapOK(BadDeref(m, p))
  BY FailKeeps DEF BadDeref, Faults

LEMMA FreeCellInCell == FreeCell \in Cell /\ Fitting(FreeCell)
<1>1. <<>> \in Seq(Chunks)
  BY EmptySeq
<1> QED
  BY <1>1 DEF FreeCell, Cell, Fitting

(* What _free_string gives back is what the block held.                    *)
LEMMA FreedIsHeld ==
  ASSUME NEW m, HeapOK(m), NEW p \in Addrs, m.cell[p].live, m.cell[p].cap # 0
  PROVE  /\ p \in Blocks /\ -FreedBytes(m, p) \in Int
         /\ -FreedBytes(m, p) = Held(FreeCell) - Held(m.cell[p])
<1>1. p \in Blocks /\ m.cell[p].cap \in Nat
  BY OwnedIsBlock, CellOfAddr
<1>2. Held(m.cell[p]) = m.cell[p].cap + 8
  BY <1>1 DEF HeapOK, Fitting, Held
<1>3. Held(FreeCell) = 0
  BY DEF Held, FreeCell
<1> QED
  BY <1>1, <1>2, <1>3 DEF FreedBytes

LEMMA FreeStringKeeps ==
  ASSUME NEW m, HeapOK(m), NEW p \in AnyPtr
  PROVE  HeapOK(FreeString(m, p))
<1>1. CASE p \in {Nil, Uninit} \/ ~Sound(m) \/ ~m.cell[p].live \/ m.cell[p].cap = 0
  BY <1>1, FailKeeps DEF FreeString, Faults
<1>2. CASE /\ p \notin {Nil, Uninit} /\ Sound(m)
           /\ m.cell[p].live /\ m.cell[p].cap # 0
  <2>1. p \in Addrs
    BY <1>2 DEF AnyPtr, Ptrs
  <2>2. HeapOK(Put(m, p, FreeCell, -FreedBytes(m, p)))
    BY <1>2, <2>1, FreedIsHeld, FreeCellInCell, PutKeeps
  <2> QED
    BY <1>2, <2>2 DEF FreeString
<1> QED
  BY <1>1, <1>2

(* A block allocated and filled.                                           *)
LEMMA AllocKeeps ==
  ASSUME NEW m, HeapOK(m), NEW b \in FreeBlocks(m),
         NEW n \in Nat, NEW len \in Nat, NEW cap \in Nat, NEW text \in Seq(Chunks),
         n = cap + 8, len = Bytes(text), cap # 0 => len < cap
  PROVE  LET m1 == Alloc(m, b, n, len, cap, text)
         IN  /\ HeapOK(m1)
             /\ m1.cell[b].live /\ m1.cell[b].room = n
             /\ m1.cell[b].len = len /\ m1.cell[b].cap = cap
             /\ m1.cell[b].text = text
             /\ \A a \in Addrs \ {b} : m1.cell[a] = m.cell[a]
<1> DEFINE c == [live |-> TRUE, room |-> n, len |-> len, cap |-> cap, text |-> text,
                 past |-> {}]
<1>1. c \in Cell /\ Fitting(c)
  BY DEF Cell, Fitting
<1>2. /\ c.live /\ c.room = n /\ c.len = len /\ c.cap = cap /\ c.text = text
  OBVIOUS
<1>3. Alloc(m, b, n, len, cap, text) = Put(m, b, c, n)
  BY DEF Alloc
<1>4. b \in Blocks /\ n = Held(c) - Held(m.cell[b])
  BY DEF FreeBlocks, Held
<1> HIDE DEF c
<1> QED
  BY <1>1, <1>2, <1>3, <1>4, PutKeeps

(* The bytes of a block change, and its length stays below its capacity.   *)
LEMMA FillKeeps ==
  ASSUME NEW m, HeapOK(m), NEW b \in Blocks, NEW len \in Nat, NEW text \in Seq(Chunks),
         NEW past \in SUBSET Nat,
         m.cell[b].live => len = Bytes(text),
         m.cell[b].live /\ m.cell[b].cap # 0 => len < m.cell[b].cap,
         m.cell[b].live /\ past # {} => "pastEnd" \in Habits
  PROVE  LET m1 == Fill(m, b, len, text, past)
         IN  /\ HeapOK(m1)
             /\ \A a \in Addrs \ {b} : m1.cell[a] = m.cell[a]
             /\ m1.cell[b].live = m.cell[b].live
             /\ m1.cell[b].cap = m.cell[b].cap
<1> DEFINE c == [live |-> m.cell[b].live, room |-> m.cell[b].room, len |-> len,
                 cap |-> m.cell[b].cap, text |-> text, past |-> past]
<1>1. m.cell[b] \in Cell /\ Fitting(m.cell[b])
  BY CellOfAddr DEF HeapOK, Addrs
<1>2. c \in Cell /\ Fitting(c)
  BY <1>1 DEF Cell, Fitting
<1>3. Fill(m, b, len, text, past) = Put(m, b, c, 0)
  BY DEF Fill
<1>4. 0 = Held(c) - Held(m.cell[b])
  BY <1>1 DEF Held, Cell
<1>5. c.live = m.cell[b].live /\ c.cap = m.cell[b].cap
  OBVIOUS
<1> HIDE DEF c
<1> QED
  BY <1>2, <1>3, <1>4, <1>5, PutKeeps

-----------------------------------------------------------------------------
LEMMA ConcatKeeps ==
  ASSUME NEW m, HeapOK(m), NEW b \in FreeBlocks(m),
         NEW p \in AnyPtr, NEW q \in AnyPtr, NEW f \in BOOLEAN, NEW g \in BOOLEAN
  PROVE  HeapOK(Concat(m, b, p, q, f, g))
<1>1. CASE ~Usable(m, p) \/ ~Usable(m, q)
  BY <1>1, BadDerefKeeps DEF Concat
<1>2. CASE Usable(m, p) /\ Usable(m, q)
  <2> DEFINE n  == m.cell[p].len + m.cell[q].len
             m1 == Alloc(m, b, n + 40, n, n + 32, m.cell[p].text \o m.cell[q].text)
             m2 == IF f THEN FreeString(m1, p) ELSE m1
  <2>1. n \in Nat /\ m.cell[p].text \o m.cell[q].text \in Seq(Chunks)
    BY <1>2, CellOfAddr, ConcatProperties DEF Usable
  <2>2. HeapOK(m1)
    <3>1. n = Bytes(m.cell[p].text \o m.cell[q].text)
      BY <1>2, LengthOfUsable, CellOfAddr, BytesOfConcat DEF Usable
    <3> HIDE DEF n
    <3>2. n + 40 \in Nat /\ n + 32 \in Nat /\ n < n + 32 /\ n + 40 = (n + 32) + 8
      BY <2>1
    <3> QED
      BY ZenonT(40), <2>1, <3>1, <3>2, AllocKeeps
  <2>3. HeapOK(m2)
    BY <2>2, FreeStringKeeps
  <2>4. HeapOK(IF g THEN FreeString(m2, q) ELSE m2)
    BY <2>3, FreeStringKeeps
  <2> QED
    BY <1>2, <2>4 DEF Concat
<1> QED
  BY <1>1, <1>2

LEMMA FreeStringOthers ==
  ASSUME NEW m, HeapOK(m), NEW p \in AnyPtr, NEW a \in Addrs \ {p}
  PROVE  FreeString(m, p).cell[a] = m.cell[a]
<1>1. CASE p \in Addrs /\ m.cell[p].live /\ m.cell[p].cap # 0
  <2>1. p \in Blocks /\ m.cell[p].cap \in Nat
    BY <1>1, OwnedIsBlock, CellOfAddr
  <2>2. Put(m, p, FreeCell, -FreedBytes(m, p)).cell[a] = m.cell[a]
    BY <1>1, <2>1, FreedIsHeld, FreeCellInCell, PutKeeps
  <2> QED
    BY <1>1, <2>2 DEF FreeString, Fail
<1>2. CASE ~(p \in Addrs /\ m.cell[p].live /\ m.cell[p].cap # 0)
  BY <1>2 DEF FreeString, Fail, AnyPtr, Ptrs
<1> QED
  BY <1>1, <1>2

LEMMA FreeStringAt ==
  ASSUME NEW m, HeapOK(m), NEW p \in Addrs
  PROVE  FreeString(m, p).cell[p] \in {m.cell[p], FreeCell}
<1>1. CASE m.cell[p].live /\ m.cell[p].cap # 0
  <2>1. Put(m, p, FreeCell, -FreedBytes(m, p)).cell[p] = FreeCell
    BY <1>1, FreedIsHeld, FreeCellInCell, PutKeeps
  <2> QED
    BY <2>1 DEF FreeString, Fail
<1>2. CASE ~(m.cell[p].live /\ m.cell[p].cap # 0)
  BY <1>2 DEF FreeString, Fail
<1> QED
  BY <1>1, <1>2

(* After an extension that did not fail the pointer is a block that has    *)
(* room for n more bytes; the other cells are as before or freed.          *)
LEMMA ExtendKeeps ==
  ASSUME NEW m, HeapOK(m), Sound(m), NEW b \in FreeBlocks(m), NEW p \in AnyPtr,
         NEW n \in Nat, NEW extra \in Nat
  PROVE  LET m1 == Extend(m, b, p, n, extra)
             r  == ExtendedPtr(m, b, p, n)
         IN  /\ HeapOK(m1)
             /\ Sound(m1) => r \in Blocks /\ m1.cell[r].len + n < m1.cell[r].cap
             /\ \A a \in Addrs \ {b} : m1.cell[a].live => m1.cell[a] = m.cell[a]
<1>0. b \in Blocks /\ ~m.cell[b].live /\ b \in Addrs /\ b # Nil
  BY HeapAssumption DEF FreeBlocks, Addrs
<1>1. CASE p # Nil /\ ~Usable(m, p)
  <2>1. ~Sound(BadDeref(m, p)) /\ BadDeref(m, p).cell = m.cell
    BY DEF BadDeref, Fail, Sound
  <2> QED
    BY <1>1, <2>1, BadDerefKeeps DEF Extend
<1>2. CASE p # Nil /\ Usable(m, p) /\ Fits(m, p, n)
  <2>1. p \in Blocks
    BY <1>2, OwnedIsBlock, CellOfAddr DEF Usable, Fits
  <2> QED
    BY <1>2, <2>1 DEF Extend, ExtendedPtr, Fits, Usable
<1>3. CASE p = Nil \/ (Usable(m, p) /\ ~Fits(m, p, n))
  <2> DEFINE old    == IF p = Nil THEN FreeCell ELSE m.cell[p]
             newcap == old.len + n + extra + 4
             room   == newcap + 8
             m1     == Alloc(m, b, room, old.len, newcap, old.text)
  <2>1. ExtendedPtr(m, b, p, n) = b
    BY <1>3, HeapAssumption DEF ExtendedPtr, Usable, Addrs
  <2>2. old \in Cell
    BY <1>3, CellOfAddr, FreeCellInCell DEF Usable
  <2>3. Extend(m, b, p, n, extra) = FreeString(m1, p)
    BY <1>3 DEF Extend
  <2> HIDE DEF old
  <2>4. old.len \in Nat /\ old.text \in Seq(Chunks)
    BY <2>2 DEF Cell
  <2>5. /\ newcap \in Nat /\ room \in Nat /\ room = newcap + 8
        /\ old.len < newcap /\ old.len + n < newcap
    BY SMTT(30), <2>4
  <2> HIDE DEF newcap, room
  <2>6. /\ HeapOK(m1) /\ m1.cell[b].len = old.len /\ m1.cell[b].cap = newcap
        /\ \A a \in Addrs \ {b} : m1.cell[a] = m.cell[a]
    <3>1. old.len = Bytes(old.text)
      BY <1>3, LengthOfUsable, BytesOfEmpty DEF old, FreeCell
    <3>2. PICK l, t, r, q : l = old.len /\ t = old.text /\ r = room /\ q = newcap
      OBVIOUS
    <3>3. /\ l \in Nat /\ t \in Seq(Chunks) /\ r \in Nat /\ q \in Nat
          /\ r = q + 8 /\ l = Bytes(t) /\ l < q
      BY <2>4, <2>5, <3>1, <3>2
    <3>4. PICK h : h = Alloc(m, b, r, l, q, t)
      OBVIOUS
    <3>5. /\ HeapOK(h) /\ h.cell[b].len = l /\ h.cell[b].cap = q
          /\ \A a \in Addrs \ {b} : h.cell[a] = m.cell[a]
      BY <3>3, <3>4, AllocKeeps
    <3>6. h = m1
      BY <3>2, <3>4
    <3> QED
      BY <3>2, <3>5, <3>6
  <2> HIDE DEF m1
  <2>7. p # b
    BY <1>0, <1>3 DEF Usable
  <2>8. HeapOK(FreeString(m1, p)) /\ FreeString(m1, p).cell[b] = m1.cell[b]
    BY <1>0, <2>6, <2>7, FreeStringKeeps, FreeStringOthers
  <2>9. ASSUME NEW a \in Addrs \ {b}, FreeString(m1, p).cell[a].live
        PROVE  FreeString(m1, p).cell[a] = m.cell[a]
    <3>1. CASE a = p
      BY <2>6, <2>9, <3>1, FreeStringAt DEF FreeCell
    <3>2. CASE a # p
      BY <2>6, <3>2, FreeStringOthers
    <3> QED
      BY <3>1, <3>2
  <2> QED
    BY <1>0, <2>1, <2>3, <2>5, <2>6, <2>8, <2>9
<1> QED
  BY <1>1, <1>2, <1>3

LEMMA StoreKeeps ==
  ASSUME NEW m, HeapOK(m), NEW p \in Blocks, NEW n \in Nat, NEW text \in Seq(Chunks),
         n = Bytes(text), m.cell[p].len + n < m.cell[p].cap
  PROVE  /\ HeapOK(Store(m, p, n, text))
         /\ \A a \in Addrs \ {p} : Store(m, p, n, text).cell[a] = m.cell[a]
         /\ Store(m, p, n, text).cell[p].live = m.cell[p].live
         /\ Store(m, p, n, text).cell[p].cap = m.cell[p].cap
<1> DEFINE len == m.cell[p].len + n
           new == m.cell[p].text \o text
           past == Behind(m.cell[p], n)
<1>1. len \in Nat /\ new \in Seq(Chunks)
  BY CellOfAddr, ConcatProperties DEF Addrs
<1>5. past \in SUBSET Nat /\ (m.cell[p].live /\ past # {} => "pastEnd" \in Habits)
  <2>1. past \subseteq m.cell[p].past
    BY DEF Behind
  <2>2. m.cell[p].past \in SUBSET Nat /\ Fitting(m.cell[p])
    BY CellOfAddr DEF Addrs, HeapOK
  <2> HIDE DEF past
  <2> QED
    BY <2>1, <2>2 DEF Fitting
<1>2. m.cell[p].live => len = Bytes(new)
  <2>1. m.cell[p].live => m.cell[p].len = Bytes(m.cell[p].text)
    BY DEF HeapOK, Fitting
  <2> QED
    BY <2>1, CellOfAddr, BytesOfConcat DEF Addrs
<1>3. Store(m, p, n, text) = Fill(m, p, len, new, past)
  BY DEF Store
<1>4. len < m.cell[p].cap
  OBVIOUS
<1> HIDE DEF len, new, past
<1> QED
  BY <1>1, <1>2, <1>3, <1>4, <1>5, FillKeeps

LEMMA AppendStrKeeps ==
  ASSUME NEW m, HeapOK(m), Sound(m), NEW b \in FreeBlocks(m),
         NEW p \in AnyPtr, NEW q \in AnyPtr
  PROVE  HeapOK(AppendStr(m, b, p, q))
<1>1. CASE ~Usable(m, q)
  BY <1>1, BadDerefKeeps DEF AppendStr
<1>2. CASE Usable(m, q)
  <2> DEFINE n  == m.cell[q].len
             m1 == Extend(m, b, p, n, 4)
             r  == ExtendedPtr(m, b, p, n)
  <2>1. n \in Nat /\ n = Bytes(m.cell[q].text) /\ q \in Addrs /\ q # b
    BY <1>2, CellOfAddr, LengthOfUsable DEF Usable, FreeBlocks
  <2>2. /\ HeapOK(m1)
        /\ Sound(m1) => r \in Blocks /\ m1.cell[r].len + n < m1.cell[r].cap
        /\ m1.cell[q].live => m1.cell[q] = m.cell[q]
    BY <2>1, ExtendKeeps
  <2>3. AppendStr(m, b, p, q) =
          IF ~Sound(m1) THEN m1
          ELSE IF ~Usable(m1, q) THEN BadDeref(m1, q)
          ELSE Store(m1, r, n, m1.cell[q].text)
    BY <1>2 DEF AppendStr
  <2> HIDE DEF n, m1, r
  <2>4. CASE ~Sound(m1) \/ ~Usable(m1, q)
    BY <2>2, <2>3, <2>4, BadDerefKeeps
  <2>5. CASE Sound(m1) /\ Usable(m1, q)
    <3>1. m1.cell[q].text \in Seq(Chunks) /\ n = Bytes(m1.cell[q].text)
      BY <2>1, <2>2, <2>5, CellOfAddr DEF Usable
    <3> QED
      BY <2>1, <2>2, <2>3, <2>5, <3>1, StoreKeeps
  <2> QED
    BY <2>4, <2>5
<1> QED
  BY <1>1, <1>2

LEMMA AppendCharKeeps ==
  ASSUME NEW m, HeapOK(m), Sound(m), NEW b \in FreeBlocks(m),
         NEW p \in AnyPtr, NEW c \in Chars
  PROVE  HeapOK(AppendChar(m, b, p, c))
<1> DEFINE m1 == Extend(m, b, p, 1, 4)
           r  == ExtendedPtr(m, b, p, 1)
<1>1. /\ HeapOK(m1)
      /\ Sound(m1) => r \in Blocks /\ m1.cell[r].len + 1 < m1.cell[r].cap
  BY ExtendKeeps
<1>2. <<Chunk(c)>> \in Seq(Chunks)
  BY ChunkInChunks
<1>3. 1 = Bytes(<<Chunk(c)>>)
  BY BytesOfOne, HeapAssumption
<1>4. AppendChar(m, b, p, c) = IF ~Sound(m1) THEN m1 ELSE Store(m1, r, 1, <<Chunk(c)>>)
  BY DEF AppendChar
<1> HIDE DEF m1, r
<1> QED
  BY <1>1, <1>2, <1>3, <1>4, StoreKeeps

(* A string made writable is a block, and as long as it was.               *)
LEMMA CopyToRamKeeps ==
  ASSUME NEW m, HeapOK(m), Sound(m), NEW b \in FreeBlocks(m), NEW p \in AnyPtr
  PROVE  /\ HeapOK(CopyToRam(m, b, p))
         /\ CopiedPtr(m, b, p) \in Blocks
         /\ Sound(CopyToRam(m, b, p)) =>
              /\ Usable(m, p)
              /\ CopyToRam(m, b, p).cell[CopiedPtr(m, b, p)].len = m.cell[p].len
<1>1. CopiedPtr(m, b, p) \in Blocks
  BY OwnedIsBlock DEF CopiedPtr, FreeBlocks
<1>4. CASE ~Usable(m, p)
  <2>1. CopyToRam(m, b, p) = BadDeref(m, p) /\ ~Sound(BadDeref(m, p))
    BY <1>4 DEF CopyToRam, BadDeref, Fail, Sound
  <2> QED
    BY <1>1, <2>1, BadDerefKeeps
<1>2. CASE Usable(m, p) /\ m.cell[p].cap # 0
  BY <1>1, <1>2 DEF CopyToRam, CopiedPtr, Usable
<1>3. CASE Usable(m, p) /\ m.cell[p].cap = 0
  <2> DEFINE n == m.cell[p].len
  <2>1. n \in Nat /\ m.cell[p].text \in Seq(Chunks)
    BY <1>3, CellOfAddr DEF Usable
  <2>2. CopyToRam(m, b, p) = Alloc(m, b, n + 32, n, n + 24, m.cell[p].text)
    BY <1>3 DEF CopyToRam, Spare
  <2> HIDE DEF n
  <2>3. n + 32 \in Nat /\ n + 24 \in Nat /\ n < n + 24 /\ n + 32 = (n + 24) + 8
    BY <2>1
  <2>4. n = Bytes(m.cell[p].text)
    BY <1>3, LengthOfUsable DEF n
  <2>5. CopiedPtr(m, b, p) = b
    BY <1>3 DEF CopiedPtr
  <2>6. HeapOK(CopyToRam(m, b, p)) /\ CopyToRam(m, b, p).cell[b].len = n
    <3> DEFINE room == n + 32
               cap  == n + 24
               text == m.cell[p].text
    <3>1. /\ room \in Nat /\ cap \in Nat /\ (cap # 0 => n < cap) /\ room = cap + 8
          /\ n \in Nat /\ text \in Seq(Chunks) /\ n = Bytes(text)
      BY <2>1, <2>3, <2>4
    <3>2. CopyToRam(m, b, p) = Alloc(m, b, room, n, cap, text)
      BY <2>2
    <3> HIDE DEF room, cap, text
    <3>3. /\ HeapOK(Alloc(m, b, room, n, cap, text))
          /\ Alloc(m, b, room, n, cap, text).cell[b].len = n
      BY <3>1, AllocKeeps
    <3> QED
      BY <3>2, <3>3
  <2> QED
    BY <1>1, <1>3, <2>5, <2>6 DEF n
<1> QED
  BY <1>1, <1>2, <1>3, <1>4

(* A character stored below the length changes the text; one stored behind *)
(* it is remembered as such.                                               *)
LEMMA PokeIsFill ==
  ASSUME NEW m, HeapOK(m), NEW p \in Blocks, NEW i \in Int, 0 <= i, i < m.cell[p].len
  PROVE  Poke(m, p, i) = Fill(m, p, m.cell[p].len, Overwritten(m.cell[p].text, i),
                              m.cell[p].past)
<1>1. m.cell[p].len \in Nat
  BY CellOfAddr DEF Addrs
<1>2. ~(i < 0) /\ ~(i >= m.cell[p].len)
  BY <1>1
<1> QED
  BY <1>2 DEF Poke

LEMMA PokeKeeps ==
  ASSUME NEW m, HeapOK(m), NEW p \in Blocks, NEW i \in Int,
         i >= m.cell[p].len => "pastEnd" \in Habits
  PROVE  LET m1 == Poke(m, p, i)
         IN  /\ HeapOK(m1)
             /\ \A a \in Addrs \ {p} : m1.cell[a] = m.cell[a]
             /\ m1.cell[p].live = m.cell[p].live
             /\ m1.cell[p].cap = m.cell[p].cap
<1> DEFINE c    == m.cell[p]
           t    == Overwritten(c.text, i)
           past == IF i < c.len THEN c.past ELSE c.past \cup {i}
           out  == i < 0 \/ (i >= c.len /\ i + 8 >= c.room)
<1>1. /\ c.len \in Nat /\ t \in Seq(Chunks) /\ c.past \in SUBSET Nat
      /\ Fitting(c) /\ Bytes(t) = Bytes(c.text)
  BY CellOfAddr, OverwrittenInSeq DEF Addrs, HeapOK
<1>2. Poke(m, p, i) = IF out THEN Fail(m, "outside") ELSE Fill(m, p, c.len, t, past)
  BY DEF Poke
<1>3. CASE out
  <2>1. HeapOK(Fail(m, "outside"))
    BY FailKeeps DEF Faults
  <2>2. Fail(m, "outside").cell = m.cell
    BY DEF Fail
  <2> QED
    BY <1>2, <1>3, <2>1, <2>2
<1>4. CASE ~out
  <2>1. i \in Nat
    BY <1>4
  <2>2. past \in SUBSET Nat
    BY <1>1, <2>1
  <2>3. c.live /\ past # {} => "pastEnd" \in Habits
    <3>1. CASE i < c.len
      BY <1>1, <3>1 DEF Fitting
    <3>2. CASE ~(i < c.len)
      <4>1. i >= c.len
        BY <1>1, <2>1, <3>2
      <4> QED
        BY <4>1
    <3> QED
      BY <3>1, <3>2
  <2>4. /\ c.live => c.len = Bytes(t)
        /\ c.live /\ c.cap # 0 => c.len < c.cap
    BY <1>1 DEF Fitting
  <2> DEFINE len == c.len
  <2>5. Poke(m, p, i) = Fill(m, p, len, t, past)
    BY <1>2, <1>4
  <2>6. /\ len \in Nat /\ t \in Seq(Chunks) /\ past \in SUBSET Nat
        /\ m.cell[p].live => len = Bytes(t)
        /\ m.cell[p].live /\ m.cell[p].cap # 0 => len < m.cell[p].cap
        /\ m.cell[p].live /\ past # {} => "pastEnd" \in Habits
    BY <1>1, <2>2, <2>3, <2>4
  <2> HIDE DEF c, t, past, out, len
  <2> QED
    BY <2>5, <2>6, FillKeeps
<1> QED
  BY <1>3, <1>4

LEMMA NewStringKeeps ==
  ASSUME NEW m, HeapOK(m), NEW b \in FreeBlocks(m), NEW n \in Nat
  PROVE  HeapOK(NewString(m, b, n))
<1> DEFINE k == n + 8
<1>1. /\ <<>> \in Seq(Chunks) /\ 0 \in Nat /\ k \in Nat
      /\ k = n + 8 /\ 0 = Bytes(<<>>) /\ (n # 0 => 0 < n)
  BY EmptySeq, BytesOfEmpty
<1>2. NewString(m, b, n) = Alloc(m, b, k, 0, n, <<>>)
  BY DEF NewString
<1> HIDE DEF k
<1>3. HeapOK(Alloc(m, b, k, 0, n, <<>>))
  BY ZenonT(40), <1>1, AllocKeeps
<1> QED
  BY <1>2, <1>3

-----------------------------------------------------------------------------
(* The program.                                                            *)
IInv == TypeOK /\ HeapOK(mem)

-----------------------------------------------------------------------------
LEMMA RunKeeps ==
  ASSUME HeapOK(mem), NEW m, HeapOK(m), Run(m)
  PROVE  HeapOK(mem')
  BY DEF Run

LEMMA TopIsValue ==
  ASSUME TypeOK, Len(est) >= 1
  PROVE  Top.ptr \in AnyPtr /\ (Top.kind = "var" => Top.var \in Vars)
<1>1. Len(est) \in 1 .. Len(est)
  BY LenProperties DEF TypeOK
<1>2. Top \in Value
  BY <1>1, ElementOfSeq DEF TypeOK, Top
<1> QED
  BY <1>2 DEF Value, AnyPtr

LEMMA BelowIsValue ==
  ASSUME TypeOK, Len(est) >= 2
  PROVE  Below.ptr \in AnyPtr
<1>1. Len(est) - 1 \in 1 .. Len(est)
  BY LenProperties DEF TypeOK
<1>2. Below \in Value
  BY <1>1, ElementOfSeq DEF TypeOK, Below
<1> QED
  BY <1>2 DEF Value, AnyPtr

LEMMA PushKeeps ==
  ASSUME TypeOK, NEW v \in Value, Len(est) < MaxDepth, est' = Append(est, v)
  PROVE  est' \in Seq(Value) /\ Len(est') <= MaxDepth
  BY AppendProperties, LenProperties, OwnershipAssumption DEF TypeOK

LEMMA ReplaceKeeps ==
  ASSUME TypeOK, NEW n \in {1, 2}, Len(est) >= n, NEW v \in Value,
         est' = Replace(n, v)
  PROVE  est' \in Seq(Value) /\ Len(est') <= MaxDepth
<1>1. Len(est) \in Nat /\ Len(est) <= MaxDepth /\ MaxDepth \in Nat
  BY LenProperties, OwnershipAssumption DEF TypeOK
<1>2. /\ SubSeq(est, 1, Len(est) - n) \in Seq(Value)
      /\ Len(SubSeq(est, 1, Len(est) - n)) = Len(est) - n
  BY <1>1, SubSeqProperties DEF TypeOK
<1> QED
  BY <1>1, <1>2, AppendProperties DEF Replace

LEMMA DroppedKeeps == <<>> \in Seq(Value) /\ Len(<<>>) <= MaxDepth
  BY EmptySeq, OwnershipAssumption

LEMMA FreeTempKeeps ==
  ASSUME NEW m, HeapOK(m), NEW x, x.ptr \in AnyPtr
  PROVE  HeapOK(FreeTemp(m, x))
  BY FreeStringKeeps DEF FreeTemp

LEMMA BorrowKeeps ==
  ASSUME NEW m, HeapOK(m), NEW x, x.ptr \in AnyPtr
  PROVE  HeapOK(Borrow(m, x))
  BY FreeTempKeeps, BadDerefKeeps DEF Borrow

LEMMA FreeIsBlock ==
  ASSUME NEW b \in FreeBlocks(mem)
  PROVE  b \in Blocks /\ b \in Ptrs
  BY DEF FreeBlocks, Ptrs, Addrs

LEMMA OldPtrIsPtr ==
  ASSUME TypeOK, NEW v \in Vars
  PROVE  OldPtr(v) \in AnyPtr /\ slot[v] \in AnyPtr
  BY DEF TypeOK, OldPtr, AnyPtr, Ptrs

LEMMA UpdateKeeps ==
  ASSUME TypeOK, NEW v \in Vars, NEW p \in AnyPtr, Update(v, p)
  PROVE  slot' \in [Vars -> Ptrs \cup {Uninit}]
  BY DEF TypeOK, Update, AnyPtr

-----------------------------------------------------------------------------
(* Operands.                                                               *)
LEMMA LiteralStep ==
  ASSUME IInv, NEW l \in Lits, Literal(l)
  PROVE  IInv'
<1>1. [ptr |-> l, kind |-> "const", var |-> NoVar] \in Value
  BY DEF Value, Ptrs, Addrs
<1>2. est' \in Seq(Value) /\ Len(est') <= MaxDepth
  BY <1>1, PushKeeps DEF IInv, Literal
<1> QED
  BY <1>2 DEF IInv, TypeOK, Literal, control, caller

LEMMA VariableStep ==
  ASSUME IInv, NEW v \in Vars, Variable(v)
  PROVE  IInv'
<1>1. [ptr |-> IF Executing THEN slot[v] ELSE Nil, kind |-> "var", var |-> v] \in Value
  BY DEF IInv, TypeOK, Value, Ptrs
<1>2. est' \in Seq(Value) /\ Len(est') <= MaxDepth
  BY <1>1, PushKeeps DEF IInv, Variable
<1>3. destroyed' \subseteq Vars
  BY DEF IInv, TypeOK, Variable, Flagged
<1>4. mode' \in {"stmt", "returning", "returned"}
  BY DEF IInv, TypeOK, Variable
<1> QED
  BY <1>2, <1>3, <1>4 DEF IInv, TypeOK, Variable, caller

LEMMA NewStep ==
  ASSUME IInv, NEW n \in NewCaps, New(n)
  PROVE  IInv'
<1>1. PICK b \in FreeBlocks(mem) :
        /\ Run(NewString(mem, b, n))
        /\ est' = Append(est, [ptr |-> IF Executing THEN b ELSE Nil,
                               kind |-> "new", var |-> NoVar])
  BY DEF New
<1>2. [ptr |-> IF Executing THEN b ELSE Nil, kind |-> "new", var |-> NoVar] \in Value
  BY FreeIsBlock DEF Value, Ptrs
<1>3. est' \in Seq(Value) /\ Len(est') <= MaxDepth
  BY <1>1, <1>2, PushKeeps DEF IInv, New
<1>4. HeapOK(mem')
  <2>1. n \in Nat /\ b \in Blocks
    BY FreeIsBlock, OwnershipAssumption
  <2> QED
    BY <1>1, <2>1, NewStringKeeps, RunKeeps DEF IInv
<1> QED
  BY <1>3, <1>4 DEF IInv, TypeOK, New, control, caller, HeapOK

LEMMA CallStep ==
  ASSUME IInv, NEW l \in Lits, Call(l)
  PROVE  IInv'
<1>1. Len(est) >= 1 /\ Top.ptr \in AnyPtr
  BY TopIsValue DEF IInv, Call
<1>2. l \in AnyPtr
  BY DEF AnyPtr, Ptrs, Addrs
<1> DEFINE Result(p) == [ptr |-> IF Executing THEN p ELSE Nil, kind |-> "temp",
                         var |-> NoVar]
<1>3. \A p \in Ptrs : Result(p) \in Value
  BY DEF Value, Ptrs
<1>4. CASE Run(Borrow(mem, Top)) /\ est' = Replace(1, Result(l))
  <2>1. HeapOK(mem')
    BY <1>1, <1>4, BorrowKeeps, RunKeeps DEF IInv
  <2>2. Result(l) \in Value
    BY <1>3 DEF Ptrs, Addrs
  <2>3. est' \in Seq(Value) /\ Len(est') <= MaxDepth
    BY <1>1, <1>4, <2>2, ReplaceKeeps DEF IInv
  <2> QED
    BY <2>1, <2>3 DEF IInv, TypeOK, Call, control, caller, HeapOK
<1>5. ASSUME NEW b \in FreeBlocks(mem),
             Run(FreeTemp(Concat(mem, b, Top.ptr, l, FALSE, FALSE), Top)),
             est' = Replace(1, Result(b))
      PROVE  IInv'
  <2>1. HeapOK(Concat(mem, b, Top.ptr, l, FALSE, FALSE))
    BY <1>1, <1>2, FreeIsBlock, ConcatKeeps DEF IInv
  <2>2. HeapOK(mem')
    BY <1>1, <1>5, <2>1, FreeTempKeeps, RunKeeps DEF IInv
  <2>3. Result(b) \in Value
    BY <1>3, FreeIsBlock
  <2>4. est' \in Seq(Value) /\ Len(est') <= MaxDepth
    BY <1>1, <1>5, <2>3, ReplaceKeeps DEF IInv
  <2> QED
    BY <2>2, <2>4 DEF IInv, TypeOK, Call, control, caller, HeapOK
<1> QED
  BY <1>4, <1>5 DEF Call

LEMMA PlusStep ==
  ASSUME IInv, Plus
  PROVE  IInv'
<1>1. PICK b \in FreeBlocks(mem) :
        /\ Run(Concat(mem, b, Below.ptr, Top.ptr,
                      Below.kind = "temp", Top.kind = "temp"))
        /\ est' = Replace(2, [ptr |-> IF Executing THEN b ELSE Nil,
                              kind |-> "temp", var |-> NoVar])
  BY DEF Plus
<1>2. Len(est) \in Nat /\ Len(est) >= 2 /\ Len(est) >= 1
  BY LenProperties DEF IInv, TypeOK, Plus
<1>3. Top.ptr \in AnyPtr /\ Below.ptr \in AnyPtr
  BY <1>2, TopIsValue, BelowIsValue DEF IInv
<1>4. HeapOK(Concat(mem, b, Below.ptr, Top.ptr, Below.kind = "temp", Top.kind = "temp"))
  BY <1>3, FreeIsBlock, ConcatKeeps DEF IInv
<1>5. HeapOK(mem')
  BY <1>1, <1>4, RunKeeps DEF IInv
<1>6. [ptr |-> IF Executing THEN b ELSE Nil, kind |-> "temp", var |-> NoVar] \in Value
  BY FreeIsBlock DEF Value, Ptrs
<1>7. est' \in Seq(Value) /\ Len(est') <= MaxDepth
  BY <1>1, <1>2, <1>6, ReplaceKeeps DEF IInv
<1> QED
  BY <1>5, <1>7 DEF IInv, TypeOK, Plus, control, caller, HeapOK

-----------------------------------------------------------------------------
(* Statements.                                                             *)
LEMMA DeclareStep ==
  ASSUME IInv, NEW v \in Locals, Declare(v)
  PROVE  IInv'
<1>1. slot' \in [Vars -> Ptrs \cup {Uninit}]
  BY UpdateKeeps DEF IInv, Declare, AnyPtr, Ptrs, Vars
<1> QED
  BY <1>1 DEF IInv, TypeOK, Declare, Vars, control, caller, HeapOK

LEMMA AssignStep ==
  ASSUME IInv, NEW v \in Vars, Assign(v)
  PROVE  IInv'
<1>1. Top.ptr \in AnyPtr /\ (Top.kind = "var" => Top.var \in Vars)
  BY TopIsValue DEF IInv, Assign
<1>2. HeapOK(FreeString(mem, OldPtr(v)))
  BY OldPtrIsPtr, FreeStringKeeps DEF IInv
<1>3. HeapOK(mem')
  BY <1>2, RunKeeps DEF IInv, Assign
<1>4. slot' \in [Vars -> Ptrs \cup {Uninit}]
  BY <1>1, UpdateKeeps DEF IInv, Assign
<1> QED
  BY ZenonT(40), <1>1, <1>3, <1>4, DroppedKeeps DEF IInv, TypeOK, Assign, control, caller, HeapOK

LEMMA PlusAssignStep ==
  ASSUME IInv, NEW v \in Vars, PlusAssign(v)
  PROVE  IInv'
<1>1. Top.ptr \in AnyPtr /\ slot[v] \in AnyPtr
  BY TopIsValue, OldPtrIsPtr DEF IInv, PlusAssign
<1>2. PICK b \in FreeBlocks(mem) :
        IF Top.kind = "const"
        THEN /\ Run(Concat(mem, b, slot[v], Top.ptr, TRUE, FALSE))
             /\ Update(v, b)
        ELSE /\ Run(AppendStr(mem, b, slot[v], Top.ptr))
             /\ Update(v, IF Usable(mem, Top.ptr)
                          THEN ExtendedPtr(mem, b, slot[v], mem.cell[Top.ptr].len)
                          ELSE slot[v])
  BY DEF PlusAssign
<1>3. b \in Blocks /\ b \in AnyPtr
  BY FreeIsBlock DEF AnyPtr
<1>4. CASE Top.kind = "const"
  <2>1. HeapOK(mem')
    BY <1>1, <1>2, <1>3, <1>4, ConcatKeeps, RunKeeps DEF IInv
  <2>2. slot' \in [Vars -> Ptrs \cup {Uninit}]
    BY <1>2, <1>3, <1>4, UpdateKeeps DEF IInv
  <2> QED
    BY <2>1, <2>2, DroppedKeeps DEF IInv, TypeOK, PlusAssign, control, caller, HeapOK
<1>5. CASE Top.kind # "const"
  <2>1. HeapOK(AppendStr(mem, b, slot[v], Top.ptr))
    BY <1>1, AppendStrKeeps DEF IInv, PlusAssign, Parsing
  <2>2. HeapOK(mem')
    BY <1>2, <1>5, <2>1, RunKeeps DEF IInv
  <2>3. (IF Usable(mem, Top.ptr)
         THEN ExtendedPtr(mem, b, slot[v], mem.cell[Top.ptr].len) ELSE slot[v]) \in AnyPtr
    BY <1>1, <1>3 DEF ExtendedPtr
  <2>4. slot' \in [Vars -> Ptrs \cup {Uninit}]
    BY <1>2, <1>5, <2>3, UpdateKeeps DEF IInv
  <2> QED
    BY <2>2, <2>4, DroppedKeeps DEF IInv, TypeOK, PlusAssign, control, caller, HeapOK
<1> QED
  BY <1>4, <1>5

LEMMA PlusAssignCharStep ==
  ASSUME IInv, NEW v \in Vars, NEW c \in Chars, PlusAssignChar(v, c)
  PROVE  IInv'
<1>1. slot[v] \in AnyPtr
  BY OldPtrIsPtr DEF IInv
<1>2. PICK b \in FreeBlocks(mem) :
        /\ Run(AppendChar(mem, b, slot[v], c))
        /\ Update(v, ExtendedPtr(mem, b, slot[v], 1))
  BY DEF PlusAssignChar
<1>3. HeapOK(AppendChar(mem, b, slot[v], c))
  BY <1>1, AppendCharKeeps DEF IInv, PlusAssignChar, Parsing
<1>4. HeapOK(mem')
  BY <1>2, <1>3, RunKeeps DEF IInv
<1>5. ExtendedPtr(mem, b, slot[v], 1) \in AnyPtr
  BY <1>1, FreeIsBlock DEF ExtendedPtr, AnyPtr
<1>6. slot' \in [Vars -> Ptrs \cup {Uninit}]
  BY <1>2, <1>5, UpdateKeeps DEF IInv
<1> QED
  BY <1>4, <1>6 DEF IInv, TypeOK, PlusAssignChar, control, caller, HeapOK

LEMMA AssignCharStep ==
  ASSUME IInv, NEW v \in Vars, NEW i \in Indices, AssignChar(v, i)
  PROVE  IInv'
<1>1. slot[v] \in AnyPtr /\ Sound(mem) /\ i \in Int
  BY OldPtrIsPtr, OwnershipAssumption DEF IInv, AssignChar, Parsing
<1>2. PICK b \in FreeBlocks(mem) :
        /\ Run(Writable(v, b, i))
        /\ Update(v, CopiedPtr(mem, b, slot[v]))
  BY DEF AssignChar
<1> DEFINE m == CopyToRam(mem, b, slot[v])
           r == CopiedPtr(mem, b, slot[v])
<1>3. /\ HeapOK(m) /\ r \in Blocks
      /\ Sound(m) => Usable(mem, slot[v]) /\ m.cell[r].len = mem.cell[slot[v]].len
  BY <1>1, CopyToRamKeeps DEF IInv
<1>7. Writable(v, b, i) = IF Sound(m) THEN Poke(m, r, i) ELSE m
  BY DEF Writable
<1> HIDE DEF m
<1>4. ASSUME Executing PROVE HeapOK(Writable(v, b, i))
  <2>1. CASE Sound(m)
    <3>1. i >= m.cell[r].len => "pastEnd" \in Habits
      BY <1>3, <1>4, <2>1 DEF AssignChar, MayStore
    <3> HIDE DEF r
    <3>2. HeapOK(Poke(m, r, i))
      BY <1>1, <1>3, <3>1, PokeKeeps
    <3> QED
      BY <1>7, <2>1, <3>2
  <2> QED
    BY <1>3, <1>7, <2>1
<1>5. HeapOK(mem')
  BY <1>2, <1>4 DEF IInv, Run
<1>6. slot' \in [Vars -> Ptrs \cup {Uninit}]
  BY <1>2, <1>3, UpdateKeeps DEF IInv, AnyPtr, Ptrs, Addrs
<1> QED
  BY <1>5, <1>6 DEF IInv, TypeOK, AssignChar, control, caller, HeapOK

LEMMA CompareLitStep ==
  ASSUME IInv, CompareLit
  PROVE  IInv'
<1>1. HeapOK(Borrow(mem, Top))
  BY TopIsValue, BorrowKeeps DEF IInv, CompareLit
<1>2. HeapOK(mem')
  BY <1>1, RunKeeps DEF IInv, CompareLit
<1> QED
  BY <1>2, DroppedKeeps DEF IInv, TypeOK, CompareLit, control, caller, HeapOK

LEMMA CompareStringsStep ==
  ASSUME IInv, CompareStrings
  PROVE  IInv'
<1>1. /\ HeapOK(BadDeref(mem, Below.ptr)) /\ HeapOK(BadDeref(mem, Top.ptr))
      /\ HeapOK(Fail(mem, "badfree"))
  BY BadDerefKeeps, FailKeeps DEF IInv, Faults
<1>2. HeapOK(mem')
  BY <1>1, RunKeeps DEF IInv, CompareStrings
<1> QED
  BY <1>2, DroppedKeeps DEF IInv, TypeOK, CompareStrings, control, caller, HeapOK

-----------------------------------------------------------------------------
(* Return, the end of the function and the end of main.                    *)
LEMMA FinishReturnStep ==
  ASSUME IInv, NEW last \in BOOLEAN, FinishReturn(last)
  PROVE  IInv'
<1>1. Top.ptr \in AnyPtr
  BY TopIsValue DEF IInv, FinishReturn
<1>2. result' \in Ptrs \cup {Uninit}
  BY <1>1 DEF IInv, TypeOK, FinishReturn, AnyPtr
<1>3. flow' \in Flows
  BY DEF IInv, TypeOK, FinishReturn, Flows
<1> QED
  BY <1>2, <1>3, DroppedKeeps DEF IInv, TypeOK, FinishReturn, HeapOK

LEMMA BodyStep ==
  ASSUME IInv, BeginReturn \/ CloseBody \/ Leave
  PROVE  IInv'
<1>1. CASE BeginReturn
  BY <1>1 DEF IInv, TypeOK, BeginReturn, caller, HeapOK
<1>2. CASE CloseBody
  BY <1>2 DEF IInv, TypeOK, CloseBody, Flows, caller, HeapOK
<1>3. CASE Leave
  BY <1>3 DEF IInv, TypeOK, Leave, Flows, caller, HeapOK
<1> QED
  BY <1>1, <1>2, <1>3

LEMMA FreeLocalStep ==
  ASSUME IInv, NEW v \in Locals, FreeLocal(v)
  PROVE  IInv'
<1>1. v \in Vars /\ v \notin Params
  BY DEF FreeLocal, Vars
<1>2. HeapOK(FreeString(mem, slot[v]))
  BY <1>1, OldPtrIsPtr, FreeStringKeeps DEF IInv
<1>3. HeapOK(mem')
  BY <1>2 DEF IInv, FreeLocal
<1>4. slot' \in [Vars -> Ptrs \cup {Uninit}]
  BY DEF IInv, TypeOK, FreeLocal
<1> QED
  BY <1>1, <1>3, <1>4 DEF IInv, TypeOK, FreeLocal, control, caller, HeapOK

LEMMA MainFreesStep ==
  ASSUME IInv, MainFreesResult \/ (\E b \in Blocks : MainFrees(b))
  PROVE  IInv'
<1>1. CASE MainFreesResult
  <2>1. HeapOK(mem')
    BY <1>1, FreeStringKeeps DEF IInv, TypeOK, MainFreesResult, AnyPtr
  <2> QED
    BY <1>1, <2>1 DEF IInv, TypeOK, MainFreesResult, Flows, Ptrs, HeapOK
<1>2. ASSUME NEW b \in Blocks, MainFrees(b) PROVE IInv'
  <2>1. HeapOK(mem')
    BY <1>2, FreeStringKeeps DEF IInv, MainFrees, AnyPtr, Ptrs, Addrs
  <2> QED
    BY <1>2, <2>1 DEF IInv, TypeOK, MainFrees, control, HeapOK
<1> QED
  BY <1>1, <1>2

LEMMA EpilogueStep == ASSUME IInv, Epilogue PROVE IInv'
  BY DEF IInv, TypeOK, Epilogue, Flows, HeapOK

-----------------------------------------------------------------------------
LEMMA LitCellInCell ==
  ASSUME NEW l \in Lits
  PROVE  LitCell(l) \in Cell
<1>1. <<Chunk(l)>> \in Seq(Chunks) /\ Size[l] \in Nat
  BY ChunkInChunks, HeapAssumption
<1> QED
  BY <1>1 DEF LitCell, Cell

LEMMA ArgCellInCell == ArgCell \in Cell /\ Fitting(ArgCell)
<1>1. <<Chunk(ArgLit)>> \in Seq(Chunks) /\ Size[ArgLit] \in Nat
  BY ChunkInChunks, HeapAssumption, OwnershipAssumption
<1> DEFINE n == Size[ArgLit]
<1>2. /\ n \in Nat /\ n + 40 \in Nat /\ n + 32 \in Nat /\ n < n + 32
      /\ n + 40 = (n + 32) + 8 /\ n = Bytes(<<Chunk(ArgLit)>>)
  BY <1>1, BytesOfOne, OwnershipAssumption
<1>3. ArgCell = [live |-> TRUE, room |-> n + 40, len |-> n, cap |-> n + 32,
                 text |-> <<Chunk(ArgLit)>>, past |-> {}]
  BY DEF ArgCell
<1> HIDE DEF n
<1> QED
  BY <1>1, <1>2, <1>3 DEF Cell, Fitting

LEMMA IInvInit == Init => IInv
<1> SUFFICES ASSUME Init PROVE IInv
  OBVIOUS
<1>1. PICK arg \in [Params -> Lits \cup Blocks] :
        /\ mains = {arg[v] : v \in Params} \cap Blocks
        /\ slot = [v \in Vars |-> IF v \in Params THEN arg[v] ELSE Uninit]
        /\ mem = [cell  |-> [a \in Addrs |-> IF a \in mains THEN ArgCell
                                             ELSE InitMem.cell[a]],
                  count |-> Cardinality(mains) * ArgCell.room,
                  fault |-> "none"]
  BY DEF Init
<1>2. mem.count \in Int /\ IsFiniteSet(mains)
  <2>1. IsFiniteSet({arg[v] : v \in Params})
    <3> DEFINE image == {arg[v] : v \in Params}
    <3>1. arg \in [Params -> image] /\ \A t \in image : \E v \in Params : arg[v] = t
      OBVIOUS
    <3> HIDE DEF image
    <3>2. arg \in Surjection(Params, image)
      BY <3>1 DEF Surjection
    <3>3. IsFiniteSet(image)
      BY <3>2, FS_Surjection, OwnershipAssumption
    <3> QED
      BY <3>3 DEF image
  <2>2. Cardinality(mains) \in Nat /\ IsFiniteSet(mains)
    BY <1>1, <2>1, FS_Subset, FS_CardinalityType
  <2>3. ArgCell.room \in Nat
    BY ArgCellInCell DEF Cell
  <2> QED
    BY <1>1, <2>2, <2>3
<1> DEFINE cells == [a \in Addrs |-> IF a \in mains THEN ArgCell ELSE InitMem.cell[a]]
<1>3. \A a \in Addrs : InitMem.cell[a] = IF a \in Lits THEN LitCell(a) ELSE FreeCell
  BY DEF InitMem
<1>4. /\ \A l \in Lits : cells[l] = LitCell(l)
      /\ \A b \in Blocks : cells[b] = IF b \in mains THEN ArgCell ELSE FreeCell
  BY <1>1, <1>3, HeapAssumption DEF Addrs
<1>5. cells \in [Addrs -> Cell]
  BY <1>4, LitCellInCell, ArgCellInCell, FreeCellInCell DEF Addrs
<1> HIDE DEF cells
<1>6. mem = [cell |-> cells, count |-> mem.count, fault |-> "none"]
  BY <1>1 DEF cells
<1>7. HeapOK(mem)
  <2>1. mem \in Mem
    BY <1>2, <1>5, <1>6 DEF Mem, Faults
  <2>2. mem.cell = cells
    BY <1>6
  <2>3. LiveBlocks(mem) = mains
    <3>1. ArgCell.live /\ ~FreeCell.live
      BY DEF ArgCell, FreeCell
    <3> QED
      BY <1>1, <1>4, <2>2, <3>1 DEF LiveBlocks
  <2>4. ArgCell.room \in Int
    BY ArgCellInCell DEF Cell
  <2>5. \A b \in mains : Rooms(mem)[b] = ArgCell.room
    BY <1>1, <1>4, <2>2 DEF Rooms
  <2>6. SumOver(Rooms(mem), mains) = Cardinality(mains) * ArgCell.room
    BY <1>2, <2>4, <2>5, SumOfEqual
  <2>7. mem.count = Total(mem)
    BY <1>1, <2>3, <2>6 DEF Total
  <2>8. \A b \in Blocks : Fitting(mem.cell[b])
    BY <1>4, <2>2, ArgCellInCell, FreeCellInCell
  <2> QED
    BY <1>2, <1>4, <2>1, <2>2, <2>3, <2>7, <2>8 DEF HeapOK
<1>8. slot \in [Vars -> Ptrs \cup {Uninit}]
  BY <1>1 DEF Ptrs, Addrs
<1> QED
  BY <1>1, <1>7, <1>8, DroppedKeeps
     DEF IInv, TypeOK, Init, HeapOK, Flows, Ptrs, Vars

LEMMA IInvStep == IInv /\ [Next]_vars => IInv'
<1> SUFFICES ASSUME IInv, [Next]_vars PROVE IInv'
  OBVIOUS
<1>1. CASE Operand
  BY <1>1, LiteralStep, VariableStep, NewStep, CallStep, PlusStep DEF Operand
<1>2. CASE Statement
  BY <1>2, DeclareStep, AssignStep, PlusAssignStep, PlusAssignCharStep,
     AssignCharStep, CompareLitStep, CompareStringsStep DEF Statement
<1>3. CASE Ending
  BY <1>3, FinishReturnStep, BodyStep, FreeLocalStep, MainFreesStep, EpilogueStep
     DEF Ending
<1>4. CASE UNCHANGED vars
  BY <1>4 DEF IInv, TypeOK, HeapOK, vars, control, caller
<1> QED
  BY <1>1, <1>2, <1>3, <1>4 DEF Next

-----------------------------------------------------------------------------
(* The flags, slots, operands and memory keep the shapes of the compiler   *)
(* and the run-time for every function.                                    *)
THEOREM TypeCorrect == Spec => []TypeOK
<1>1. IInv => TypeOK
  BY DEF IInv
<1> QED
  BY <1>1, IInvInit, IInvStep, PTL DEF Spec

(* No statement of any function, however it misuses its variables, writes, *)
(* extends or frees a literal in the read-only data of the executable.     *)
THEOREM LiteralsNeverChange == Spec => []LiteralsIntact
<1>1. IInv => LiteralsIntact
  BY DEF IInv, HeapOK, LiteralsIntact
<1> QED
  BY <1>1, IInvInit, IInvStep, PTL DEF Spec

(* However a string was concatenated, extended, copied or written, its     *)
(* length word counts its bytes, and they end below its capacity and       *)
(* inside the block that was allocated.                                    *)
THEOREM StringsEndInTheirBlock == Spec => []StaysInBlock
<1>1. IInv => StaysInBlock
  <2> SUFFICES ASSUME IInv, NEW a \in Addrs, mem.cell[a].live
               PROVE  /\ mem.cell[a].len = Bytes(mem.cell[a].text)
                      /\ mem.cell[a].cap # 0 => /\ mem.cell[a].len < mem.cell[a].cap
                                                /\ mem.cell[a].cap + 8 <= mem.cell[a].room
    BY DEF StaysInBlock
  <2>1. mem.cell[a].len = Bytes(mem.cell[a].text)
    BY LengthOfUsable DEF IInv, Usable
  <2>2. ASSUME mem.cell[a].cap # 0
        PROVE  /\ mem.cell[a].len < mem.cell[a].cap
               /\ mem.cell[a].cap + 8 <= mem.cell[a].room
    <3>1. a \in Blocks
      BY <2>2, OwnedIsBlock DEF IInv
    <3>2. mem.cell[a].room = mem.cell[a].cap + 8 /\ mem.cell[a].len < mem.cell[a].cap
      BY <2>2, <3>1 DEF IInv, HeapOK, Fitting
    <3>3. mem.cell[a].cap \in Nat
      BY CellOfAddr DEF IInv
    <3> QED
      BY <3>2, <3>3
  <2> QED
    BY <2>1, <2>2
<1> QED
  BY <1>1, IInvInit, IInvStep, PTL DEF Spec

(* In a function that stores characters only below the length, whatever    *)
(* else it does, the byte behind every string that owns its capacity       *)
(* belongs to the block and is still the zero HeapAlloc put there.         *)
THEOREM StringsEndInZero == Spec => []ZeroTerminated
<1>1. IInv => ZeroTerminated
  <2> SUFFICES ASSUME IInv, "pastEnd" \notin Habits, NEW b \in LiveBlocks(mem),
                      mem.cell[b].cap # 0
               PROVE  /\ mem.cell[b].len + 8 < mem.cell[b].room
                      /\ mem.cell[b].len \notin mem.cell[b].past
    BY DEF ZeroTerminated
  <2>1. b \in Blocks /\ mem.cell[b].live
    BY DEF LiveBlocks
  <2>2. /\ mem.cell[b].room = mem.cell[b].cap + 8 /\ mem.cell[b].len < mem.cell[b].cap
        /\ mem.cell[b].past = {}
    BY <2>1 DEF IInv, HeapOK, Fitting
  <2>3. mem.cell[b].cap \in Nat /\ mem.cell[b].len \in Nat
    BY <2>1, CellOfAddr DEF IInv, Addrs
  <2>4. mem.cell[b].len + 8 < mem.cell[b].room
    BY <2>2, <2>3
  <2> QED
    BY <2>2, <2>4
<1> QED
  BY <1>1, IInvInit, IInvStep, PTL DEF Spec

LEMMA TotalIsSum ==
  ASSUME IInv
  PROVE  Total(mem) = MapThenSumSet(LAMBDA b : mem.cell[b].room, LiveBlocks(mem))
<1> DEFINE S == LiveBlocks(mem)
           Sums(g) == g = [s \in SUBSET S |->
                             IF s = {} THEN 0
                             ELSE mem.cell[Pick(s)].room + g[s \ {Pick(s)}]]
           c == CHOOSE g : Sums(g)
<1>1. MapThenSumSet(LAMBDA b : mem.cell[b].room, LiveBlocks(mem)) = c[S]
  BY DEF MapThenSumSet, MapThenFoldSet, Pick
<1>2. IsFiniteSet(S) /\ S \subseteq Blocks
  BY DEF IInv, HeapOK, LiveBlocks
<1>3. ASSUME NEW g PROVE SumsTo(g, Rooms(mem), S) <=> Sums(g)
  <2>1. \A s \in SUBSET S : s # {} => Rooms(mem)[Pick(s)] = mem.cell[Pick(s)].room
    BY <1>2, PickIn DEF Rooms
  <2> HIDE DEF S
  <2>2. [s \in SUBSET S |-> IF s = {} THEN 0
                            ELSE Rooms(mem)[Pick(s)] + g[s \ {Pick(s)}]]
        = [s \in SUBSET S |-> IF s = {} THEN 0
                              ELSE mem.cell[Pick(s)].room + g[s \ {Pick(s)}]]
    BY <2>1
  <2> QED
    BY <2>2 DEF SumsTo
<1> HIDE DEF Sums
<1>4. \E g : Sums(g)
  BY <1>2, <1>3, SumsExist
<1>5. SumsTo(c, Rooms(mem), S)
  BY <1>3, <1>4
<1> HIDE DEF c, S
<1>6. SumOver(Rooms(mem), S) = c[S]
  BY <1>2, <1>5, SumOfAny
<1> QED
  BY <1>1, <1>6 DEF S, Total

(* Whatever was extended, copied, concatenated or freed before, the count  *)
(* that the epilogue compares with 0 is the bytes of the live blocks.      *)
THEOREM CountNeverDrifts == Spec => []CountIsExact
<1>1. IInv => CountIsExact
  BY TotalIsSum DEF IInv, HeapOK, CountIsExact
<1> QED
  BY <1>1, IInvInit, IInvStep, PTL DEF Spec

(* A live block holds at least its header, so the count is 0 only when     *)
(* there is none.                                                          *)
LEMMA NothingLeft ==
  ASSUME IInv
  PROVE  mem.count = 0 <=> LiveBlocks(mem) = {}
<1>1. mem.count = SumOver(Rooms(mem), LiveBlocks(mem)) /\ IsFiniteSet(LiveBlocks(mem))
  BY DEF IInv, HeapOK, Total
<1>2. ASSUME NEW b \in LiveBlocks(mem)
      PROVE  Rooms(mem)[b] \in Nat /\ Rooms(mem)[b] >= 8
  <2>1. b \in Blocks /\ b \in Addrs /\ mem.cell[b].live
    BY DEF LiveBlocks, Addrs
  <2>2. mem.cell[b].room = mem.cell[b].cap + 8 /\ mem.cell[b].cap \in Nat
    BY <2>1, CellOfAddr DEF IInv, HeapOK, Fitting
  <2> QED
    BY <2>1, <2>2 DEF Rooms
<1>3. CASE LiveBlocks(mem) = {}
  BY <1>1, <1>3, SumEmpty
<1>4. CASE LiveBlocks(mem) # {}
  <2>1. PICK b \in LiveBlocks(mem) : TRUE
    BY <1>4
  <2>2. SumOver(Rooms(mem), LiveBlocks(mem)) >= Rooms(mem)[b]
    BY <1>1, <1>2, SumAbove
  <2>3. mem.count \in Int
    BY DEF IInv, TypeOK, Mem
  <2> QED
    BY <1>1, <1>2, <1>4, <2>2, <2>3
<1> QED
  BY <1>3, <1>4

(* main's leak check is neither blind nor wrong, whatever the function     *)
(* did: exit code 0 says that no block is left and 97 that one is.         *)
THEOREM LeakCheckIsRight == Spec => []ExitTellsLeak
<1>1. Init => ExitTellsLeak
  BY DEF Init, ExitTellsLeak
<1>2. IInv /\ ExitTellsLeak /\ [Next]_vars => ExitTellsLeak'
  <2> SUFFICES ASSUME IInv, ExitTellsLeak, [Next]_vars PROVE ExitTellsLeak'
    OBVIOUS
  <2>1. CASE Epilogue
    BY <2>1, NothingLeft DEF Epilogue, ExitTellsLeak, LiveBlocks
  <2>2. CASE UNCHANGED vars
    BY <2>2 DEF ExitTellsLeak, LiveBlocks, vars, control, caller
  <2>3. CASE Operand \/ Statement
    <3>1. flow' # "ended"
      BY <2>3 DEF Operand, Statement, Literal, Call, Variable, New, Plus, Assign,
         PlusAssign, AssignChar, Declare, PlusAssignChar, CompareLit,
         CompareStrings, Parsing, control
    <3> QED
      BY <3>1 DEF ExitTellsLeak
  <2>4. CASE Ending /\ ~Epilogue
    <3>1. flow' # "ended"
      BY <2>4 DEF Ending, BeginReturn, FinishReturn, CloseBody, FreeLocal, Leave,
         MainFreesResult, MainFrees, Parsing, control
    <3> QED
      BY <3>1 DEF ExitTellsLeak
  <2> QED
    BY <2>1, <2>2, <2>3, <2>4 DEF Next
<1> QED
  BY <1>1, <1>2, IInvInit, IInvStep, PTL DEF Spec

-----------------------------------------------------------------------------
(* What the ownership rules buy, for any number of variables, blocks and   *)
(* literals: a function that keeps them never misuses a pointer, each live *)
(* block has one owner, the caller's strings come back as they were, and   *)
(* the program ends with exit code 0; and the program implements the       *)
(* specification in which every variable has a text of its own.            *)
(*                                                                         *)
(* The one thing the rules do not mention is new(String, 0): _free_string  *)
(* takes a string without capacity for a literal, so that such a block is  *)
(* never freed.  The theorems ask for NewHoldsBytes.                       *)

NewHoldsBytes == 0 \notin NewCaps

(* The variables whose string is freed at the return label, those whose    *)
(* string has moved, and the operands whose string somebody must take over.*)
Holders == (declared \ Params) \ destroyed
Moved == destroyed \ Params
Giver(x) == x.kind \in {"temp", "new"} \/ x.var \in Moved

(* No pointer that may still be used is stale.                             *)
Pointers ==
  /\ \A b \in LiveBlocks(mem) : mem.cell[b].cap # 0
  /\ \A v \in Holders : slot[v] = Nil \/ Usable(mem, slot[v])
  /\ \A i \in DOMAIN est :
       /\ Usable(mem, est[i].ptr)
       /\ est[i].kind = "const" => est[i].ptr \in Lits
       /\ est[i].kind = "var" => /\ est[i].var \in declared
                                 /\ est[i].ptr = slot[est[i].var]
  /\ result = Nil \/ Usable(mem, result)
  /\ \A b \in mains : mem.cell[b] = ArgCell
  /\ flow \in {"body", "label"} => \A v \in Params : slot[v] \in Lits \cup mains

(* Every live block has an owner.                                          *)
Owned ==
  \A b \in LiveBlocks(mem) :
    \/ \E v \in Holders : slot[v] = b
    \/ \E i \in DOMAIN est : Giver(est[i]) /\ est[i].ptr = b
    \/ result = b
    \/ b \in mains

(* No two owners own the same block.                                       *)
Apart ==
  /\ \A v, w \in Holders : slot[v] = slot[w] /\ slot[v] \in Blocks => v = w
  /\ \A v \in Holders : slot[v] \in Blocks => slot[v] # result /\ slot[v] \notin mains
  /\ \A i \in DOMAIN est :
       Giver(est[i]) /\ est[i].ptr \in Blocks =>
         /\ est[i].ptr \notin mains
         /\ \A v \in Holders : slot[v] # est[i].ptr
         /\ \A j \in DOMAIN est : Giver(est[j]) /\ est[j].ptr = est[i].ptr => i = j
  /\ result \notin mains

(* What has happened so far in the statement, the function and main.       *)
Stage ==
  /\ ~skip /\ flow # "gone"
  /\ flow = "body" => result = Nil /\ destroyed \subseteq declared
  /\ flow # "body" => est = <<>>
  /\ flow \in {"main", "exiting", "ended"} => declared \subseteq Params
  /\ flow \in {"exiting", "ended"} => result = Nil
  /\ flow = "ended" => mains = {} /\ exit = 0
  /\ mode = "stmt" => \A i \in DOMAIN est : est[i].var \notin Moved
  /\ mode = "returning" => \A i \in DOMAIN est : est[i].kind # "var"
  /\ mode = "returned" =>
       /\ flow = "body" /\ 1 \in DOMAIN est
       /\ est[1].kind = "var" => est[1].var \in destroyed \cup Params

RInv == Sound(mem) /\ Pointers /\ Owned /\ Apart /\ Stage
-----------------------------------------------------------------------------
(* What the memory operations do when they are given pointers that may be  *)
(* used.                                                                   *)

(* The string at p is freed if it is a block and left alone if it is not.  *)
Released(m, m1, p) ==
  p \in Addrs => IF m.cell[p].cap = 0 THEN m1.cell[p] = m.cell[p]
                 ELSE ~m1.cell[p].live

(* The text at a pointer, or none if it is nil.                            *)
TextIn(m, p) == IF p \in Addrs THEN m.cell[p].text ELSE <<>>

(* One text behind another, kept closed where it need not be looked into.  *)
Joined(s, t) == s \o t

LEMMA FreeEffect ==
  ASSUME NEW m, HeapOK(m), Sound(m), NEW p, p = Nil \/ Usable(m, p)
  PROVE  LET m1 == FreeString(m, p)
         IN  /\ HeapOK(m1) /\ Sound(m1) /\ Released(m, m1, p)
             /\ \A a \in Addrs \ {p} : m1.cell[a] = m.cell[a]
<1>1. p \in AnyPtr
  BY DEF Usable, AnyPtr, Ptrs
<1>2. HeapOK(FreeString(m, p)) /\ \A a \in Addrs \ {p} : FreeString(m, p).cell[a] = m.cell[a]
  BY <1>1, FreeStringKeeps, FreeStringOthers
<1>3. p # Uninit
  BY HeapAssumption DEF Usable, Addrs
<1>4. CASE p \in Addrs /\ m.cell[p].live /\ m.cell[p].cap # 0
  <2> DEFINE n == Put(m, p, FreeCell, -FreedBytes(m, p))
  <2>1. n.cell[p] = FreeCell
    BY <1>4, FreedIsHeld, FreeCellInCell, PutKeeps
  <2>2. n.fault = m.fault
    BY DEF Put
  <2>3. FreeString(m, p) = n
    BY <1>3, <1>4, HeapAssumption DEF FreeString, Addrs
  <2> HIDE DEF n
  <2> QED
    BY <1>2, <1>4, <2>1, <2>2, <2>3 DEF Released, Sound, FreeCell
<1>5. CASE p = Nil \/ m.cell[p].cap = 0
  <2>1. FreeString(m, p) = m
    BY <1>3, <1>5 DEF FreeString, Usable
  <2> QED
    BY <1>2, <1>5, <2>1, HeapAssumption DEF Released, Addrs
<1> QED
  BY <1>4, <1>5 DEF Usable

LEMMA AllocEffect ==
  ASSUME NEW m, HeapOK(m), Sound(m), NEW b \in FreeBlocks(m),
         NEW n \in Nat, NEW len \in Nat, NEW cap \in Nat, NEW text \in Seq(Chunks),
         n = cap + 8, len = Bytes(text), len < cap
  PROVE  LET m1 == Alloc(m, b, n, len, cap, text)
         IN  /\ HeapOK(m1) /\ Sound(m1) /\ m1.cell[b].live /\ m1.cell[b].cap # 0
             /\ m1.cell[b].len = len /\ m1.cell[b].cap = cap /\ m1.cell[b].text = text
             /\ \A a \in Addrs \ {b} : m1.cell[a] = m.cell[a]
<1> DEFINE m1 == Alloc(m, b, n, len, cap, text)
<1>1. /\ HeapOK(m1) /\ m1.cell[b].live
      /\ m1.cell[b].len = len /\ m1.cell[b].cap = cap /\ m1.cell[b].text = text
      /\ \A a \in Addrs \ {b} : m1.cell[a] = m.cell[a]
  BY AllocKeeps
<1>2. Sound(m1)
  BY DEF Sound, Alloc, Put
<1>3. cap # 0
  OBVIOUS
<1> QED
  BY <1>1, <1>2, <1>3

LEMMA NewStringEffect ==
  ASSUME NEW m, HeapOK(m), Sound(m), NEW b \in FreeBlocks(m), NEW n \in Nat \ {0}
  PROVE  LET m1 == NewString(m, b, n)
         IN  /\ HeapOK(m1) /\ Sound(m1) /\ m1.cell[b].live /\ m1.cell[b].cap # 0
             /\ m1.cell[b].text = <<>>
             /\ \A a \in Addrs \ {b} : m1.cell[a] = m.cell[a]
<1> DEFINE room == n + 8
           len  == 0
           text == <<>>
           m1   == Alloc(m, b, room, len, n, text)
<1>1. /\ room \in Nat /\ len \in Nat /\ n \in Nat /\ text \in Seq(Chunks)
      /\ room = n + 8 /\ len = Bytes(text) /\ len < n
  BY EmptySeq, BytesOfEmpty
<1>2. NewString(m, b, n) = m1
  BY DEF NewString
<1> HIDE DEF room, len, text
<1>3. /\ HeapOK(m1) /\ Sound(m1) /\ m1.cell[b].live /\ m1.cell[b].cap # 0
      /\ m1.cell[b].text = text
      /\ \A a \in Addrs \ {b} : m1.cell[a] = m.cell[a]
  BY <1>1, AllocEffect
<1> QED
  BY <1>2, <1>3 DEF text

(* A concatenation takes a free block and releases what it is told to.     *)
LEMMA ConcatEffect ==
  ASSUME NEW m, HeapOK(m), Sound(m), NEW b \in FreeBlocks(m),
         NEW p, Usable(m, p), NEW q, Usable(m, q),
         NEW f \in BOOLEAN, NEW g \in BOOLEAN,
         f /\ g /\ p = q => m.cell[p].cap = 0
  PROVE  LET m1 == Concat(m, b, p, q, f, g)
         IN  /\ HeapOK(m1) /\ Sound(m1) /\ m1.cell[b].live /\ m1.cell[b].cap # 0
             /\ m1.cell[b].text = Joined(m.cell[p].text, m.cell[q].text)
             /\ \A a \in Addrs \ {b} :
                  IF (f /\ a = p) \/ (g /\ a = q) THEN Released(m, m1, a)
                  ELSE m1.cell[a] = m.cell[a]
<1> DEFINE n  == m.cell[p].len + m.cell[q].len
           m1 == Alloc(m, b, n + 40, n, n + 32, m.cell[p].text \o m.cell[q].text)
           m2 == IF f THEN FreeString(m1, p) ELSE m1
           m3 == IF g THEN FreeString(m2, q) ELSE m2
<1>0. p \in Addrs \ {b} /\ q \in Addrs \ {b} /\ b \in Addrs
  BY DEF Usable, FreeBlocks, Addrs
<1>1. n \in Nat /\ m.cell[p].text \o m.cell[q].text \in Seq(Chunks)
  BY CellOfAddr, ConcatProperties DEF Usable
<1>2. /\ HeapOK(m1) /\ Sound(m1) /\ m1.cell[b].live /\ m1.cell[b].cap # 0
      /\ m1.cell[b].text = Joined(m.cell[p].text, m.cell[q].text)
      /\ \A a \in Addrs \ {b} : m1.cell[a] = m.cell[a]
  <2>1. n = Bytes(m.cell[p].text \o m.cell[q].text)
    BY LengthOfUsable, CellOfAddr, BytesOfConcat DEF Usable
  <2> DEFINE room == n + 40
             cap  == n + 32
             text == m.cell[p].text \o m.cell[q].text
  <2> HIDE DEF n
  <2>2. room \in Nat /\ cap \in Nat /\ n < cap /\ room = cap + 8
    BY <1>1
  <2>3. n \in Nat /\ text \in Seq(Chunks) /\ n = Bytes(text)
    BY <1>1, <2>1
  <2> HIDE DEF room, cap, text
  <2>4. LET x == Alloc(m, b, room, n, cap, text)
        IN  /\ HeapOK(x) /\ Sound(x) /\ x.cell[b].live /\ x.cell[b].cap # 0
            /\ x.cell[b].text = text
            /\ \A a \in Addrs \ {b} : x.cell[a] = m.cell[a]
    BY <2>2, <2>3, AllocEffect
  <2> QED
    BY <2>4 DEF room, cap, text, Joined
<1>3. Concat(m, b, p, q, f, g) = m3
  BY DEF Concat
<1> HIDE DEF m1
<1>4. /\ HeapOK(m2) /\ Sound(m2) /\ m2.cell[b] = m1.cell[b]
      /\ \A a \in Addrs \ {b} :
           IF f /\ a = p THEN Released(m, m2, a) ELSE m2.cell[a] = m.cell[a]
  <2>1. CASE ~f
    BY <1>2, <2>1
  <2>2. CASE f
    <3>1. Usable(m1, p)
      BY <1>0, <1>2 DEF Usable
    <3>2. /\ HeapOK(m2) /\ Sound(m2) /\ Released(m1, m2, p)
          /\ \A a \in Addrs \ {p} : m2.cell[a] = m1.cell[a]
      BY <1>2, <2>2, <3>1, FreeEffect
    <3> QED
      BY <1>0, <1>2, <2>2, <3>2 DEF Released
  <2> QED
    BY <2>1, <2>2
<1> HIDE DEF m2
<1>5. CASE ~g
  BY <1>2, <1>3, <1>4, <1>5
<1>6. CASE g
  <2>1. m2.cell[q] = m.cell[q] /\ Usable(m2, q)
    BY <1>0, <1>4, <1>6 DEF Usable, Released
  <2>2. /\ HeapOK(m3) /\ Sound(m3) /\ Released(m2, m3, q)
        /\ \A a \in Addrs \ {q} : m3.cell[a] = m2.cell[a]
    BY <1>4, <1>6, <2>1, FreeEffect
  <2> QED
    BY <1>0, <1>2, <1>3, <1>4, <1>6, <2>1, <2>2 DEF Released
<1> QED
  BY <1>5, <1>6

(* The string at p was changed: it is now the block at r, which is p or a  *)
(* free one, and p is released if it is another.                           *)
Renewed(m, m1, p, r) ==
  /\ HeapOK(m1) /\ Sound(m1)
  /\ r \in Blocks /\ (r = p \/ r \in FreeBlocks(m))
  /\ m1.cell[r].live /\ m1.cell[r].cap # 0
  /\ r # p => Released(m, m1, p)
  /\ \A a \in Addrs \ {r, p} : m1.cell[a] = m.cell[a]

LEMMA ExtendEffect ==
  ASSUME NEW m, HeapOK(m), Sound(m), NEW b \in FreeBlocks(m),
         NEW p, p = Nil \/ Usable(m, p), NEW n \in Nat
  PROVE  LET m1 == Extend(m, b, p, n, 4)
             r  == ExtendedPtr(m, b, p, n)
         IN  /\ Renewed(m, m1, p, r) /\ m1.cell[r].len + n < m1.cell[r].cap
             /\ m1.cell[r].text = TextIn(m, p)
<1>0. b \in Blocks /\ ~m.cell[b].live /\ b \in Addrs /\ b # Nil /\ p # b /\ p \in AnyPtr
  BY HeapAssumption DEF FreeBlocks, Addrs, Usable, AnyPtr, Ptrs
<1>1. CASE p # Nil /\ Fits(m, p, n)
  <2>1. m.cell[p].len \in Nat /\ m.cell[p].cap \in Nat /\ m.cell[p].len + n < m.cell[p].cap
    BY <1>1, CellOfAddr DEF Usable, Fits
  <2>2. p \in Blocks /\ m.cell[p].cap # 0
    BY <1>1, <2>1, OwnedIsBlock DEF Usable
  <2>3. Extend(m, b, p, n, 4) = m /\ ExtendedPtr(m, b, p, n) = p
    BY <1>1 DEF Extend, ExtendedPtr, Usable
  <2> QED
    BY <1>1, <2>1, <2>2, <2>3 DEF Usable, Renewed, TextIn
<1>2. CASE p = Nil \/ ~Fits(m, p, n)
  <2> DEFINE old    == IF p = Nil THEN FreeCell ELSE m.cell[p]
             newcap == old.len + n + 4 + 4
             room   == newcap + 8
             m1     == Alloc(m, b, room, old.len, newcap, old.text)
  <2>1. ExtendedPtr(m, b, p, n) = b
    BY <1>2, HeapAssumption DEF ExtendedPtr, Addrs
  <2>2. old \in Cell /\ old.len = Bytes(old.text)
    BY CellOfAddr, FreeCellInCell, LengthOfUsable, BytesOfEmpty DEF Usable, FreeCell
  <2>3. Extend(m, b, p, n, 4) = FreeString(m1, p)
    BY <1>2 DEF Extend
  <2>10. old.text = TextIn(m, p)
    BY HeapAssumption DEF TextIn, FreeCell, Usable, Addrs
  <2> HIDE DEF old
  <2>4. old.len \in Nat /\ old.text \in Seq(Chunks)
    BY <2>2 DEF Cell
  <2>5. /\ newcap \in Nat /\ room \in Nat /\ room = newcap + 8
        /\ old.len < newcap /\ old.len + n < newcap /\ newcap # 0
    BY <2>4
  <2> HIDE DEF newcap, room
  <2>6. /\ HeapOK(m1) /\ Sound(m1) /\ m1.cell[b].live
        /\ m1.cell[b].len = old.len /\ m1.cell[b].cap = newcap
        /\ m1.cell[b].text = old.text
        /\ \A a \in Addrs \ {b} : m1.cell[a] = m.cell[a]
    <3>1. PICK k, cap, len, text :
            k = room /\ cap = newcap /\ len = old.len /\ text = old.text
      OBVIOUS
    <3>2. /\ k \in Nat /\ len \in Nat /\ cap \in Nat /\ text \in Seq(Chunks)
          /\ k = cap + 8 /\ len = Bytes(text) /\ len < cap
      BY <2>2, <2>4, <2>5, <3>1
    <3>3. LET x == Alloc(m, b, k, len, cap, text)
          IN  /\ HeapOK(x) /\ Sound(x) /\ x.cell[b].live
              /\ x.cell[b].len = len /\ x.cell[b].cap = cap /\ x.cell[b].text = text
              /\ \A a \in Addrs \ {b} : x.cell[a] = m.cell[a]
      BY <3>2, AllocEffect
    <3> QED
      BY <3>1, <3>3
  <2> HIDE DEF m1
  <2>7. p = Nil \/ Usable(m1, p)
    BY <1>0, <2>6 DEF Usable
  <2>8. /\ HeapOK(FreeString(m1, p)) /\ Sound(FreeString(m1, p))
        /\ Released(m1, FreeString(m1, p), p)
        /\ \A a \in Addrs \ {p} : FreeString(m1, p).cell[a] = m1.cell[a]
    BY <2>6, <2>7, FreeEffect
  <2>9. Released(m, FreeString(m1, p), p)
    BY <1>0, <2>6, <2>8 DEF Released
  <2>11. FreeString(m1, p).cell[b].text = TextIn(m, p)
    BY <1>0, <2>6, <2>8, <2>10
  <2> QED
    BY <1>0, <2>1, <2>3, <2>5, <2>6, <2>8, <2>9, <2>11 DEF Renewed
<1> QED
  BY <1>1, <1>2

LEMMA FilledText ==
  ASSUME NEW m, HeapOK(m), NEW p \in Addrs, NEW len, NEW text, NEW past
  PROVE  Fill(m, p, len, text, past).cell[p].text = text
  BY DEF Fill, Put, HeapOK, Mem

LEMMA StoreEffect ==
  ASSUME NEW m, NEW m1, NEW p, NEW r, Renewed(m, m1, p, r),
         NEW n \in Nat, NEW text \in Seq(Chunks), n = Bytes(text),
         m1.cell[r].len + n < m1.cell[r].cap
  PROVE  /\ Renewed(m, Store(m1, r, n, text), p, r)
         /\ Store(m1, r, n, text).cell[r].text = Joined(m1.cell[r].text, text)
<1> DEFINE m2 == Store(m1, r, n, text)
<1>1. /\ HeapOK(m2) /\ \A a \in Addrs \ {r} : m2.cell[a] = m1.cell[a]
      /\ m2.cell[r].live = m1.cell[r].live /\ m2.cell[r].cap = m1.cell[r].cap
  <2>1. HeapOK(m1) /\ r \in Blocks
    BY DEF Renewed
  <2> QED
    BY <2>1, StoreKeeps
<1>2. Sound(m2)
  BY DEF Renewed, Store, Fill, Put, Sound
<1>4. m2.cell[r].text = Joined(m1.cell[r].text, text)
  <2> DEFINE len == m1.cell[r].len + n
             new == m1.cell[r].text \o text
             past == Behind(m1.cell[r], n)
  <2>1. m2 = Fill(m1, r, len, new, past)
    BY DEF Store
  <2>2. HeapOK(m1) /\ r \in Addrs /\ new = Joined(m1.cell[r].text, text)
    BY DEF Renewed, Addrs, Joined
  <2> HIDE DEF m2, len, new, past
  <2> QED
    BY <2>1, <2>2, FilledText
<1> HIDE DEF m2
<1>3. Renewed(m, m2, p, r)
  BY <1>1, <1>2 DEF Renewed, Released
<1> QED
  BY <1>3, <1>4 DEF m2

LEMMA AppendStrEffect ==
  ASSUME NEW m, HeapOK(m), Sound(m), NEW b \in FreeBlocks(m),
         NEW p, p = Nil \/ Usable(m, p), NEW q, Usable(m, q),
         p = q => m.cell[q].cap = 0
  PROVE  LET m1 == AppendStr(m, b, p, q)
             r  == ExtendedPtr(m, b, p, m.cell[q].len)
         IN  Renewed(m, m1, p, r) /\ m1.cell[r].text = Joined(TextIn(m, p), m.cell[q].text)
<1> DEFINE n  == m.cell[q].len
           m1 == Extend(m, b, p, n, 4)
           r  == ExtendedPtr(m, b, p, n)
<1>1. n \in Nat /\ q \in Addrs /\ q # b
  BY CellOfAddr DEF Usable, FreeBlocks
<1>2. /\ Renewed(m, m1, p, r) /\ m1.cell[r].len + n < m1.cell[r].cap
      /\ m1.cell[r].text = TextIn(m, p)
  BY <1>1, ExtendEffect
<1>3. p = q => r # p
  BY CellOfAddr DEF r, ExtendedPtr, Fits, Usable, FreeBlocks
<1>4. AppendStr(m, b, p, q) =
        IF ~Sound(m1) THEN m1
        ELSE IF ~Usable(m1, q) THEN BadDeref(m1, q)
        ELSE Store(m1, r, n, m1.cell[q].text)
  BY DEF AppendStr
<1>5. n = Bytes(m.cell[q].text) /\ m.cell[q].text \in Seq(Chunks)
  BY LengthOfUsable, CellOfAddr DEF Usable
<1> HIDE DEF n, m1, r
<1>6. m1.cell[q] = m.cell[q] /\ m.cell[q].live /\ q # r
  <2>1. q # r
    BY <1>1, <1>2, <1>3 DEF Renewed, Usable, FreeBlocks
  <2> QED
    BY <1>1, <1>2, <1>3, <2>1 DEF Renewed, Released, Usable
<1>7. /\ Renewed(m, Store(m1, r, n, m1.cell[q].text), p, r)
      /\ Store(m1, r, n, m1.cell[q].text).cell[r].text = Joined(TextIn(m, p), m.cell[q].text)
  <2>1. PICK t : t = m1.cell[q].text
    OBVIOUS
  <2>2. t = m.cell[q].text /\ t \in Seq(Chunks) /\ n = Bytes(t)
    BY <1>5, <1>6, <2>1
  <2>3. /\ Renewed(m, Store(m1, r, n, t), p, r)
        /\ Store(m1, r, n, t).cell[r].text = Joined(m1.cell[r].text, t)
    BY <1>1, <1>2, <2>2, StoreEffect
  <2> QED
    BY <1>2, <2>1, <2>2, <2>3
<1>8. Sound(m1) /\ Usable(m1, q)
  BY <1>1, <1>2, <1>6 DEF Renewed, Usable
<1> QED
  BY <1>4, <1>7, <1>8 DEF n, r

LEMMA AppendCharEffect ==
  ASSUME NEW m, HeapOK(m), Sound(m), NEW b \in FreeBlocks(m),
         NEW p, p = Nil \/ Usable(m, p), NEW c \in Chars
  PROVE  LET m1 == AppendChar(m, b, p, c)
             r  == ExtendedPtr(m, b, p, 1)
         IN  Renewed(m, m1, p, r) /\ m1.cell[r].text = Joined(TextIn(m, p), <<Chunk(c)>>)
<1> DEFINE m1 == Extend(m, b, p, 1, 4)
           r  == ExtendedPtr(m, b, p, 1)
<1>1. /\ Renewed(m, m1, p, r) /\ m1.cell[r].len + 1 < m1.cell[r].cap
      /\ m1.cell[r].text = TextIn(m, p)
  BY ExtendEffect
<1>2. <<Chunk(c)>> \in Seq(Chunks) /\ 1 = Bytes(<<Chunk(c)>>)
  BY ChunkInChunks, BytesOfOne, HeapAssumption
<1>3. AppendChar(m, b, p, c) = IF ~Sound(m1) THEN m1 ELSE Store(m1, r, 1, <<Chunk(c)>>)
  BY DEF AppendChar
<1> HIDE DEF m1
<1>4. /\ Renewed(m, Store(m1, r, 1, <<Chunk(c)>>), p, r)
      /\ Store(m1, r, 1, <<Chunk(c)>>).cell[r].text = Joined(TextIn(m, p), <<Chunk(c)>>)
  <2>1. PICK t, k : t = <<Chunk(c)>> /\ k = 1
    OBVIOUS
  <2>2. t \in Seq(Chunks) /\ k = Bytes(t) /\ k \in Nat
    BY <1>2, <2>1
  <2>4. m1.cell[r].len + k < m1.cell[r].cap /\ Renewed(m, m1, p, r)
    BY <1>1, <2>1
  <2> HIDE DEF r
  <2>3. /\ Renewed(m, Store(m1, r, k, t), p, r)
        /\ Store(m1, r, k, t).cell[r].text = Joined(m1.cell[r].text, t)
    BY <2>2, <2>4, StoreEffect
  <2> QED
    BY <1>1, <2>1, <2>3
<1> QED
  BY <1>1, <1>3, <1>4 DEF Renewed

LEMMA WritableEffect ==
  ASSUME NEW v, HeapOK(mem), Sound(mem), NEW b \in FreeBlocks(mem), Usable(mem, slot[v]),
         NEW i \in Int, 0 <= i, i < mem.cell[slot[v]].len
  PROVE  LET m1 == Writable(v, b, i)
             r  == CopiedPtr(mem, b, slot[v])
         IN  /\ Renewed(mem, m1, slot[v], r)
             /\ m1.cell[r].text = Overwritten(mem.cell[slot[v]].text, i)
<1> DEFINE p  == slot[v]
           m1 == CopyToRam(mem, b, p)
           r  == CopiedPtr(mem, b, p)
<1>0. b \in Blocks /\ b \in Addrs /\ p \in Addrs /\ p # b /\ p \in AnyPtr
  BY DEF FreeBlocks, Addrs, Usable, AnyPtr, Ptrs
<1>1. Renewed(mem, m1, p, r) /\ m1.cell[r].text = mem.cell[p].text
  <2>1. CASE mem.cell[p].cap # 0
    <3>1. m1 = mem /\ r = p
      BY <1>0, <2>1 DEF CopyToRam, CopiedPtr
    <3>2. p \in Blocks
      BY <1>0, <2>1, OwnedIsBlock
    <3> QED
      BY <2>1, <3>1, <3>2 DEF Renewed, Usable
  <2>2. CASE mem.cell[p].cap = 0
    <3> DEFINE n == mem.cell[p].len
    <3>1. n \in Nat /\ mem.cell[p].text \in Seq(Chunks) /\ n = Bytes(mem.cell[p].text)
      BY <1>0, CellOfAddr, LengthOfUsable
    <3>2. m1 = Alloc(mem, b, n + 32, n, n + 24, mem.cell[p].text) /\ r = b
      BY <2>2 DEF CopyToRam, CopiedPtr, Spare
    <3> DEFINE room == n + 32
               cap  == n + 24
               text == mem.cell[p].text
    <3> HIDE DEF n
    <3>3. /\ room \in Nat /\ cap \in Nat /\ n < cap /\ room = cap + 8
          /\ n \in Nat /\ text \in Seq(Chunks) /\ n = Bytes(text)
      BY <3>1
    <3>4. m1 = Alloc(mem, b, room, n, cap, text)
      BY <3>2
    <3> HIDE DEF room, cap, text, m1
    <3>5. LET x == Alloc(mem, b, room, n, cap, text)
          IN  /\ HeapOK(x) /\ Sound(x) /\ x.cell[b].live /\ x.cell[b].cap # 0
              /\ x.cell[b].text = text
              /\ \A a \in Addrs \ {b} : x.cell[a] = mem.cell[a]
      BY <3>3, AllocEffect
    <3>6. m1.cell[b].text = mem.cell[p].text
      BY <3>4, <3>5 DEF text
    <3> QED
      BY <1>0, <2>2, <3>2, <3>4, <3>5, <3>6 DEF Renewed, Released
  <2> QED
    BY <2>1, <2>2
<1>2. Writable(v, b, i) = IF Sound(m1) THEN Poke(m1, r, i) ELSE m1
  BY DEF Writable
<1> DEFINE m2 == Poke(m1, r, i)
<1>8. m1.cell[r].len = mem.cell[p].len /\ i < mem.cell[p].len
  BY <1>0, <1>1, CopyToRamKeeps DEF Renewed
<1> HIDE DEF m1, r, p
<1>9. HeapOK(m1) /\ r \in Blocks /\ r \in Addrs /\ Sound(m1)
  BY <1>1 DEF Renewed, Addrs
<1>10. i < m1.cell[r].len /\ ~(i >= m1.cell[r].len)
  BY <1>8, <1>9, CellOfAddr
<1>3. /\ HeapOK(m2) /\ \A a \in Addrs \ {r} : m2.cell[a] = m1.cell[a]
      /\ m2.cell[r].live = m1.cell[r].live /\ m2.cell[r].cap = m1.cell[r].cap
  BY <1>9, <1>10, PokeKeeps
<1>11. m2 = Fill(m1, r, m1.cell[r].len, Overwritten(m1.cell[r].text, i), m1.cell[r].past)
  BY <1>9, <1>10, PokeIsFill
<1>4. Sound(m2)
  BY <1>9, <1>11 DEF Fill, Put, Sound
<1>7. m2.cell[r].text = Overwritten(mem.cell[p].text, i)
  <2> DEFINE t == Overwritten(m1.cell[r].text, i)
             len == m1.cell[r].len
             past == m1.cell[r].past
  <2>1. t = Overwritten(mem.cell[p].text, i) /\ m2 = Fill(m1, r, len, t, past)
    BY <1>1, <1>11
  <2> HIDE DEF t, len, past, m2
  <2> QED
    BY <1>9, <2>1, FilledText
<1> HIDE DEF m2
<1>5. Renewed(mem, m2, p, r)
  BY <1>1, <1>3, <1>4 DEF Renewed, Released
<1>6. Sound(m1)
  BY <1>1 DEF Renewed
<1> QED
  BY <1>2, <1>5, <1>6, <1>7 DEF p, r, m2

-----------------------------------------------------------------------------
(* Operands.                                                               *)

LEMMA OperandIsValue ==
  ASSUME IInv, NEW i \in DOMAIN est
  PROVE  /\ est[i] \in Value
         /\ est[i].kind \in {"var", "const", "temp", "new"}
         /\ est[i].kind = "var" => est[i].var \in Vars
         /\ est[i].kind # "var" => est[i].var \notin Vars
<1>1. est \in Seq(Value) /\ DOMAIN est = 1 .. Len(est)
  BY LenProperties DEF IInv, TypeOK
<1>2. est[i] \in Value
  BY <1>1, ElementOfSeq
<1> QED
  BY <1>2, OwnershipAssumption DEF Value

LEMMA LitIsUsable ==
  ASSUME NEW m, HeapOK(m), NEW p \in Lits
  PROVE  Usable(m, p) /\ p \notin Blocks /\ m.cell[p].cap = 0
  BY LiteralIsLive, HeapAssumption DEF Usable, Addrs

LEMMA LitText ==
  ASSUME NEW m, HeapOK(m), NEW l \in Lits
  PROVE  m.cell[l].text = <<Chunk(l)>>
<1>1. m.cell[l] = LitCell(l)
  BY DEF HeapOK
<1>2. LitCell(l).text = <<Chunk(l)>>
  BY DEF LitCell
<1> QED
  BY <1>1, <1>2

(* Control is in the body whenever a program that keeps the rules is parsed. *)
LEMMA Executes ==
  ASSUME RInv, Parsing
  PROVE  /\ Executing /\ flow = "body" /\ Sound(mem)
         /\ \A m : Run(m) => mem' = m
         /\ \A v, p : Update(v, p) => slot' = [slot EXCEPT ![v] = p]
  BY DEF RInv, Stage, Parsing, Executing, Run, Update

(* What an operand owns no other operand points to.                        *)
LEMMA OperandsApart ==
  ASSUME IInv, RInv, flow = "body",
         NEW i \in DOMAIN est, Giver(est[i]), est[i].ptr \in Blocks,
         NEW j \in DOMAIN est, est[j].ptr = est[i].ptr
  PROVE  j = i
<1>1. CASE Giver(est[j])
  BY <1>1 DEF RInv, Apart
<1>2. CASE ~Giver(est[j])
  <2>1. est[j].kind \in {"var", "const"} /\ est[j].var \notin Moved
    BY <1>2, OperandIsValue DEF Giver
  <2>2. est[j].kind # "const"
    BY HeapAssumption DEF RInv, Pointers
  <2>3. est[j].var \in declared /\ est[j].ptr = slot[est[j].var]
    BY <2>1, <2>2 DEF RInv, Pointers
  <2>4. est[j].var \in Holders \cup Params
    BY <2>1, <2>3 DEF Holders, Moved
  <2>5. est[j].var \notin Holders
    BY <2>3 DEF RInv, Apart
  <2>6. slot[est[j].var] \in Lits \cup mains
    BY <2>4, <2>5 DEF RInv, Pointers
  <2> QED
    BY <2>3, <2>6, HeapAssumption DEF RInv, Apart
<1> QED
  BY <1>1, <1>2

LEMMA Shortened ==
  ASSUME IInv, NEW k \in {0, 1, 2}, Len(est) >= k, NEW x,
         est' = Append(SubSeq(est, 1, Len(est) - k), x)
  PROVE  LET n == Len(est) - k
         IN  /\ n \in Nat
             /\ DOMAIN est = 1 .. (n + k) /\ DOMAIN est' = 1 .. (n + 1)
             /\ \A i \in 1 .. n : est'[i] = est[i]
             /\ est'[n + 1] = x
<1> DEFINE n == Len(est) - k
           s == SubSeq(est, 1, n)
           T == Value \cup {x}
<1>1. est \in Seq(Value) /\ Len(est) \in Nat /\ DOMAIN est = 1 .. Len(est)
  BY LenProperties DEF IInv, TypeOK
<1>2. n \in Nat /\ n <= Len(est) /\ n + k = Len(est)
  BY <1>1
<1>3. \A i \in 1 .. n : est[i] \in T
  BY <1>1, <1>2, ElementOfSeq
<1> HIDE DEF n, T
<1>4. s \in Seq(T) /\ Len(s) = n /\ \A i \in 1 .. n : s[i] = est[i]
  <2>1. 1 \in Int /\ n \in Int /\ n - 1 + 1 = n /\ \A i \in 1 .. n : 1 + i - 1 = i
    BY <1>2
  <2>2. /\ s \in Seq(T) /\ Len(s) = IF 1 <= n THEN n - 1 + 1 ELSE 0
        /\ \A i \in 1 .. (n - 1 + 1) : s[i] = est[1 + i - 1]
    BY <1>3, <2>1, SubSeqProperties
  <2> QED
    BY <1>2, <2>1, <2>2
<1>5. x \in T /\ est' = Append(s, x)
  BY DEF T, n
<1> HIDE DEF s
<1>6. /\ est' \in Seq(T) /\ Len(est') = n + 1
      /\ \A i \in 1 .. n : est'[i] = s[i]
      /\ est'[n + 1] = x
  BY <1>2, <1>4, <1>5, AppendProperties
<1>7. DOMAIN est' = 1 .. (n + 1)
  BY <1>6, LenProperties
<1> QED
  BY <1>1, <1>2, <1>4, <1>6, <1>7 DEF n

(* An operand is pushed, or the last ones are replaced by one: what the    *)
(* replaced ones owned has been freed, and the new one owns nothing, a     *)
(* literal or a fresh block.                                               *)
Evaluated(k, x) ==
  /\ est' = Append(SubSeq(est, 1, Len(est) - k), x)
  /\ HeapOK(mem') /\ Sound(mem')
  /\ \A b \in LiveBlocks(mem) :
       \/ mem'.cell[b] = mem.cell[b]
       \/ /\ ~mem'.cell[b].live
          /\ \E i \in DOMAIN est : i > Len(est) - k /\ Giver(est[i]) /\ est[i].ptr = b
  /\ \A i \in DOMAIN est :
       i > Len(est) - k /\ Giver(est[i]) /\ est[i].ptr \in Blocks =>
         ~mem'.cell[est[i].ptr].live
  /\ \A b \in FreeBlocks(mem) : mem'.cell[b].live =>
       x.kind \in {"temp", "new"} /\ x.ptr = b /\ mem'.cell[b].cap # 0
  /\ Usable(mem', x.ptr)
  /\ x.kind \in {"temp", "new"} => x.ptr \in Lits \/ x.ptr \in FreeBlocks(mem)
  /\ x.kind = "const" => x.ptr \in Lits
  /\ x.kind = "var" => x.var \in declared \ Moved /\ x.ptr = slot[x.var]
  /\ destroyed' \ Params = Moved /\ destroyed' \subseteq declared
  /\ UNCHANGED <<slot, declared, skip, flow, caller>>
  /\ \/ mode' = mode /\ (mode = "returning" => x.kind # "var")
     \/ /\ mode = "returning" /\ x.kind = "var" /\ x.var \in Params
        /\ mode' = "returned"
  /\ mode = "returned" /\ Len(est) = k => x.kind # "var" \/ x.var \in Params

LEMMA EvaluatedBlocks ==
  ASSUME IInv, RInv, flow = "body", NEW k \in {0, 1, 2}, Len(est) >= k,
         NEW x \in Value, Evaluated(k, x)
  PROVE  /\ \A b \in LiveBlocks(mem) :
              (\A i \in DOMAIN est : i > Len(est) - k => est[i].ptr # b) =>
                mem'.cell[b] = mem.cell[b]
         /\ \A v \in Holders : slot[v] \in Blocks => mem'.cell[slot[v]] = mem.cell[slot[v]]
         /\ \A b \in mains : mem'.cell[b] = mem.cell[b]
         /\ \A i \in DOMAIN est : i <= Len(est) - k /\ est[i].ptr \in Blocks =>
              mem'.cell[est[i].ptr] = mem.cell[est[i].ptr]
<1>1. \A b \in LiveBlocks(mem) :
        (\A i \in DOMAIN est : i > Len(est) - k => est[i].ptr # b) =>
          mem'.cell[b] = mem.cell[b]
  BY DEF Evaluated
<1>2. ASSUME NEW v \in Holders, slot[v] \in Blocks
      PROVE  mem'.cell[slot[v]] = mem.cell[slot[v]]
  <2>1. slot[v] \in LiveBlocks(mem)
    BY <1>2, HeapAssumption DEF RInv, Pointers, Usable, LiveBlocks
  <2>2. \A i \in DOMAIN est : Giver(est[i]) => est[i].ptr # slot[v]
    BY <1>2 DEF RInv, Apart
  <2> QED
    BY <2>1, <2>2 DEF Evaluated
<1>3. ASSUME NEW b \in mains PROVE mem'.cell[b] = mem.cell[b]
  <2>1. b \in LiveBlocks(mem)
    <3>1. mem.cell[b] = ArgCell /\ b \in Blocks
      BY DEF RInv, Pointers, IInv, TypeOK
    <3>2. ArgCell.live
      BY DEF ArgCell
    <3> QED
      BY <3>1, <3>2 DEF LiveBlocks
  <2>2. \A i \in DOMAIN est : Giver(est[i]) => est[i].ptr # b
    BY <2>1 DEF RInv, Apart, LiveBlocks
  <2> QED
    BY <2>1, <2>2 DEF Evaluated
<1>4. ASSUME NEW i \in DOMAIN est, i <= Len(est) - k, est[i].ptr \in Blocks
      PROVE  mem'.cell[est[i].ptr] = mem.cell[est[i].ptr]
  <2>1. est[i].ptr \in LiveBlocks(mem)
    BY <1>4 DEF RInv, Pointers, Usable, LiveBlocks
  <2>2. \A j \in DOMAIN est : Giver(est[j]) /\ est[j].ptr = est[i].ptr => j = i
    BY <1>4, OperandsApart
  <2>3. i \in Int /\ Len(est) - k \in Int /\ ~(i > Len(est) - k)
    BY <1>4, LenProperties DEF IInv, TypeOK
  <2> QED
    BY <2>1, <2>2, <2>3 DEF Evaluated
<1> QED
  BY <1>1, <1>2, <1>3, <1>4

LEMMA Evaluate ==
  ASSUME IInv, RInv, flow = "body", NEW k \in {0, 1, 2}, Len(est) >= k,
         NEW x \in Value, Evaluated(k, x)
  PROVE  RInv'
<1> DEFINE n == Len(est) - k
<1>1. /\ n \in Nat
      /\ DOMAIN est = 1 .. (n + k) /\ DOMAIN est' = 1 .. (n + 1)
      /\ \A i \in 1 .. n : est'[i] = est[i]
      /\ est'[n + 1] = x
  BY Shortened DEF Evaluated
<1>2. \A i \in 1 .. n : i \in DOMAIN est /\ i <= n /\ ~(i > n) /\ i # n + 1
  BY <1>1
<1>3. \A i \in DOMAIN est' : i \in 1 .. n \/ i = n + 1
  BY <1>1
<1>4. \A i \in DOMAIN est : i \in 1 .. n \/ i > n
  BY <1>1
<1>5. 1 .. n \subseteq DOMAIN est' /\ n + 1 \in DOMAIN est'
  BY <1>1
<1>6. n = Len(est) - k
  OBVIOUS
<1> HIDE DEF n
<1>7. /\ Moved' = Moved /\ Holders' = Holders
      /\ slot' = slot /\ result' = result /\ mains' = mains /\ declared' = declared
      /\ flow' = "body" /\ skip' = skip
  <2>1. UNCHANGED <<slot, declared, skip, flow, caller>> /\ destroyed' \ Params = Moved
    BY DEF Evaluated
  <2>2. \A v \in declared \ Params : v \in destroyed' <=> v \in destroyed
    BY <2>1 DEF Moved
  <2> QED
    BY <2>1, <2>2 DEF Moved, Holders, caller
<1>8. \A y : Giver(y)' <=> Giver(y)
  BY <1>7 DEF Giver
<1>9. Giver(x) <=> x.kind \in {"temp", "new"}
  <2>1. x.kind = "var" => x.var \notin Moved
    BY DEF Evaluated
  <2>2. x.kind \in {"const", "temp", "new"} => x.var = NoVar
    BY OwnershipAssumption DEF Value
  <2>3. NoVar \notin Moved /\ x.kind \in {"var", "const", "temp", "new"}
    BY OwnershipAssumption DEF IInv, TypeOK, Moved, Value
  <2> QED
    BY <2>1, <2>2, <2>3 DEF Giver
<1>10. HeapOK(mem') /\ Sound(mem') /\ HeapOK(mem)
  BY DEF Evaluated, IInv
<1>11. Pointers'
  <2>1. ASSUME NEW b \in LiveBlocks(mem') PROVE mem'.cell[b].cap # 0
    BY <2>1 DEF Evaluated, LiveBlocks, FreeBlocks, RInv, Pointers
  <2>2. ASSUME NEW v \in Holders PROVE slot[v] = Nil \/ Usable(mem', slot[v])
    BY <1>10, EvaluatedBlocks, LitIsUsable DEF RInv, Pointers, Usable, Addrs
  <2>3. ASSUME NEW i \in 1 .. n PROVE Usable(mem', est[i].ptr)
    <3>1. i \in DOMAIN est /\ i <= Len(est) - k
      BY <1>2, <1>6
    <3>2. Usable(mem, est[i].ptr)
      BY <3>1 DEF RInv, Pointers
    <3>3. CASE est[i].ptr \in Lits
      BY <1>10, <3>3, LitIsUsable
    <3>4. CASE est[i].ptr \in Blocks
      <4>1. mem'.cell[est[i].ptr] = mem.cell[est[i].ptr]
        BY <3>1, <3>4, EvaluatedBlocks
      <4> QED
        BY <3>2, <4>1 DEF Usable
    <3> QED
      BY <3>2, <3>3, <3>4 DEF Usable, Addrs
  <2>4. ASSUME NEW i \in DOMAIN est'
        PROVE  /\ Usable(mem', est'[i].ptr)
               /\ est'[i].kind = "const" => est'[i].ptr \in Lits
               /\ est'[i].kind = "var" => /\ est'[i].var \in declared
                                          /\ est'[i].ptr = slot[est'[i].var]
    <3>1. CASE i \in 1 .. n
      BY <1>1, <1>2, <2>3, <3>1 DEF RInv, Pointers
    <3>2. CASE i = n + 1
      BY <1>1, <3>2 DEF Evaluated
    <3> QED
      BY <1>3, <3>1, <3>2
  <2>5. result = Nil
    BY DEF RInv, Stage
  <2>6. \A b \in mains : mem'.cell[b] = ArgCell
    BY EvaluatedBlocks DEF RInv, Pointers
  <2>7. \A v \in Params : slot[v] \in Lits \cup mains
    BY DEF RInv, Pointers
  <2> QED
    BY <1>7, <2>1, <2>2, <2>4, <2>5, <2>6, <2>7 DEF Pointers
<1>12. Owned'
  <2> SUFFICES ASSUME NEW b \in LiveBlocks(mem')
               PROVE  \/ \E v \in Holders : slot[v] = b
                      \/ \E i \in DOMAIN est' : Giver(est'[i]) /\ est'[i].ptr = b
                      \/ result = b
                      \/ b \in mains
    BY <1>7, <1>8 DEF Owned
  <2>1. CASE b \notin LiveBlocks(mem)
    <3>1. x.kind \in {"temp", "new"} /\ x.ptr = b
      BY <2>1 DEF Evaluated, LiveBlocks, FreeBlocks
    <3> QED
      BY <1>1, <1>5, <1>9, <3>1
  <2>2. CASE b \in LiveBlocks(mem)
    <3>1. ASSUME NEW i \in DOMAIN est, Giver(est[i]), est[i].ptr = b
          PROVE  i \in 1 .. n
      BY <1>4, <1>6, <3>1 DEF Evaluated, LiveBlocks
    <3>2. \A i \in 1 .. n : Giver(est[i]) => Giver(est'[i]) /\ est'[i].ptr = est[i].ptr
      BY <1>1
    <3> QED
      BY <1>5, <2>2, <3>1, <3>2 DEF RInv, Owned
  <2> QED
    BY <2>1, <2>2
<1>13. Apart'
  <2>1. x.kind \in {"temp", "new"} /\ x.ptr \in Blocks =>
          /\ x.ptr \notin mains
          /\ \A v \in Holders : slot[v] # x.ptr
          /\ \A i \in 1 .. n : est[i].ptr # x.ptr
    <3> SUFFICES ASSUME x.kind \in {"temp", "new"}, x.ptr \in Blocks
                 PROVE  /\ x.ptr \notin mains
                        /\ \A v \in Holders : slot[v] # x.ptr
                        /\ \A i \in 1 .. n : est[i].ptr # x.ptr
      OBVIOUS
    <3>1. ~mem.cell[x.ptr].live
      BY HeapAssumption DEF Evaluated, FreeBlocks
    <3>2. x.ptr \notin mains
      BY <3>1 DEF RInv, Pointers, ArgCell
    <3>3. \A v \in Holders : slot[v] # x.ptr
      BY <3>1, HeapAssumption DEF RInv, Pointers, Usable
    <3>4. \A i \in 1 .. n : est[i].ptr # x.ptr
      BY <1>2, <3>1 DEF RInv, Pointers, Usable
    <3> QED
      BY <3>2, <3>3, <3>4
  <2>2. ASSUME NEW i \in DOMAIN est', Giver(est'[i]), est'[i].ptr \in Blocks
        PROVE  /\ est'[i].ptr \notin mains
               /\ \A v \in Holders : slot[v] # est'[i].ptr
               /\ \A j \in DOMAIN est' : Giver(est'[j]) /\ est'[j].ptr = est'[i].ptr => i = j
    <3>1. CASE i \in 1 .. n
      <4>1. /\ est'[i].ptr \notin mains
            /\ \A v \in Holders : slot[v] # est'[i].ptr
        BY <1>1, <1>2, <2>2, <3>1 DEF RInv, Apart
      <4>2. \A j \in 1 .. n : Giver(est'[j]) /\ est'[j].ptr = est'[i].ptr => i = j
        BY <1>1, <1>2, <2>2, <3>1 DEF RInv, Apart
      <4>3. Giver(est'[n + 1]) => est'[n + 1].ptr # est'[i].ptr
        BY <1>1, <1>9, <2>1, <2>2, <3>1
      <4> QED
        BY <1>3, <4>1, <4>2, <4>3
    <3>2. CASE i = n + 1
      BY <1>1, <1>3, <1>9, <2>1, <2>2, <3>2
    <3> QED
      BY <1>3, <3>1, <3>2
  <2>3. /\ \A v, w \in Holders : slot[v] = slot[w] /\ slot[v] \in Blocks => v = w
        /\ \A v \in Holders : slot[v] \in Blocks => slot[v] # result /\ slot[v] \notin mains
        /\ result \notin mains
    BY DEF RInv, Apart
  <2> QED
    BY <1>7, <1>8, <2>2, <2>3 DEF Apart
<1>14. Stage'
  <2>1. ~skip' /\ flow' = "body" /\ result' = Nil /\ destroyed' \subseteq declared'
    BY <1>7 DEF RInv, Stage, Evaluated
  <2>2. x.var \notin Moved
    <3>1. x.kind = "var" => x.var \notin Moved
      BY DEF Evaluated
    <3>2. x.kind # "var" => x.var = NoVar
      BY DEF Value
    <3>3. NoVar \notin Moved
      BY OwnershipAssumption DEF IInv, TypeOK, Moved
    <3> QED
      BY <3>1, <3>2, <3>3
  <2>3. CASE mode' = mode /\ (mode = "returning" => x.kind # "var")
    <3>1. mode' = "stmt" => \A i \in DOMAIN est' : est'[i].var \notin Moved
      BY <1>1, <1>2, <1>3, <2>2, <2>3 DEF RInv, Stage
    <3>2. mode' = "returning" => \A i \in DOMAIN est' : est'[i].kind # "var"
      BY <1>1, <1>2, <1>3, <2>3 DEF RInv, Stage
    <3>3. mode' = "returned" /\ est'[1].kind = "var" =>
            est'[1].var \in destroyed' \cup Params
      <4> SUFFICES ASSUME mode = "returned", est'[1].kind = "var"
                   PROVE  est'[1].var \in Moved \cup Params
        BY <2>3 DEF Evaluated, Moved
      <4>1. CASE n = 0
        <5>1. Len(est) \in Nat
          BY LenProperties DEF IInv, TypeOK
        <5>2. k \in Nat
          OBVIOUS
        <5>3. Len(est) = k
          BY ONLY <1>6, <4>1, <5>1, <5>2
        <5>4. est'[0 + 1] = x /\ 0 + 1 = 1
          BY <1>1, <4>1
        <5> QED
          BY <5>3, <5>4 DEF Evaluated
      <4>2. CASE n # 0
        <5>1. 1 \in 1 .. n
          BY <1>1, <4>2
        <5>2. est'[1] = est[1] /\ 1 \in DOMAIN est
          BY <1>1, <1>2, <5>1
        <5> QED
          BY <5>2 DEF RInv, Stage, Moved
      <4> QED
        BY <4>1, <4>2
    <3>4. 1 \in DOMAIN est'
      BY <1>1
    <3> QED
      BY <1>7, <2>1, <3>1, <3>2, <3>3, <3>4 DEF Stage
  <2>4. CASE mode = "returning" /\ x.kind = "var" /\ x.var \in Params /\ mode' = "returned"
    <3>1. ASSUME 1 \in DOMAIN est', est'[1].kind = "var" PROVE est'[1].var \in Params
      BY <1>1, <1>2, <1>3, <2>4, <3>1 DEF RInv, Stage
    <3>2. 1 \in DOMAIN est'
      BY <1>1
    <3> QED
      BY <1>7, <2>1, <2>4, <3>1, <3>2 DEF Stage
  <2> QED
    BY <2>3, <2>4 DEF Evaluated
<1> QED
  BY <1>10, <1>11, <1>12, <1>13, <1>14 DEF RInv

(* The last k operands give way to one with the text t.                    *)
EvaluatedTo(k, t) ==
  /\ flow = "body" /\ Len(est) >= k
  /\ \E x \in Value : Evaluated(k, x) /\ mem'.cell[x.ptr].text = t

LEMMA EvaluateTo ==
  ASSUME IInv, RInv, NEW k \in {0, 1, 2}, NEW t, EvaluatedTo(k, t)
  PROVE  RInv'
  BY Evaluate DEF EvaluatedTo

(* The last operands, and what pushing one onto the stack is.              *)
LEMMA LastOperands ==
  ASSUME IInv
  PROVE  /\ Len(est) \in Nat /\ DOMAIN est = 1 .. Len(est)
         /\ Len(est) >= 0 /\ Len(est) = Len(est) - 0 + 0
         /\ \A i \in DOMAIN est : ~(i > Len(est) - 0)
         /\ Len(est) >= 1 =>
              Len(est) \in DOMAIN est /\ \A i \in DOMAIN est : i > Len(est) - 1 <=> i = Len(est)
         /\ Len(est) >= 2 =>
              /\ Len(est) - 1 \in DOMAIN est /\ Len(est) \in DOMAIN est
              /\ Len(est) - 1 # Len(est)
              /\ \A i \in DOMAIN est :
                   i > Len(est) - 2 <=> i \in {Len(est) - 1, Len(est)}
<1>1. est \in Seq(Value)
  BY DEF IInv, TypeOK
<1> DEFINE n == Len(est)
<1>2. n \in Nat /\ DOMAIN est = 1 .. n
  BY <1>1, LenProperties
<1> HIDE DEF n
<1>3. /\ \A i \in 1 .. n : ~(i > n - 0)
      /\ n >= 1 => n \in 1 .. n /\ \A i \in 1 .. n : i > n - 1 <=> i = n
  BY <1>2
<1>4. n >= 2 => /\ n - 1 \in 1 .. n /\ n \in 1 .. n /\ n - 1 # n
                /\ \A i \in 1 .. n : i > n - 2 <=> i \in {n - 1, n}
  BY <1>2
<1>5. n >= 0 /\ n = n - 0 + 0
  BY <1>2
<1> QED
  BY <1>2, <1>3, <1>4, <1>5 DEF n

LEMMA Pushed ==
  ASSUME IInv, NEW x, est' = Append(est, x)
  PROVE  est' = Append(SubSeq(est, 1, Len(est) - 0), x)
<1>1. est \in Seq(Value)
  BY DEF IInv, TypeOK
<1>2. Len(est) - 0 = Len(est) /\ SubSeq(est, 1, Len(est)) = est
  BY <1>1, SubSeqFull, LenProperties
<1> QED
  BY <1>2

LEMMA LiteralEvaluates ==
  ASSUME IInv, RInv, NEW l \in Lits, Literal(l)
  PROVE  EvaluatedTo(0, <<Chunk(l)>>)
<1> DEFINE x == [ptr |-> l, kind |-> "const", var |-> NoVar]
<1>1. flow = "body" /\ Sound(mem) /\ HeapOK(mem)
  BY Executes DEF Literal, IInv
<1>2. x \in Value
  BY OwnershipAssumption DEF Value, Ptrs, Addrs
<1>3. est' = Append(SubSeq(est, 1, Len(est) - 0), x)
  BY Pushed DEF Literal
<1>4. /\ x.ptr = l /\ x.kind = "const"
      /\ UNCHANGED <<mem, slot, declared, destroyed, mode, skip, flow, caller>>
  BY DEF Literal, control
<1> HIDE DEF x
<1>5. destroyed \subseteq declared
  BY <1>1 DEF RInv, Stage
<1>6. Usable(mem, l) /\ \A i \in DOMAIN est : ~(i > Len(est) - 0)
  BY <1>1, LitIsUsable, LastOperands
<1>7. Evaluated(0, x)
  BY <1>1, <1>3, <1>4, <1>5, <1>6 DEF Evaluated, Moved, FreeBlocks
<1>8. 0 \in {0, 1, 2} /\ Len(est) >= 0
  BY LastOperands
<1>9. mem'.cell[l].text = <<Chunk(l)>>
  BY <1>1, <1>4, LitText
<1> QED
  BY <1>1, <1>2, <1>4, <1>7, <1>8, <1>9 DEF EvaluatedTo

LEMMA NewEvaluates ==
  ASSUME Ruled, NewHoldsBytes, IInv, RInv, NEW n \in NewCaps, New(n)
  PROVE  EvaluatedTo(0, <<>>)
<1>1. flow = "body" /\ Sound(mem) /\ HeapOK(mem) /\ Executing
  BY Executes DEF New, IInv
<1>2. PICK b \in FreeBlocks(mem) :
        /\ Run(NewString(mem, b, n))
        /\ est' = Append(est, [ptr |-> IF Executing THEN b ELSE Nil,
                               kind |-> "new", var |-> NoVar])
  BY DEF New
<1> DEFINE x == [ptr |-> b, kind |-> "new", var |-> NoVar]
<1>3. x \in Value
  BY OwnershipAssumption DEF Value, Ptrs, Addrs, FreeBlocks
<1>4. est' = Append(SubSeq(est, 1, Len(est) - 0), x)
  <2>1. est' = Append(est, x)
    BY <1>1, <1>2
  <2> QED
    BY <2>1, Pushed
<1>5. /\ x.ptr = b /\ x.kind = "new"
      /\ UNCHANGED <<slot, declared, destroyed, mode, skip, flow, caller>>
  BY DEF New, control
<1> HIDE DEF x
<1>6. destroyed \subseteq declared
  BY <1>1 DEF RInv, Stage
<1>7. n \in Nat \ {0}
  BY OwnershipAssumption DEF NewHoldsBytes
<1>8. /\ HeapOK(mem') /\ Sound(mem') /\ mem'.cell[b].live /\ mem'.cell[b].cap # 0
      /\ mem'.cell[b].text = <<>>
      /\ \A a \in Addrs \ {b} : mem'.cell[a] = mem.cell[a]
  <2>1. mem' = NewString(mem, b, n)
    BY <1>1, <1>2 DEF Run
  <2> QED
    BY <1>1, <1>7, <2>1, NewStringEffect
<1>9. /\ \A i \in DOMAIN est : ~(i > Len(est) - 0)
      /\ b \in Addrs /\ Blocks \subseteq Addrs
  BY LastOperands DEF FreeBlocks, Addrs
<1>10. Evaluated(0, x)
  <2>1. \A c \in LiveBlocks(mem) : mem'.cell[c] = mem.cell[c]
    BY <1>8, <1>9 DEF LiveBlocks, FreeBlocks
  <2>2. \A c \in FreeBlocks(mem) : mem'.cell[c].live =>
          x.kind \in {"temp", "new"} /\ x.ptr = c /\ mem'.cell[c].cap # 0
    BY <1>5, <1>8, <1>9 DEF FreeBlocks
  <2>3. Usable(mem', x.ptr)
    BY <1>5, <1>8, <1>9 DEF Usable
  <2>4. /\ x.kind \in {"temp", "new"} => x.ptr \in Lits \/ x.ptr \in FreeBlocks(mem)
        /\ x.kind # "const" /\ x.kind # "var"
    BY <1>5
  <2> QED
    BY <1>4, <1>5, <1>6, <1>8, <1>9, <2>1, <2>2, <2>3, <2>4 DEF Evaluated, Moved
<1>11. 0 \in {0, 1, 2} /\ Len(est) >= 0
  BY LastOperands
<1> QED
  BY <1>1, <1>3, <1>5, <1>8, <1>10, <1>11 DEF EvaluatedTo

(* A variable is only mentioned while its string has not moved.            *)
LEMMA MentionedIsUsable ==
  ASSUME IInv, RInv, flow = "body", NEW v \in declared \ Moved, slot[v] # Nil
  PROVE  Usable(mem, slot[v])
<1>1. CASE v \in Holders
  BY <1>1 DEF RInv, Pointers
<1>2. CASE v \in Params
  <2>1. slot[v] \in Lits \/ slot[v] \in mains
    BY <1>2 DEF RInv, Pointers
  <2>2. \A b \in mains : b \in Addrs /\ mem.cell[b].live
    BY DEF RInv, Pointers, ArgCell, IInv, TypeOK, Addrs
  <2> QED
    BY <2>1, <2>2, LitIsUsable DEF Usable, IInv
<1> QED
  BY <1>1, <1>2 DEF Holders, Moved

(* Unless it is the local a return names first, it keeps its string.       *)
LEMMA VariableEvaluates ==
  ASSUME Ruled, IInv, RInv, NEW v \in Vars, Variable(v),
         mode # "returning" \/ v \in Params
  PROVE  EvaluatedTo(0, mem.cell[slot[v]].text)
<1>1. flow = "body" /\ Sound(mem) /\ HeapOK(mem) /\ Executing
  BY Executes DEF Variable, IInv
<1> DEFINE x == [ptr |-> slot[v], kind |-> "var", var |-> v]
<1>2. /\ v \in declared /\ v \notin Moved /\ slot[v] # Nil
      /\ destroyed' = Flagged(v)
      /\ mode' = IF mode = "returning" THEN "returned" ELSE mode
      /\ UNCHANGED <<mem, slot, declared, skip, flow, caller>>
  BY <1>1 DEF Variable, MayUse, Ruled, Moved
<1>3. est' = Append(SubSeq(est, 1, Len(est) - 0), x)
  <2>1. est' = Append(est, x)
    BY <1>1 DEF Variable
  <2> QED
    BY <2>1, Pushed
<1>4. x \in Value
  BY DEF IInv, TypeOK, Value
<1>5. x.ptr = slot[v] /\ x.kind = "var" /\ x.var = v
  OBVIOUS
<1> HIDE DEF x
<1>6. Usable(mem, slot[v])
  BY <1>1, <1>2, MentionedIsUsable
<1>7. /\ \A i \in DOMAIN est : ~(i > Len(est) - 0)
      /\ destroyed \subseteq declared
      /\ mode = "returned" => Len(est) # 0
  <2>1. destroyed \subseteq declared /\ (mode = "returned" => 1 \in DOMAIN est)
    BY <1>1 DEF RInv, Stage
  <2>2. \A n \in Nat : 1 \in 1 .. n => n # 0
    OBVIOUS
  <2> QED
    BY <2>1, <2>2, LastOperands
<1>8. destroyed' \ Params = Moved /\ destroyed' \subseteq declared
  BY <1>2, <1>7 DEF Flagged, Moved
<1>9. \A b \in FreeBlocks(mem) : ~mem'.cell[b].live
  BY <1>2 DEF FreeBlocks
<1>10. Evaluated(0, x)
  BY <1>1, <1>2, <1>3, <1>5, <1>6, <1>7, <1>8, <1>9 DEF Evaluated
<1>11. Len(est) >= 0
  BY LastOperands
<1>12. mem'.cell[x.ptr].text = mem.cell[slot[v]].text
  BY <1>2, <1>5
<1> QED
  BY <1>1, <1>4, <1>10, <1>11, <1>12 DEF EvaluatedTo

LEMMA VariableRule ==
  ASSUME Ruled, IInv, RInv, NEW v \in Vars, Variable(v)
  PROVE  RInv'
<1>1. flow = "body" /\ Sound(mem) /\ HeapOK(mem) /\ Executing
  BY Executes DEF Variable, IInv
<1> DEFINE x == [ptr |-> slot[v], kind |-> "var", var |-> v]
<1>2. /\ v \in declared /\ v \notin Moved /\ slot[v] # Nil
      /\ destroyed' = Flagged(v)
      /\ mode' = IF mode = "returning" THEN "returned" ELSE mode
      /\ UNCHANGED <<mem, slot, declared, skip, flow, caller>>
  BY <1>1 DEF Variable, MayUse, Ruled, Moved
<1>3. est' = Append(SubSeq(est, 1, Len(est) - 0), x)
  <2>1. est' = Append(est, x)
    BY <1>1 DEF Variable
  <2> QED
    BY <2>1, Pushed
<1>4. x \in Value
  BY DEF IInv, TypeOK, Value
<1>5. x.ptr = slot[v] /\ x.kind = "var" /\ x.var = v
  OBVIOUS
<1> HIDE DEF x
<1>6. Usable(mem, slot[v])
  BY <1>1, <1>2, MentionedIsUsable
<1>7. destroyed \subseteq declared
  BY <1>1 DEF RInv, Stage
<1>8. CASE mode # "returning" \/ v \in Params
  <2>1. PICK k \in {0, 1, 2} : k = 0
    OBVIOUS
  <2> QED
    BY <1>8, <2>1, VariableEvaluates, EvaluateTo
<1>9. CASE mode = "returning" /\ v \notin Params
  <2>1. destroyed' = destroyed \cup {v} /\ mode' = "returned"
    BY <1>2, <1>9 DEF Flagged
  <2>2. v \in Holders /\ Holders' = Holders \ {v} /\ Moved' = Moved \cup {v}
    BY <1>2, <1>9, <2>1 DEF Holders, Moved
  <2> DEFINE n == Len(est) - 0
  <2>3. /\ n \in Nat
        /\ DOMAIN est = 1 .. n /\ DOMAIN est' = 1 .. (n + 1)
        /\ \A i \in 1 .. n : est'[i] = est[i]
        /\ est'[n + 1] = x
    <3>1. 0 \in {0, 1, 2} /\ Len(est) >= 0
      BY LastOperands
    <3>2. /\ n \in Nat
          /\ DOMAIN est = 1 .. (n + 0) /\ DOMAIN est' = 1 .. (n + 1)
          /\ \A i \in 1 .. n : est'[i] = est[i]
          /\ est'[n + 1] = x
      BY <1>3, <3>1, Shortened
    <3> HIDE DEF n
    <3>3. n + 0 = n
      BY <3>2
    <3> QED
      BY <3>2, <3>3
  <2> HIDE DEF n
  <2>4. /\ \A i \in DOMAIN est' : i \in 1 .. n \/ i = n + 1
        /\ 1 .. n \subseteq DOMAIN est' /\ n + 1 \in DOMAIN est' /\ 1 \in DOMAIN est'
        /\ n + 1 \notin 1 .. n
    BY <2>3
  <2> DEFINE G(y) == Giver(y) \/ y.var = v
  <2>5. (\A y : Giver(y)' <=> G(y)) /\ G(x)
    BY <1>5, <2>2 DEF Giver
  <2>6. \A i \in 1 .. n : est[i].kind # "var" /\ (G(est[i]) <=> Giver(est[i]))
    <3> SUFFICES ASSUME NEW i \in 1 .. n
                 PROVE  est[i].kind # "var" /\ (G(est[i]) <=> Giver(est[i]))
      OBVIOUS
    <3>1. i \in DOMAIN est /\ est[i].kind # "var"
      BY <1>9, <2>3 DEF RInv, Stage
    <3>2. est[i].var # v
      BY <3>1, OperandIsValue
    <3> QED
      BY <3>1, <3>2
  <2> HIDE DEF G
  <2>7. /\ slot' = slot /\ result' = result /\ mains' = mains /\ declared' = declared
        /\ mem' = mem /\ flow' = flow /\ skip' = skip
    BY <1>2 DEF caller
  <2>8. Pointers'
    <3>1. ASSUME NEW i \in DOMAIN est'
          PROVE  /\ Usable(mem, est'[i].ptr)
                 /\ est'[i].kind = "const" => est'[i].ptr \in Lits
                 /\ est'[i].kind = "var" => /\ est'[i].var \in declared
                                            /\ est'[i].ptr = slot[est'[i].var]
      <4>1. CASE i \in 1 .. n
        BY <2>3, <4>1 DEF RInv, Pointers
      <4>2. CASE i = n + 1
        BY <1>2, <1>5, <1>6, <2>3, <4>2
      <4> QED
        BY <2>4, <4>1, <4>2
    <3> QED
      BY <2>2, <2>7, <3>1 DEF RInv, Pointers
  <2>9. Owned'
    <3> SUFFICES ASSUME NEW b \in LiveBlocks(mem)
                 PROVE  \/ \E w \in Holders' : slot[w] = b
                        \/ \E i \in DOMAIN est' : G(est'[i]) /\ est'[i].ptr = b
                        \/ result = b
                        \/ b \in mains
      BY <2>5, <2>7 DEF Owned
    <3>1. CASE \E w \in Holders : slot[w] = b
      BY <1>5, <2>2, <2>3, <2>4, <2>5, <3>1
    <3>2. CASE \E i \in DOMAIN est : Giver(est[i]) /\ est[i].ptr = b
      BY <2>3, <2>4, <2>6, <3>2
    <3> QED
      BY <3>1, <3>2 DEF RInv, Owned
  <2>10. Apart'
    <3>1. ASSUME NEW i \in DOMAIN est', G(est'[i]), est'[i].ptr \in Blocks
          PROVE  /\ est'[i].ptr \notin mains
                 /\ \A w \in Holders' : slot[w] # est'[i].ptr
                 /\ \A j \in DOMAIN est' :
                      G(est'[j]) /\ est'[j].ptr = est'[i].ptr => i = j
      <4>1. CASE i \in 1 .. n
        <5>1. i \in DOMAIN est /\ est'[i] = est[i] /\ Giver(est[i])
          BY <2>3, <2>6, <3>1, <4>1
        <5>2. est[i].ptr \notin mains /\ \A w \in Holders : slot[w] # est[i].ptr
          BY <3>1, <5>1 DEF RInv, Apart
        <5>3. \A j \in 1 .. n : G(est'[j]) /\ est'[j].ptr = est'[i].ptr => i = j
          BY <2>3, <2>6, <3>1, <5>1 DEF RInv, Apart
        <5> QED
          BY <1>5, <2>2, <2>3, <2>4, <5>1, <5>2, <5>3
      <4>2. CASE i = n + 1
        <5>1. est'[i] = x /\ slot[v] \in Blocks
          BY <1>5, <2>3, <3>1, <4>2
        <5>2. slot[v] \notin mains /\ \A w \in Holders' : slot[w] # slot[v]
          BY <2>2, <5>1 DEF RInv, Apart
        <5>3. \A j \in 1 .. n : ~(G(est'[j]) /\ est'[j].ptr = slot[v])
          BY <2>2, <2>3, <2>6, <5>1 DEF RInv, Apart
        <5> QED
          BY <1>5, <2>4, <4>2, <5>1, <5>2, <5>3
      <4> QED
        BY <2>4, <4>1, <4>2
    <3>2. /\ \A u, w \in Holders' : slot[u] = slot[w] /\ slot[u] \in Blocks => u = w
          /\ \A u \in Holders' : slot[u] \in Blocks => slot[u] # result /\ slot[u] \notin mains
          /\ result \notin mains
      BY <2>2 DEF RInv, Apart
    <3> QED
      BY <2>5, <2>7, <3>1, <3>2 DEF Apart
  <2>11. Stage'
    <3>1. est'[1].kind = "var" => est'[1].var \in destroyed'
      <4>1. CASE 1 \in 1 .. n
        BY <2>3, <2>6, <4>1
      <4>2. CASE 1 = n + 1
        BY <1>5, <2>1, <2>3, <4>2
      <4> QED
        BY <2>4, <4>1, <4>2
    <3> QED
      BY <1>1, <1>2, <1>7, <2>1, <2>4, <2>7, <3>1 DEF RInv, Stage
  <2> QED
    BY <1>1, <2>7, <2>8, <2>9, <2>10, <2>11 DEF RInv
<1> QED
  BY <1>8, <1>9

(* What an operand that is borrowed owns is a temporary, freed after use.  *)
LEMMA BorrowedIsTemp ==
  ASSUME Ruled, IInv, NEW i \in DOMAIN est, MayBorrow(est[i])
  PROVE  /\ est[i].kind # "new"
         /\ est[i].kind = "temp" => Giver(est[i])
         /\ Giver(est[i]) /\ est[i].ptr \in Blocks => est[i].kind = "temp"
  BY OperandIsValue DEF MayBorrow, Ruled, Moved, Giver

(* The two results a call or an addition leaves.                           *)
LEMMA TempIsValue ==
  ASSUME NEW p \in Addrs
  PROVE  /\ [ptr |-> p, kind |-> "temp", var |-> NoVar] \in Value
         /\ [ptr |-> p, kind |-> "temp", var |-> NoVar].ptr = p
         /\ [ptr |-> p, kind |-> "temp", var |-> NoVar].kind = "temp"
  BY OwnershipAssumption DEF Value, Ptrs

LEMMA CallEvaluates ==
  ASSUME Ruled, IInv, RInv, NEW l \in Lits, Call(l)
  PROVE  \/ EvaluatedTo(1, <<Chunk(l)>>)
         \/ EvaluatedTo(1, Joined(mem.cell[Top.ptr].text, <<Chunk(l)>>))
<1>1. flow = "body" /\ Sound(mem) /\ HeapOK(mem) /\ Executing
  BY Executes DEF Call, IInv
<1> DEFINE p == Top.ptr
<1>2. /\ Len(est) >= 1 /\ Len(est) \in DOMAIN est
      /\ \A i \in DOMAIN est : i > Len(est) - 1 <=> i = Len(est)
      /\ Top = est[Len(est)]
  BY LastOperands DEF Call, Top
<1>3. /\ Usable(mem, p) /\ p \in Addrs
      /\ p \in Blocks => mem.cell[p].cap # 0
      /\ Top.kind # "new" /\ (Top.kind = "temp" => Giver(Top))
      /\ Giver(Top) /\ p \in Blocks => Top.kind = "temp"
  BY <1>2, BorrowedIsTemp DEF RInv, Pointers, Usable, LiveBlocks, Call
<1>4. /\ UNCHANGED <<slot, declared, destroyed, mode, skip, flow, caller>>
      /\ destroyed \subseteq declared
  BY <1>1 DEF Call, control, RInv, Stage
<1>5. CASE /\ Run(Borrow(mem, Top))
           /\ est' = Replace(1, [ptr |-> IF Executing THEN l ELSE Nil,
                                 kind |-> "temp", var |-> NoVar])
  <2> DEFINE x == [ptr |-> l, kind |-> "temp", var |-> NoVar]
  <2>1. x \in Value /\ x.ptr = l /\ x.kind = "temp"
    BY TempIsValue DEF Addrs
  <2>2. est' = Append(SubSeq(est, 1, Len(est) - 1), x)
    BY <1>1, <1>5 DEF Replace
  <2> HIDE DEF x
  <2>3. mem' = IF Top.kind = "temp" THEN FreeString(mem, p) ELSE mem
    BY <1>1, <1>3, <1>5 DEF Run, Borrow, FreeTemp
  <2>4. /\ HeapOK(mem') /\ Sound(mem')
        /\ \A a \in Addrs \ {p} : mem'.cell[a] = mem.cell[a]
        /\ Top.kind = "temp" /\ p \in Blocks => ~mem'.cell[p].live
        /\ Top.kind # "temp" \/ p \notin Blocks => \A b \in Blocks : mem'.cell[b] = mem.cell[b]
    <3>1. CASE Top.kind = "temp"
      BY <1>1, <1>3, <2>3, <3>1, FreeEffect DEF Released, Addrs
    <3>2. CASE Top.kind # "temp"
      BY <1>1, <2>3, <3>2
    <3> QED
      BY <3>1, <3>2
  <2>5. Usable(mem', l)
    BY <2>4, LitIsUsable
  <2>6. Blocks \subseteq Addrs
    BY DEF Addrs
  <2>7. \A b \in LiveBlocks(mem) :
          \/ mem'.cell[b] = mem.cell[b]
          \/ ~mem'.cell[b].live /\ Giver(Top) /\ Top.ptr = b
    BY <1>3, <2>4, <2>6 DEF LiveBlocks
  <2>8. \A b \in FreeBlocks(mem) : ~mem'.cell[b].live
    BY <1>3, <2>4, <2>6 DEF FreeBlocks, Usable
  <2>9. Evaluated(1, x)
    BY <1>1, <1>2, <1>3, <1>4, <2>1, <2>2, <2>4, <2>5, <2>7, <2>8 DEF Evaluated, Moved
  <2>10. mem'.cell[l].text = <<Chunk(l)>>
    BY <2>4, LitText
  <2> QED
    BY <1>1, <1>2, <2>1, <2>9, <2>10 DEF EvaluatedTo
<1>6. CASE \E b \in FreeBlocks(mem) :
             /\ Run(FreeTemp(Concat(mem, b, Top.ptr, l, FALSE, FALSE), Top))
             /\ est' = Replace(1, [ptr |-> IF Executing THEN b ELSE Nil,
                                   kind |-> "temp", var |-> NoVar])
  <2>1. PICK b \in FreeBlocks(mem) :
             /\ Run(FreeTemp(Concat(mem, b, Top.ptr, l, FALSE, FALSE), Top))
             /\ est' = Replace(1, [ptr |-> IF Executing THEN b ELSE Nil,
                                   kind |-> "temp", var |-> NoVar])
    BY <1>6
  <2> DEFINE x == [ptr |-> b, kind |-> "temp", var |-> NoVar]
             m1 == Concat(mem, b, p, l, FALSE, FALSE)
  <2>2. x \in Value /\ x.ptr = b /\ x.kind = "temp"
    BY TempIsValue DEF Addrs, FreeBlocks
  <2>3. est' = Append(SubSeq(est, 1, Len(est) - 1), x)
    BY <1>1, <2>1 DEF Replace
  <2> HIDE DEF x
  <2>4. mem' = IF Top.kind = "temp" THEN FreeString(m1, p) ELSE m1
    BY <1>1, <2>1 DEF Run, FreeTemp
  <2>5. /\ HeapOK(m1) /\ Sound(m1) /\ m1.cell[b].live /\ m1.cell[b].cap # 0
        /\ m1.cell[b].text = Joined(mem.cell[p].text, mem.cell[l].text)
        /\ \A a \in Addrs \ {b} : m1.cell[a] = mem.cell[a]
    <3> DEFINE no == FALSE
    <3>1. no \in BOOLEAN /\ (no /\ no /\ p = l => mem.cell[p].cap = 0)
      OBVIOUS
    <3>2. Usable(mem, l) /\ m1 = Concat(mem, b, p, l, no, no)
      BY <1>1, LitIsUsable
    <3>3. ~no
      OBVIOUS
    <3> HIDE DEF no, m1
    <3> QED
      BY <1>1, <1>3, <3>1, <3>2, <3>3, ConcatEffect
  <2> HIDE DEF m1
  <2>6. b # p /\ b \in Addrs /\ Blocks \subseteq Addrs
    BY <1>3 DEF FreeBlocks, Usable, Addrs
  <2>7. Usable(m1, p) /\ m1.cell[p] = mem.cell[p]
    BY <1>3, <2>5, <2>6 DEF Usable
  <2>8. /\ HeapOK(mem') /\ Sound(mem') /\ mem'.cell[b] = m1.cell[b]
        /\ \A a \in Addrs \ {p, b} : mem'.cell[a] = mem.cell[a]
        /\ Top.kind = "temp" /\ p \in Blocks => ~mem'.cell[p].live
        /\ Top.kind # "temp" => mem'.cell[p] = mem.cell[p]
    <3>1. CASE Top.kind = "temp"
      BY <1>3, <2>4, <2>5, <2>6, <2>7, <3>1, FreeEffect DEF Released
    <3>2. CASE Top.kind # "temp"
      BY <1>3, <2>4, <2>5, <2>6, <2>7, <3>2
    <3> QED
      BY <3>1, <3>2
  <2>9. Usable(mem', b)
    BY <2>5, <2>6, <2>8 DEF Usable
  <2>10. \A c \in LiveBlocks(mem) :
          \/ mem'.cell[c] = mem.cell[c]
          \/ ~mem'.cell[c].live /\ Giver(Top) /\ Top.ptr = c
    BY <1>3, <2>6, <2>8 DEF LiveBlocks, FreeBlocks
  <2>11. \A c \in FreeBlocks(mem) : mem'.cell[c].live => b = c /\ mem'.cell[c].cap # 0
    BY <1>3, <2>5, <2>6, <2>8 DEF FreeBlocks, Usable
  <2>12. Evaluated(1, x)
    BY <1>1, <1>2, <1>3, <1>4, <2>2, <2>3, <2>8, <2>9, <2>10, <2>11 DEF Evaluated, Moved
  <2>13. mem'.cell[x.ptr].text = Joined(mem.cell[Top.ptr].text, <<Chunk(l)>>)
    <3>1. mem.cell[l].text = <<Chunk(l)>>
      BY <1>1, LitText
    <3> QED
      BY <2>2, <2>5, <2>8, <3>1
  <2> QED
    BY <1>1, <1>2, <2>2, <2>12, <2>13 DEF EvaluatedTo
<1> QED
  BY <1>5, <1>6 DEF Call

LEMMA PlusEvaluates ==
  ASSUME Ruled, IInv, RInv, Plus
  PROVE  EvaluatedTo(2, Joined(mem.cell[Below.ptr].text, mem.cell[Top.ptr].text))
<1>1. flow = "body" /\ Sound(mem) /\ HeapOK(mem) /\ Executing
  BY Executes DEF Plus, IInv
<1> DEFINE p == Below.ptr
           q == Top.ptr
           f == Below.kind = "temp"
           g == Top.kind = "temp"
           i1 == Len(est) - 1
           i2 == Len(est)
<1>2. /\ Len(est) >= 2 /\ i1 \in DOMAIN est /\ i2 \in DOMAIN est /\ i1 # i2
      /\ \A i \in DOMAIN est : i > Len(est) - 2 <=> i \in {i1, i2}
      /\ Below = est[i1] /\ Top = est[i2]
  <2>1. Len(est) >= 2 /\ Below = est[i1] /\ Top = est[i2]
    BY DEF Plus, Below, Top
  <2>2. /\ Len(est) - 1 \in DOMAIN est /\ Len(est) - 1 # Len(est)
        /\ \A i \in DOMAIN est : i > Len(est) - 2 <=> i \in {Len(est) - 1, Len(est)}
    BY <2>1, LastOperands
  <2>3. Len(est) \in DOMAIN est
    BY <2>1, LastOperands
  <2> QED
    BY <2>1, <2>2, <2>3
<1> HIDE DEF i1, i2
<1>3. /\ Usable(mem, p) /\ p \in Addrs /\ (p \in Blocks => mem.cell[p].cap # 0)
      /\ Usable(mem, q) /\ q \in Addrs /\ (q \in Blocks => mem.cell[q].cap # 0)
  BY <1>2 DEF RInv, Pointers, Usable, LiveBlocks
<1>4. /\ Below.kind # "new" /\ (f => Giver(Below)) /\ (Giver(Below) /\ p \in Blocks => f)
      /\ Top.kind # "new" /\ (g => Giver(Top)) /\ (Giver(Top) /\ q \in Blocks => g)
  <2>1. MayBorrow(Below) /\ MayBorrow(Top)
    BY DEF Plus
  <2> QED
    BY <1>2, <2>1, BorrowedIsTemp
<1>5. /\ UNCHANGED <<slot, declared, destroyed, mode, skip, flow, caller>>
      /\ destroyed \subseteq declared
  BY <1>1 DEF Plus, control, RInv, Stage
<1>6. PICK b \in FreeBlocks(mem) :
        /\ Run(Concat(mem, b, p, q, f, g))
        /\ est' = Replace(2, [ptr |-> IF Executing THEN b ELSE Nil,
                              kind |-> "temp", var |-> NoVar])
  BY DEF Plus
<1> DEFINE x == [ptr |-> b, kind |-> "temp", var |-> NoVar]
<1>7. x \in Value /\ x.ptr = b /\ x.kind = "temp"
  BY TempIsValue DEF Addrs, FreeBlocks
<1>8. est' = Append(SubSeq(est, 1, Len(est) - 2), x)
  BY <1>1, <1>6 DEF Replace
<1> HIDE DEF x
<1>9. f /\ g /\ p = q => mem.cell[p].cap = 0
  <2>1. CASE p \in Blocks
    BY <1>1, <1>2, <1>4, <2>1, OperandsApart
  <2>2. CASE p \in Lits
    BY <1>1, <2>2, LitIsUsable
  <2> QED
    BY <1>3, <2>1, <2>2 DEF Addrs
<1>10. mem' = Concat(mem, b, p, q, f, g) /\ f \in BOOLEAN /\ g \in BOOLEAN
  BY <1>1, <1>6 DEF Run
<1> HIDE DEF f, g, p, q
<1>11. /\ HeapOK(mem') /\ Sound(mem') /\ mem'.cell[b].live /\ mem'.cell[b].cap # 0
       /\ mem'.cell[b].text = Joined(mem.cell[p].text, mem.cell[q].text)
       /\ \A a \in Addrs \ {b} :
            IF (f /\ a = p) \/ (g /\ a = q) THEN Released(mem, mem', a)
            ELSE mem'.cell[a] = mem.cell[a]
  BY <1>1, <1>3, <1>9, <1>10, ConcatEffect
<1>12. b \in Addrs /\ Blocks \subseteq Addrs /\ b # p /\ b # q
  BY <1>3 DEF FreeBlocks, Addrs, Usable
<1>13. Usable(mem', b)
  BY <1>11, <1>12 DEF Usable
<1>14. \A c \in LiveBlocks(mem) :
         \/ mem'.cell[c] = mem.cell[c]
         \/ /\ ~mem'.cell[c].live
            /\ (Giver(Below) /\ p = c) \/ (Giver(Top) /\ q = c)
  BY <1>3, <1>4, <1>11, <1>12 DEF LiveBlocks, FreeBlocks, Released
<1>15. /\ Giver(Below) /\ p \in Blocks => ~mem'.cell[p].live
       /\ Giver(Top) /\ q \in Blocks => ~mem'.cell[q].live
  BY <1>3, <1>4, <1>11, <1>12 DEF Released
<1>16. \A c \in FreeBlocks(mem) : mem'.cell[c].live => b = c /\ mem'.cell[c].cap # 0
  BY <1>3, <1>11, <1>12 DEF FreeBlocks, Usable
<1>17. Evaluated(2, x)
  <2>1. \A c \in LiveBlocks(mem) :
         \/ mem'.cell[c] = mem.cell[c]
         \/ /\ ~mem'.cell[c].live
            /\ \E i \in DOMAIN est : i > Len(est) - 2 /\ Giver(est[i]) /\ est[i].ptr = c
    BY <1>2, <1>14 DEF p, q
  <2>2. \A i \in DOMAIN est :
          i > Len(est) - 2 /\ Giver(est[i]) /\ est[i].ptr \in Blocks =>
            ~mem'.cell[est[i].ptr].live
    BY <1>2, <1>15 DEF p, q
  <2> QED
    BY <1>1, <1>5, <1>7, <1>8, <1>11, <1>13, <1>16, <2>1, <2>2 DEF Evaluated, Moved
<1>18. mem'.cell[x.ptr].text = Joined(mem.cell[Below.ptr].text, mem.cell[Top.ptr].text)
  BY <1>7, <1>11 DEF p, q
<1> QED
  BY <1>1, <1>2, <1>7, <1>17, <1>18 DEF EvaluatedTo

-----------------------------------------------------------------------------
(* Statements.                                                             *)

(* What is to be shown of a statement, which leaves no operand behind.     *)
LEMMA Settled ==
  ASSUME IInv, RInv, flow = "body", mode = "stmt", est' = <<>>,
         UNCHANGED <<control, caller>>, HeapOK(mem'), Sound(mem'),
         destroyed' \subseteq declared',
         \A b \in LiveBlocks(mem') :
           /\ mem'.cell[b].cap # 0
           /\ b \in mains \/ \E v \in Holders' : slot'[v] = b,
         \A v \in Holders' : slot'[v] = Nil \/ Usable(mem', slot'[v]),
         \A b \in mains : mem'.cell[b] = mem.cell[b],
         \A v \in Params : slot'[v] = slot[v],
         \A v, w \in Holders' : slot'[v] = slot'[w] /\ slot'[v] \in Blocks => v = w,
         \A v \in Holders' : slot'[v] \in Blocks => slot'[v] \notin mains
  PROVE  RInv'
<1>1. /\ result' = result /\ mains' = mains /\ flow' = flow /\ mode' = mode
      /\ skip' = skip /\ result = Nil
  BY DEF caller, control, RInv, Stage
<1>2. DOMAIN est' = {}
  BY EmptySeq, LenProperties
<1>3. mains \subseteq Blocks
  BY DEF IInv, TypeOK
<1>4. Pointers'
  BY <1>1, <1>2 DEF RInv, Pointers
<1>5. Owned'
  BY <1>1, <1>2 DEF Owned
<1>6. Apart'
  BY <1>1, <1>2, <1>3, HeapAssumption DEF Apart
<1>7. Stage'
  BY <1>1, <1>2 DEF RInv, Stage
<1> QED
  BY <1>4, <1>5, <1>6, <1>7 DEF RInv

(* In a statement, outside of a return, the operands that own something    *)
(* are temporaries and new strings.                                        *)
LEMMA StatementOperand ==
  ASSUME IInv, RInv, mode = "stmt", Len(est) = 1
  PROVE  /\ DOMAIN est = {1} /\ Top = est[1] /\ Top \in Value
         /\ Usable(mem, Top.ptr)
         /\ Top.kind \in {"var", "const", "temp", "new"}
         /\ Giver(Top) <=> Top.kind \in {"temp", "new"}
         /\ Top.kind = "const" => Top.ptr \in Lits
         /\ Top.kind = "var" => /\ Top.var \in declared \ Moved
                                /\ Top.ptr = slot[Top.var]
<1>1. DOMAIN est = {1} /\ Top = est[1]
  BY LastOperands DEF Top
<1>2. Top.kind \in {"var", "const", "temp", "new"} /\ Top \in Value
  BY <1>1, OperandIsValue
<1>3. Top.var \notin Moved
  BY <1>1 DEF RInv, Stage
<1> QED
  BY <1>1, <1>2, <1>3 DEF RInv, Pointers, Giver

(* A variable that may be changed holds nil or a string of its own.        *)
LEMMA ChangedIsHeld ==
  ASSUME Ruled, RInv, NEW v \in declared, MayChange(v)
  PROVE  v \in Holders /\ (slot[v] = Nil \/ Usable(mem, slot[v]))
  BY DEF MayChange, Ruled, Holders, RInv, Pointers

LEMMA ParamsAreKept ==
  ASSUME IInv, NEW v, v \notin Params, NEW p,
         slot' = [slot EXCEPT ![v] = p]
  PROVE  /\ \A w \in Vars \ {v} : slot'[w] = slot[w]
         /\ v \in Vars => slot'[v] = p
         /\ \A w \in Params : slot'[w] = slot[w]
  BY DEF IInv, TypeOK, Vars

LEMMA RenewRule ==
  ASSUME IInv, RInv, flow = "body", mode = "stmt", NEW v \in Holders, NEW r,
         Renewed(mem, mem', slot[v], r),
         slot' = [slot EXCEPT ![v] = r], est' = <<>>,
         \A i \in DOMAIN est : ~Giver(est[i]),
         UNCHANGED <<declared, destroyed, control, caller>>
  PROVE  RInv'
<1> DEFINE p == slot[v]
<1>1. /\ HeapOK(mem') /\ Sound(mem') /\ HeapOK(mem)
      /\ r \in Blocks /\ (r = p \/ ~mem.cell[r].live)
      /\ mem'.cell[r].live /\ mem'.cell[r].cap # 0
      /\ r # p => Released(mem, mem', p)
      /\ \A a \in Addrs \ {r, p} : mem'.cell[a] = mem.cell[a]
  BY DEF Renewed, FreeBlocks, IInv
<1>2. /\ v \in Vars /\ v \notin Params /\ Holders \subseteq Vars /\ Holders' = Holders
      /\ destroyed' \subseteq declared' /\ result = Nil
  BY DEF Holders, IInv, TypeOK, RInv, Stage
<1>3. /\ \A w \in Vars \ {v} : slot'[w] = slot[w]
      /\ slot'[v] = r
      /\ \A w \in Params : slot'[w] = slot[w]
  BY <1>2, ParamsAreKept
<1>4. p = Nil \/ Usable(mem, p)
  BY DEF RInv, Pointers
<1> HIDE DEF p
<1>5. \A w \in Holders \ {v} : slot[w] \in Blocks =>
        /\ slot[w] # p /\ slot[w] # r /\ slot[w] \in Addrs
        /\ mem'.cell[slot[w]] = mem.cell[slot[w]] /\ mem.cell[slot[w]].live
  <2> SUFFICES ASSUME NEW w \in Holders \ {v}, slot[w] \in Blocks
               PROVE  /\ slot[w] # p /\ slot[w] # r /\ slot[w] \in Addrs
                      /\ mem'.cell[slot[w]] = mem.cell[slot[w]] /\ mem.cell[slot[w]].live
    OBVIOUS
  <2>1. slot[w] # p
    BY DEF p, RInv, Apart
  <2>2. mem.cell[slot[w]].live /\ slot[w] \in Addrs
    BY HeapAssumption DEF RInv, Pointers, Usable, Addrs
  <2>3. slot[w] # r
    BY <1>1, <2>1, <2>2
  <2> QED
    BY <1>1, <2>1, <2>2, <2>3
<1>6. \A b \in mains : b # p /\ b # r /\ mem'.cell[b] = mem.cell[b]
  <2> SUFFICES ASSUME NEW b \in mains
               PROVE  b # p /\ b # r /\ mem'.cell[b] = mem.cell[b]
    OBVIOUS
  <2>1. b \in Blocks /\ b \in Addrs /\ mem.cell[b].live
    BY DEF RInv, Pointers, ArgCell, IInv, TypeOK, Addrs
  <2>2. b # p
    BY <2>1 DEF p, RInv, Apart
  <2> QED
    BY <1>1, <2>1, <2>2
<1>7. ASSUME NEW b \in LiveBlocks(mem')
      PROVE  /\ mem'.cell[b].cap # 0
             /\ b \in mains \/ \E w \in Holders' : slot'[w] = b
  <2>1. b \in Blocks /\ b \in Addrs /\ mem'.cell[b].live
    BY DEF LiveBlocks, Addrs
  <2>2. CASE b = r
    BY <1>1, <1>2, <1>3, <2>2
  <2>3. CASE b # r
    <3>1. b # p
      <4> SUFFICES ASSUME b = p PROVE FALSE
        OBVIOUS
      <4>1. Released(mem, mem', b)
        BY <1>1, <2>3
      <4>2. mem.cell[b].cap # 0
        BY <1>4, <2>1, HeapAssumption DEF RInv, Pointers, LiveBlocks, Usable
      <4> QED
        BY <2>1, <4>1, <4>2 DEF Released
    <3>2. mem'.cell[b] = mem.cell[b] /\ b \in LiveBlocks(mem)
      BY <1>1, <2>1, <2>3, <3>1 DEF LiveBlocks
    <3>3. b \in mains \/ \E w \in Holders : slot[w] = b
      BY <1>2, <2>1, <3>2, HeapAssumption DEF RInv, Owned
    <3>4. \A w \in Holders : slot[w] = b => slot'[w] = b
      BY <1>2, <1>3, <3>1 DEF p
    <3> QED
      BY <1>2, <3>2, <3>3, <3>4 DEF RInv, Pointers
  <2> QED
    BY <2>2, <2>3
<1>8. ASSUME NEW w \in Holders'
      PROVE  /\ slot'[w] = Nil \/ Usable(mem', slot'[w])
             /\ slot'[w] \in Blocks => slot'[w] \notin mains
             /\ \A u \in Holders' : slot'[u] = slot'[w] /\ slot'[u] \in Blocks => u = w
  <2>1. w \in Holders
    BY <1>2
  <2>2. CASE w = v
    <3>1. Usable(mem', r) /\ r \notin mains
      BY <1>1, <1>6 DEF Usable, Addrs
    <3>2. \A u \in Holders \ {v} : slot'[u] = r => slot[u] = r
      BY <1>2, <1>3
    <3> QED
      BY <1>1, <1>2, <1>3, <1>5, <2>2, <3>1, <3>2
  <2>3. CASE w # v
    <3>1. slot'[w] = slot[w]
      BY <1>2, <1>3, <2>1, <2>3
    <3>2. slot[w] = Nil \/ Usable(mem', slot[w])
      <4>1. CASE slot[w] \in Lits
        BY <1>1, <4>1, LitIsUsable
      <4>2. CASE slot[w] \in Blocks
        BY <1>5, <2>1, <2>3, <4>2 DEF Usable
      <4> QED
        BY <2>1, <4>1, <4>2 DEF RInv, Pointers, Usable, Addrs
    <3>3. slot[w] \in Blocks => slot[w] \notin mains
      BY <2>1 DEF RInv, Apart
    <3>4. \A u \in Holders : slot'[u] = slot[w] /\ slot[w] \in Blocks => u = w
      <4>1. slot[w] \in Blocks => slot'[v] # slot[w]
        BY <1>3, <1>5, <2>1, <2>3
      <4>2. \A u \in Holders \ {v} : slot'[u] = slot[u]
        BY <1>2, <1>3
      <4> QED
        BY <2>1, <4>1, <4>2 DEF RInv, Apart
    <3> QED
      BY <1>2, <3>1, <3>2, <3>3, <3>4
  <2> QED
    BY <2>2, <2>3
<1> QED
  BY <1>1, <1>2, <1>3, <1>6, <1>7, <1>8, Settled

(* The variable v now holds the text t.                                    *)
RenewedTo(v, t) ==
  /\ flow = "body" /\ mode = "stmt" /\ v \in Holders /\ est' = <<>>
  /\ \A i \in DOMAIN est : ~Giver(est[i])
  /\ UNCHANGED <<declared, destroyed, control, caller>>
  /\ \E r \in Blocks : /\ Renewed(mem, mem', slot[v], r)
                       /\ slot' = [slot EXCEPT ![v] = r]
                       /\ mem'.cell[r].text = t

LEMMA RenewTo ==
  ASSUME IInv, RInv, NEW v, NEW t, RenewedTo(v, t)
  PROVE  RInv'
  BY RenewRule DEF RenewedTo

LEMMA DeclareRule ==
  ASSUME IInv, RInv, NEW v \in Locals, Declare(v)
  PROVE  RInv'
<1>1. flow = "body" /\ Sound(mem) /\ HeapOK(mem) /\ slot' = [slot EXCEPT ![v] = Nil]
  BY Executes DEF Declare, IInv
<1>2. /\ v \in Vars \ Params /\ v \notin declared /\ est = <<>> /\ mode = "stmt"
      /\ declared' = declared \cup {v}
      /\ UNCHANGED <<mem, destroyed, est, control, caller>>
  BY OwnershipAssumption DEF Declare, Vars
<1>3. /\ destroyed \subseteq declared /\ result = Nil /\ declared \subseteq Vars
  BY <1>1 DEF RInv, Stage, IInv, TypeOK
<1>4. Holders' = Holders \cup {v} /\ v \notin Holders /\ Holders \subseteq Vars
  BY <1>2, <1>3 DEF Holders
<1>5. /\ \A w \in Vars \ {v} : slot'[w] = slot[w]
      /\ slot'[v] = Nil
      /\ \A w \in Params : slot'[w] = slot[w]
  BY <1>1, <1>2, ParamsAreKept
<1>6. DOMAIN est = {}
  BY <1>2, EmptySeq, LenProperties
<1>7. ASSUME NEW b \in LiveBlocks(mem)
      PROVE  mem.cell[b].cap # 0 /\ (b \in mains \/ \E w \in Holders' : slot'[w] = b)
  <2>1. b \in mains \/ \E w \in Holders : slot[w] = b
    BY <1>3, <1>6, HeapAssumption DEF RInv, Owned, LiveBlocks
  <2> QED
    BY <1>4, <1>5, <2>1 DEF RInv, Pointers
<1>8. /\ \A w \in Holders' : slot'[w] = Nil \/ Usable(mem, slot'[w])
      /\ \A u, w \in Holders' : slot'[u] = slot'[w] /\ slot'[u] \in Blocks => u = w
      /\ \A w \in Holders' : slot'[w] \in Blocks => slot'[w] \notin mains
  BY <1>4, <1>5, HeapAssumption DEF RInv, Pointers, Apart
<1>9. mem' = mem /\ est' = <<>> /\ UNCHANGED <<control, caller>>
      /\ destroyed' \subseteq declared'
  BY <1>2, <1>3
<1> QED
  BY <1>1, <1>2, <1>5, <1>7, <1>8, <1>9, Settled

LEMMA AssignRule ==
  ASSUME Ruled, IInv, RInv, NEW v \in Vars, Assign(v)
  PROVE  RInv'
<1>1. /\ flow = "body" /\ Sound(mem) /\ HeapOK(mem)
      /\ mem' = FreeString(mem, OldPtr(v))
      /\ slot' = [slot EXCEPT ![v] = Top.ptr]
  BY Executes DEF Assign, IInv
<1>2. /\ Len(est) = 1 /\ mode = "stmt" /\ est' = <<>>
      /\ declared' = declared \cup {v}
      /\ destroyed' = destroyed \cup (IF Top.kind = "var" THEN {Top.var} ELSE {})
      /\ UNCHANGED <<control, caller>>
      /\ v \in declared => MayChange(v)
      /\ Top.var # v /\ Top.var \notin Params
  BY DEF Assign, MayMoveTo, Ruled
<1> DEFINE o == OldPtr(v)
           q == Top.ptr
<1>3. /\ DOMAIN est = {1} /\ Top = est[1] /\ Usable(mem, q)
      /\ Top.kind \in {"var", "const", "temp", "new"}
      /\ Giver(Top) <=> Top.kind \in {"temp", "new"}
      /\ Top.kind = "const" => q \in Lits
      /\ Top.kind = "var" => Top.var \in declared \ Moved /\ q = slot[Top.var]
  BY <1>2, StatementOperand
<1>4. /\ destroyed \subseteq declared /\ result = Nil /\ declared \subseteq Vars
      /\ Params \subseteq declared /\ mains \subseteq Blocks /\ Blocks \subseteq Addrs
  BY <1>1 DEF RInv, Stage, IInv, TypeOK, Addrs
<1>5. v \notin Params /\ v \notin destroyed /\ (v \in declared => v \in Holders)
  BY <1>2, <1>4, ChangedIsHeld DEF MayChange, Ruled, Holders
<1>6. /\ v \in Holders' /\ Holders' \subseteq Holders \cup {v}
      /\ \A w \in Holders : w \in Holders' \/ (Top.kind = "var" /\ w = Top.var)
      /\ Top.kind = "var" => Top.var \notin Holders' /\ Top.var \in Holders
  BY <1>2, <1>3, <1>5 DEF Holders, Moved
<1>7. /\ \A w \in Vars \ {v} : slot'[w] = slot[w]
      /\ slot'[v] = q
      /\ \A w \in Params : slot'[w] = slot[w]
  BY <1>1, <1>5, ParamsAreKept
<1>8. /\ v \in declared => o = slot[v] /\ v \in Holders
      /\ v \notin declared => o = Nil /\ v \notin Holders
      /\ o = Nil \/ Usable(mem, o)
  BY <1>2, <1>5, ChangedIsHeld DEF OldPtr, Holders
<1> HIDE DEF o, q
<1>9. /\ HeapOK(mem') /\ Sound(mem') /\ Released(mem, mem', o)
      /\ \A a \in Addrs \ {o} : mem'.cell[a] = mem.cell[a]
  BY <1>1, <1>8, FreeEffect DEF o
(* The string assigned belongs to nobody else and is not the one freed.    *)
<1>10. q \in Blocks => /\ q # o /\ q \notin mains
                       /\ \A w \in Holders' \ {v} : slot[w] # q
  <2> SUFFICES ASSUME q \in Blocks
               PROVE  /\ q # o /\ q \notin mains
                      /\ \A w \in Holders' \ {v} : slot[w] # q
    OBVIOUS
  <2>1. CASE Top.kind = "var"
    <3>1. Top.var \in Holders /\ q = slot[Top.var] /\ Top.var # v
      BY <1>2, <1>3, <1>6, <2>1
    <3>2. \A w \in Holders \ {Top.var} : slot[w] # q
      BY <3>1 DEF RInv, Apart
    <3>3. q \notin mains
      BY <3>1 DEF RInv, Apart
    <3> QED
      BY <1>6, <1>8, <2>1, <3>1, <3>2, <3>3, HeapAssumption
  <2>2. CASE Giver(Top)
    <3>1. q \notin mains /\ \A w \in Holders : slot[w] # q
      BY <1>3, <2>2 DEF q, RInv, Apart
    <3> QED
      BY <1>6, <1>8, <3>1, HeapAssumption
  <2> QED
    BY <1>3, <2>1, <2>2, HeapAssumption
<1>11. \A w \in Holders \ {v} : slot[w] \in Blocks => slot[w] # o
  BY <1>8, HeapAssumption DEF RInv, Apart
<1>12. \A b \in mains : b # o /\ mem'.cell[b] = mem.cell[b]
  <2>1. \A b \in mains : b # o
    BY <1>4, <1>8, HeapAssumption DEF RInv, Apart
  <2> QED
    BY <1>4, <1>9, <2>1
<1>13. ASSUME NEW b \in LiveBlocks(mem')
       PROVE  /\ mem'.cell[b].cap # 0
              /\ b \in mains \/ \E w \in Holders' : slot'[w] = b
  <2>1. b \in Blocks /\ b \in Addrs /\ mem'.cell[b].live
    BY DEF LiveBlocks, Addrs
  <2>2. b # o
    <3> SUFFICES ASSUME b = o PROVE FALSE
      OBVIOUS
    <3>1. mem.cell[b].cap # 0
      BY <1>8, <2>1, HeapAssumption DEF RInv, Pointers, LiveBlocks, Usable
    <3> QED
      BY <1>9, <2>1, <3>1 DEF Released
  <2>3. mem'.cell[b] = mem.cell[b] /\ b \in LiveBlocks(mem)
    BY <1>9, <2>1, <2>2 DEF LiveBlocks
  <2>4. CASE \E w \in Holders : slot[w] = b
    <3>1. PICK w \in Holders : slot[w] = b
      BY <2>4
    <3>2. w # v /\ w \in Vars
      BY <1>4, <1>8, <2>2, <3>1 DEF Holders
    <3>3. CASE w \in Holders'
      BY <1>7, <2>3, <3>1, <3>2, <3>3 DEF RInv, Pointers
    <3>4. CASE Top.kind = "var" /\ w = Top.var
      <4>1. slot'[v] = b
        BY <1>3, <1>7, <3>1, <3>4
      <4> QED
        BY <1>6, <2>3, <4>1 DEF RInv, Pointers
    <3> QED
      BY <1>6, <3>3, <3>4
  <2>5. CASE \E i \in DOMAIN est : Giver(est[i]) /\ est[i].ptr = b
    <3>1. slot'[v] = b
      BY <1>3, <1>7, <2>5 DEF q
    <3> QED
      BY <1>6, <2>3, <3>1 DEF RInv, Pointers
  <2> QED
    BY <1>4, <2>1, <2>3, <2>4, <2>5, HeapAssumption DEF RInv, Owned, Pointers
<1>14. Usable(mem', q)
  <2>1. CASE q \in Lits
    BY <1>9, <2>1, LitIsUsable
  <2>2. CASE q \in Blocks
    BY <1>3, <1>9, <1>10, <2>2 DEF Usable
  <2> QED
    BY <1>3, <2>1, <2>2 DEF Usable, Addrs
<1>15. ASSUME NEW w \in Holders'
       PROVE  /\ slot'[w] = Nil \/ Usable(mem', slot'[w])
              /\ slot'[w] \in Blocks => slot'[w] \notin mains
              /\ \A u \in Holders' : slot'[u] = slot'[w] /\ slot'[u] \in Blocks => u = w
  <2>1. Holders' \ {v} \subseteq Holders /\ Holders' \ {v} \subseteq Vars \ {v}
    BY <1>4, <1>6 DEF Holders
  <2>2. \A u \in Holders' \ {v} : slot'[u] = slot[u]
    BY <1>7, <2>1
  <2>3. CASE w = v
    BY <1>7, <1>10, <1>14, <2>2, <2>3
  <2>4. CASE w # v
    <3>1. slot'[w] = slot[w] /\ w \in Holders \ {v}
      BY <2>1, <2>2, <2>4
    <3>2. slot[w] = Nil \/ Usable(mem', slot[w])
      <4>1. CASE slot[w] \in Lits
        BY <1>9, <4>1, LitIsUsable
      <4>2. CASE slot[w] \in Blocks
        <5>1. mem'.cell[slot[w]] = mem.cell[slot[w]] /\ slot[w] \in Addrs
          BY <1>4, <1>9, <1>11, <3>1, <4>2
        <5> QED
          BY <3>1, <4>2, <5>1, HeapAssumption DEF RInv, Pointers, Usable
      <4> QED
        BY <3>1, <4>1, <4>2 DEF RInv, Pointers, Usable, Addrs
    <3>3. slot[w] \in Blocks => slot[w] \notin mains
      BY <3>1 DEF RInv, Apart
    <3>4. slot[w] \in Blocks => slot'[v] # slot[w]
      BY <1>7, <1>10, <2>4
    <3>5. \A u \in Holders' : slot'[u] = slot[w] /\ slot[w] \in Blocks => u = w
      BY <2>1, <2>2, <3>1, <3>4 DEF RInv, Apart
    <3> QED
      BY <3>1, <3>2, <3>3, <3>5
  <2> QED
    BY <2>3, <2>4
<1>16. destroyed' \subseteq declared'
  BY <1>2, <1>3, <1>4
<1> QED
  BY <1>1, <1>2, <1>7, <1>9, <1>12, <1>13, <1>15, <1>16, Settled

LEMMA PlusAssignRenews ==
  ASSUME Ruled, IInv, RInv, NEW v \in Vars, PlusAssign(v)
  PROVE  RenewedTo(v, Joined(TextIn(mem, slot[v]), mem.cell[Top.ptr].text))
<1>1. /\ flow = "body" /\ Sound(mem) /\ HeapOK(mem)
      /\ \A m : Run(m) => mem' = m
      /\ \A p : Update(v, p) => slot' = [slot EXCEPT ![v] = p]
  BY Executes DEF PlusAssign, IInv
<1>2. /\ Len(est) = 1 /\ mode = "stmt" /\ est' = <<>>
      /\ UNCHANGED <<declared, destroyed, control, caller>>
      /\ v \in declared /\ MayChange(v)
      /\ Top.var # v /\ Top.kind \notin {"temp", "new"}
      /\ Top.kind = "const" => slot[v] # Nil
  BY <1>1, Executes DEF PlusAssign, MayAppend, MayUse, Ruled
<1> DEFINE p == slot[v]
           q == Top.ptr
<1>3. /\ DOMAIN est = {1} /\ Top = est[1] /\ Usable(mem, q) /\ ~Giver(Top)
      /\ Top.kind \in {"var", "const"}
      /\ Top.kind = "const" => q \in Lits
      /\ Top.kind = "var" => Top.var \in declared \ Moved /\ q = slot[Top.var]
  BY <1>2, StatementOperand
<1>4. v \in Holders /\ (p = Nil \/ Usable(mem, p))
  BY <1>2, ChangedIsHeld
<1>5. PICK b \in FreeBlocks(mem) :
        IF Top.kind = "const"
        THEN /\ Run(Concat(mem, b, p, q, TRUE, FALSE))
             /\ Update(v, b)
        ELSE /\ Run(AppendStr(mem, b, p, q))
             /\ Update(v, IF Usable(mem, q)
                          THEN ExtendedPtr(mem, b, p, mem.cell[q].len)
                          ELSE p)
  BY DEF PlusAssign
<1>6. CASE Top.kind = "const"
  <2> DEFINE yes == TRUE
             no  == FALSE
  <2>1. /\ yes \in BOOLEAN /\ no \in BOOLEAN /\ yes /\ ~no
        /\ mem' = Concat(mem, b, p, q, yes, no)
        /\ slot' = [slot EXCEPT ![v] = b]
    BY <1>1, <1>5, <1>6
  <2>2. Usable(mem, p)
    BY <1>2, <1>4, <1>6
  <2>6. yes /\ no /\ p = q => mem.cell[p].cap = 0
    BY <2>1
  <2> HIDE DEF yes, no, p, q
  <2>3. /\ HeapOK(mem') /\ Sound(mem') /\ mem'.cell[b].live /\ mem'.cell[b].cap # 0
        /\ mem'.cell[b].text = Joined(mem.cell[p].text, mem.cell[q].text)
        /\ \A a \in Addrs \ {b} :
             IF (yes /\ a = p) \/ (no /\ a = q) THEN Released(mem, mem', a)
             ELSE mem'.cell[a] = mem.cell[a]
    <3>1. /\ HeapOK(mem) /\ Sound(mem) /\ Usable(mem, p) /\ Usable(mem, q)
          /\ yes \in BOOLEAN /\ no \in BOOLEAN /\ mem' = Concat(mem, b, p, q, yes, no)
      BY <1>1, <1>3, <2>1, <2>2
    <3> QED
      BY ONLY <2>6, <3>1, b \in FreeBlocks(mem), ConcatEffect
  <2>4. b \in Blocks /\ p # b /\ p \in Addrs
    BY <2>2 DEF FreeBlocks, Usable
  <2>5. Renewed(mem, mem', p, b)
    BY <2>1, <2>3, <2>4 DEF Renewed
  <2>7. mem'.cell[b].text = Joined(TextIn(mem, slot[v]), mem.cell[Top.ptr].text)
    BY <2>3, <2>4 DEF TextIn, p, q
  <2> QED
    BY <1>1, <1>2, <1>3, <1>4, <2>1, <2>4, <2>5, <2>7 DEF p, RenewedTo
<1>7. CASE Top.kind = "var"
  <2> DEFINE r == ExtendedPtr(mem, b, p, mem.cell[q].len)
  <2>1. mem' = AppendStr(mem, b, p, q) /\ slot' = [slot EXCEPT ![v] = r]
    BY <1>1, <1>3, <1>5, <1>7
  <2>2. p = q => mem.cell[q].cap = 0
    <3>1. CASE q \in Lits
      BY <1>1, <3>1, LitIsUsable
    <3>2. CASE q \in Blocks
      <4>1. Top.var \in Holders \/ Top.var \in Params
        BY <1>3, <1>7 DEF Holders, Moved
      <4>2. CASE Top.var \in Holders
        BY <1>2, <1>3, <1>4, <1>7, <3>2, <4>2 DEF RInv, Apart
      <4>3. CASE Top.var \in Params
        <5>1. slot[Top.var] \in Lits \cup mains
          BY <1>1, <4>3 DEF RInv, Pointers
        <5>2. q \in mains
          BY <1>3, <1>7, <3>2, <5>1, HeapAssumption
        <5> QED
          BY <1>4, <3>2, <5>2 DEF RInv, Apart
      <4> QED
        BY <4>1, <4>2, <4>3
    <3> QED
      BY <1>3, <3>1, <3>2 DEF Usable, Addrs
  <2>3. /\ Renewed(mem, mem', p, r)
        /\ mem'.cell[r].text = Joined(TextIn(mem, p), mem.cell[q].text)
    BY <1>1, <1>3, <1>4, <2>1, <2>2, AppendStrEffect
  <2> HIDE DEF r
  <2>4. r \in Blocks
    BY <2>3 DEF Renewed
  <2> QED
    BY <1>1, <1>2, <1>3, <1>4, <2>1, <2>3, <2>4 DEF RenewedTo
<1> QED
  BY <1>3, <1>6, <1>7

LEMMA PlusAssignCharRenews ==
  ASSUME Ruled, IInv, RInv, NEW v \in Vars, NEW c \in Chars, PlusAssignChar(v, c)
  PROVE  RenewedTo(v, Joined(TextIn(mem, slot[v]), <<Chunk(c)>>))
<1>1. /\ flow = "body" /\ Sound(mem) /\ HeapOK(mem)
      /\ \A m : Run(m) => mem' = m
      /\ \A p : Update(v, p) => slot' = [slot EXCEPT ![v] = p]
  BY Executes DEF PlusAssignChar, IInv
<1>2. /\ est = <<>> /\ mode = "stmt" /\ est' = <<>>
      /\ UNCHANGED <<declared, destroyed, control, caller>>
      /\ v \in declared /\ MayChange(v)
  BY DEF PlusAssignChar
<1>3. v \in Holders /\ (slot[v] = Nil \/ Usable(mem, slot[v]))
  BY <1>2, ChangedIsHeld
<1>4. PICK b \in FreeBlocks(mem) :
        /\ Run(AppendChar(mem, b, slot[v], c))
        /\ Update(v, ExtendedPtr(mem, b, slot[v], 1))
  BY DEF PlusAssignChar
<1> DEFINE r == ExtendedPtr(mem, b, slot[v], 1)
<1>5. mem' = AppendChar(mem, b, slot[v], c) /\ slot' = [slot EXCEPT ![v] = r]
  BY <1>1, <1>4
<1>6. /\ Renewed(mem, mem', slot[v], r)
      /\ mem'.cell[r].text = Joined(TextIn(mem, slot[v]), <<Chunk(c)>>)
  BY <1>1, <1>3, <1>5, AppendCharEffect
<1>7. DOMAIN est = {}
  BY <1>2, EmptySeq, LenProperties
<1> HIDE DEF r
<1>8. r \in Blocks
  BY <1>6 DEF Renewed
<1> QED
  BY <1>1, <1>2, <1>3, <1>5, <1>6, <1>7, <1>8 DEF RenewedTo

LEMMA AssignCharRenews ==
  ASSUME Ruled, IInv, RInv, NEW v \in Vars, NEW i \in Indices, AssignChar(v, i)
  PROVE  RenewedTo(v, Overwritten(mem.cell[slot[v]].text, i))
<1>1. /\ flow = "body" /\ Sound(mem) /\ HeapOK(mem) /\ Executing
      /\ \A m : Run(m) => mem' = m
      /\ \A p : Update(v, p) => slot' = [slot EXCEPT ![v] = p]
  BY Executes DEF AssignChar, IInv
<1>2. /\ est = <<>> /\ mode = "stmt" /\ est' = <<>>
      /\ UNCHANGED <<declared, destroyed, control, caller>>
      /\ v \in declared /\ MayChange(v) /\ slot[v] # Nil
  BY <1>1 DEF AssignChar, MayUse, Ruled
<1>3. v \in Holders /\ Usable(mem, slot[v])
  BY <1>2, ChangedIsHeld
<1>4. PICK b \in FreeBlocks(mem) :
        /\ Run(Writable(v, b, i))
        /\ Update(v, CopiedPtr(mem, b, slot[v]))
  BY DEF AssignChar
<1> DEFINE r == CopiedPtr(mem, b, slot[v])
<1>5. mem' = Writable(v, b, i) /\ slot' = [slot EXCEPT ![v] = r]
  BY <1>1, <1>4
<1>9. i \in Int /\ 0 <= i /\ i < mem.cell[slot[v]].len
  <2>1. ~(i < 0 \/ i >= mem.cell[slot[v]].len)
    BY <1>1, <1>3 DEF AssignChar, MayStore, Ruled
  <2>2. i \in Int /\ mem.cell[slot[v]].len \in Nat
    BY <1>1, <1>3, CellOfAddr, OwnershipAssumption DEF Usable
  <2> QED
    BY <2>1, <2>2
<1>6. /\ Renewed(mem, mem', slot[v], r)
      /\ mem'.cell[r].text = Overwritten(mem.cell[slot[v]].text, i)
  BY <1>1, <1>3, <1>5, <1>9, WritableEffect
<1>7. DOMAIN est = {}
  BY <1>2, EmptySeq, LenProperties
<1> HIDE DEF r
<1>8. r \in Blocks
  BY <1>6 DEF Renewed
<1> QED
  BY <1>1, <1>2, <1>3, <1>5, <1>6, <1>7, <1>8 DEF RenewedTo

LEMMA CompareLitRule ==
  ASSUME Ruled, IInv, RInv, CompareLit
  PROVE  RInv'
<1>1. /\ flow = "body" /\ Sound(mem) /\ HeapOK(mem) /\ mem' = Borrow(mem, Top)
  BY Executes DEF CompareLit, IInv
<1>2. /\ Len(est) = 1 /\ mode = "stmt" /\ est' = <<>>
      /\ UNCHANGED <<slot, declared, destroyed, control, caller>>
      /\ Top.kind # "const" /\ Top.kind # "new"
  BY DEF CompareLit, Ruled
<1> DEFINE p == Top.ptr
<1>3. /\ DOMAIN est = {1} /\ Top = est[1] /\ Usable(mem, p)
      /\ Giver(Top) <=> Top.kind = "temp"
  BY <1>2, StatementOperand
<1>4. mem' = IF Top.kind = "temp" THEN FreeString(mem, p) ELSE mem
  BY <1>1, <1>3 DEF Borrow, FreeTemp
<1> HIDE DEF p
<1>5. /\ HeapOK(mem') /\ Sound(mem')
      /\ \A a \in Addrs \ {p} : mem'.cell[a] = mem.cell[a]
      /\ IF Top.kind = "temp" THEN Released(mem, mem', p) ELSE mem' = mem
  <2>1. CASE Top.kind = "temp"
    BY <1>1, <1>3, <1>4, <2>1, FreeEffect
  <2>2. CASE Top.kind # "temp"
    BY <1>1, <1>4, <2>2
  <2> QED
    BY <2>1, <2>2
<1>6. /\ destroyed \subseteq declared /\ result = Nil /\ mains \subseteq Blocks
      /\ Blocks \subseteq Addrs
  BY <1>1 DEF RInv, Stage, IInv, TypeOK, Addrs
<1>7. Holders' = Holders /\ slot' = slot
  BY <1>2 DEF Holders
<1>8. /\ \A v \in Holders : slot[v] \in Blocks => mem'.cell[slot[v]] = mem.cell[slot[v]]
      /\ \A b \in mains : mem'.cell[b] = mem.cell[b]
  <2>1. CASE Top.kind = "temp" /\ p \in Blocks
    <3>1. p \notin mains /\ \A v \in Holders : slot[v] # p
      BY <1>3, <2>1 DEF p, RInv, Apart
    <3> QED
      BY <1>5, <1>6, <3>1
  <2>2. CASE Top.kind # "temp" \/ p \notin Blocks
    BY <1>5, <1>6, <2>2
  <2> QED
    BY <2>1, <2>2
<1>9. ASSUME NEW b \in LiveBlocks(mem')
      PROVE  mem'.cell[b].cap # 0 /\ (b \in mains \/ \E v \in Holders' : slot'[v] = b)
  <2>1. b \in Blocks /\ b \in Addrs /\ mem'.cell[b].live
    BY DEF LiveBlocks, Addrs
  <2>2. mem'.cell[b] = mem.cell[b] /\ b \in LiveBlocks(mem) /\ mem.cell[b].cap # 0
    <3>1. CASE b = p
      <4>1. b \in LiveBlocks(mem) /\ mem.cell[b].cap # 0
        BY <1>3, <2>1, <3>1 DEF LiveBlocks, Usable, RInv, Pointers
      <4> QED
        BY <1>5, <2>1, <3>1, <4>1 DEF Released
    <3>2. CASE b # p
      BY <1>5, <2>1, <3>2 DEF LiveBlocks, RInv, Pointers
    <3> QED
      BY <3>1, <3>2
  <2>3. ~\E i \in DOMAIN est : Giver(est[i]) /\ est[i].ptr = b
    <3> SUFFICES ASSUME Giver(Top), p = b PROVE FALSE
      BY <1>3 DEF p
    <3> QED
      BY <1>3, <1>5, <2>1, <2>2 DEF Released
  <2>4. b \in mains \/ \E v \in Holders : slot[v] = b
    BY <1>6, <2>1, <2>2, <2>3, HeapAssumption DEF RInv, Owned
  <2> QED
    BY <1>7, <2>2, <2>4
<1>10. \A v \in Holders : slot[v] = Nil \/ Usable(mem', slot[v])
  <2> SUFFICES ASSUME NEW v \in Holders PROVE slot[v] = Nil \/ Usable(mem', slot[v])
    OBVIOUS
  <2>1. CASE slot[v] \in Lits
    BY <1>5, <2>1, LitIsUsable
  <2>2. CASE slot[v] \in Blocks
    BY <1>8, <2>2, HeapAssumption DEF RInv, Pointers, Usable
  <2> QED
    BY <2>1, <2>2 DEF RInv, Pointers, Usable, Addrs
<1>11. /\ \A u, w \in Holders : slot[u] = slot[w] /\ slot[u] \in Blocks => u = w
       /\ \A w \in Holders : slot[w] \in Blocks => slot[w] \notin mains
  BY DEF RInv, Apart
<1>12. destroyed' \subseteq declared' /\ UNCHANGED <<control, caller>> /\ \A v \in Params : slot'[v] = slot[v]
  BY <1>2, <1>6
<1> QED
  BY <1>1, <1>2, <1>5, <1>7, <1>8, <1>9, <1>10, <1>11, <1>12, Settled

(* Nothing is freed under the rules: both operands are variables.          *)
LEMMA CompareStringsRule ==
  ASSUME Ruled, IInv, RInv, CompareStrings
  PROVE  RInv'
<1>1. flow = "body" /\ Sound(mem) /\ HeapOK(mem) /\ Executing
  BY Executes DEF CompareStrings, IInv
<1>2. /\ Len(est) = 2 /\ mode = "stmt" /\ est' = <<>>
      /\ UNCHANGED <<slot, declared, destroyed, control, caller>>
      /\ Top.kind \notin {"const", "temp", "new"}
      /\ Below.kind \notin {"const", "temp", "new"}
  BY DEF CompareStrings, Ruled
<1>3. DOMAIN est = {1, 2} /\ Top = est[2] /\ Below = est[1]
  BY <1>2, LastOperands DEF Top, Below
<1>4. Usable(mem, Top.ptr) /\ Usable(mem, Below.ptr)
  BY <1>3 DEF RInv, Pointers
<1>5. mem' = mem
  BY <1>1, <1>2, <1>4 DEF CompareStrings, Run
<1>6. \A i \in DOMAIN est : ~Giver(est[i])
  <2>1. \A i \in DOMAIN est : est[i].kind \notin {"temp", "new"}
    BY <1>2, <1>3
  <2> QED
    BY <1>2, <2>1 DEF RInv, Stage, Giver
<1>7. destroyed \subseteq declared /\ result = Nil
  BY <1>1 DEF RInv, Stage
<1>8. Holders' = Holders /\ slot' = slot
  BY <1>2 DEF Holders
<1>9. \A b \in LiveBlocks(mem) :
        mem.cell[b].cap # 0 /\ (b \in mains \/ \E v \in Holders : slot[v] = b)
  BY <1>6, <1>7, HeapAssumption DEF RInv, Pointers, Owned, LiveBlocks
<1>10. /\ \A v \in Holders : slot[v] = Nil \/ Usable(mem, slot[v])
       /\ \A u, w \in Holders : slot[u] = slot[w] /\ slot[u] \in Blocks => u = w
       /\ \A w \in Holders : slot[w] \in Blocks => slot[w] \notin mains
  BY DEF RInv, Pointers, Apart
<1>11. destroyed' \subseteq declared' /\ UNCHANGED <<control, caller>>
       /\ \A v \in Params : slot'[v] = slot[v]
  BY <1>2, <1>7
<1> QED
  BY <1>1, <1>2, <1>5, <1>8, <1>9, <1>10, <1>11, Settled

-----------------------------------------------------------------------------
(* Return and the end of the program.                                      *)

LEMMA BeginReturnRule ==
  ASSUME Ruled, IInv, RInv, BeginReturn
  PROVE  RInv'
<1>1. flow = "body" /\ Sound(mem)
  BY Executes DEF BeginReturn
<1>2. /\ est = <<>> /\ mode' = "returning" /\ skip' = FALSE
      /\ UNCHANGED <<mem, slot, declared, destroyed, est, flow, caller>>
  BY DEF BeginReturn, Ruled
<1>3. /\ DOMAIN est = {} /\ Holders' = Holders /\ Moved' = Moved
      /\ result' = result /\ mains' = mains /\ exit' = exit
  BY <1>2, EmptySeq, LenProperties DEF Holders, Moved, caller
<1>4. Pointers' /\ Owned' /\ Apart'
  BY <1>2, <1>3 DEF RInv, Pointers, Owned, Apart
<1>5. Stage'
  BY <1>1, <1>2, <1>3 DEF RInv, Stage
<1> QED
  BY <1>1, <1>2, <1>4, <1>5 DEF RInv

(* The string returned is no longer anybody's operand or variable.         *)
LEMMA FinishReturnRule ==
  ASSUME Ruled, IInv, RInv, NEW last \in BOOLEAN, FinishReturn(last)
  PROVE  RInv'
<1>1. flow = "body" /\ Sound(mem) /\ Executing
  BY Executes DEF FinishReturn
<1>2. /\ Len(est) = 1 /\ mode # "stmt" /\ Top.var \notin Params
      /\ result' = Top.ptr /\ flow' = "label"
      /\ est' = <<>> /\ mode' = "stmt" /\ skip' = FALSE
      /\ UNCHANGED <<mem, slot, declared, destroyed, mains, exit>>
  BY <1>1 DEF FinishReturn, Ruled
<1>3. /\ DOMAIN est = {1} /\ Top = est[1] /\ Usable(mem, Top.ptr)
      /\ Top.kind \in {"var", "const", "temp", "new"}
      /\ mode \in {"returning", "returned"}
  BY <1>2, LastOperands, OperandIsValue DEF Top, RInv, Pointers, IInv, TypeOK
<1>4. Giver(Top) \/ Top.ptr \in Lits
  <2>1. CASE Top.kind = "var"
    <3>1. Top.var \in destroyed
      BY <1>2, <1>3, <2>1 DEF RInv, Stage
    <3> QED
      BY <1>2, <3>1 DEF Giver, Moved
  <2>2. CASE Top.kind = "const"
    BY <1>3, <2>2 DEF RInv, Pointers
  <2> QED
    BY <1>3, <2>1, <2>2 DEF Giver
<1>5. DOMAIN est' = {} /\ Holders' = Holders
  BY <1>2, EmptySeq, LenProperties DEF Holders
<1>6. result = Nil /\ mains \subseteq Blocks
  BY <1>1 DEF RInv, Stage, IInv, TypeOK
<1>7. Pointers'
  BY <1>1, <1>2, <1>3, <1>5 DEF RInv, Pointers
<1>8. Owned'
  BY <1>2, <1>3, <1>5, <1>6, HeapAssumption DEF RInv, Owned, LiveBlocks
<1>9. Apart'
  <2>1. \A v \in Holders : slot[v] \in Blocks => slot[v] # Top.ptr
    BY <1>3, <1>4, HeapAssumption DEF RInv, Apart
  <2>2. Top.ptr \notin mains
    BY <1>3, <1>4, <1>6, HeapAssumption DEF RInv, Apart
  <2> QED
    BY <1>2, <1>5, <2>1, <2>2 DEF RInv, Apart
<1>10. Stage'
  BY <1>2 DEF Stage
<1> QED
  BY <1>1, <1>2, <1>7, <1>8, <1>9, <1>10 DEF RInv

LEMMA CloseBodyRule ==
  ASSUME IInv, RInv, CloseBody
  PROVE  RInv'
<1>1. flow = "body" /\ Sound(mem)
  BY Executes DEF CloseBody
<1>2. /\ est = <<>> /\ flow' = "label" /\ mode = "stmt"
      /\ UNCHANGED <<mem, slot, declared, destroyed, est, mode, skip, caller>>
  BY DEF CloseBody
<1>3. /\ Holders' = Holders /\ Moved' = Moved
      /\ result' = result /\ mains' = mains /\ exit' = exit
  BY <1>2 DEF Holders, Moved, caller
<1>4. \A y : Giver(y)' <=> Giver(y)
  BY <1>3 DEF Giver
<1>5. Pointers' /\ Owned' /\ Apart'
  BY <1>1, <1>2, <1>3, <1>4 DEF RInv, Pointers, Owned, Apart
<1>6. DOMAIN est = {}
  BY <1>2, EmptySeq, LenProperties
<1>7. Stage'
  BY <1>1, <1>2, <1>3, <1>6 DEF RInv, Stage
<1> QED
  BY <1>1, <1>2, <1>5, <1>7 DEF RInv

LEMMA FreeLocalRule ==
  ASSUME IInv, RInv, NEW v \in Locals, FreeLocal(v)
  PROVE  RInv'
<1>1. /\ flow = "label" /\ Sound(mem) /\ HeapOK(mem) /\ v \in declared \ Params
      /\ mem' = IF v \in destroyed THEN mem ELSE FreeString(mem, slot[v])
      /\ declared' = declared \ {v} /\ slot' = [slot EXCEPT ![v] = Uninit]
      /\ UNCHANGED <<destroyed, est, control, caller>>
  BY DEF FreeLocal, IInv
<1>2. /\ est = <<>> /\ DOMAIN est = {} /\ ~skip /\ mode # "returned"
      /\ mains \subseteq Blocks /\ Blocks \subseteq Addrs /\ declared \subseteq Vars
      /\ flow' = "label" /\ mode' = mode /\ skip' = skip /\ result' = result /\ mains' = mains
  BY <1>1, EmptySeq, LenProperties DEF RInv, Stage, IInv, TypeOK, Addrs, control, caller
<1>3. Holders' = Holders \ {v} /\ (v \in Holders <=> v \notin destroyed) /\ Holders \subseteq Vars
  BY <1>1, <1>2 DEF Holders
<1>4. \A w \in Vars \ {v} : slot'[w] = slot[w]
  BY <1>1, ParamsAreKept
<1> DEFINE o == IF v \in destroyed THEN Nil ELSE slot[v]
<1>5. /\ o = Nil \/ Usable(mem, o)
      /\ mem' = FreeString(mem, o)
      /\ v \in Holders => o = slot[v]
      /\ v \notin Holders => o = Nil
  BY <1>1, <1>3 DEF RInv, Pointers, FreeString
<1> HIDE DEF o
<1>6. /\ HeapOK(mem') /\ Sound(mem') /\ Released(mem, mem', o)
      /\ \A a \in Addrs \ {o} : mem'.cell[a] = mem.cell[a]
  BY <1>1, <1>5, FreeEffect
<1>7. /\ \A w \in Holders \ {v} : slot[w] \in Blocks => slot[w] # o
      /\ result \in Blocks => result # o
      /\ \A b \in mains : b # o
  BY <1>2, <1>5, HeapAssumption DEF RInv, Apart
<1>8. ASSUME NEW b \in LiveBlocks(mem')
      PROVE  b # o /\ b \in LiveBlocks(mem) /\ mem'.cell[b] = mem.cell[b]
  <2>1. b \in Blocks /\ b \in Addrs /\ mem'.cell[b].live
    BY DEF LiveBlocks, Addrs
  <2>2. b # o
    <3> SUFFICES ASSUME b = o PROVE FALSE
      OBVIOUS
    <3>1. mem.cell[b].cap # 0
      BY <1>5, <2>1, HeapAssumption DEF RInv, Pointers, LiveBlocks, Usable
    <3> QED
      BY <1>6, <2>1, <3>1 DEF Released
  <2> QED
    BY <1>6, <2>1, <2>2 DEF LiveBlocks
<1>9. Owned'
  <2> SUFFICES ASSUME NEW b \in LiveBlocks(mem')
               PROVE  (\E w \in Holders' : slot'[w] = b) \/ result = b \/ b \in mains
    BY <1>2 DEF Owned
  <2>1. (\E w \in Holders : slot[w] = b) \/ result = b \/ b \in mains
    BY <1>2, <1>8 DEF RInv, Owned
  <2>2. ASSUME NEW w \in Holders, slot[w] = b PROVE w \in Holders' /\ slot'[w] = b
    BY <1>3, <1>4, <1>5, <1>8, <2>2
  <2> QED
    BY <2>1, <2>2
<1>10. Pointers'
  <2>1. \A b \in LiveBlocks(mem') : mem'.cell[b].cap # 0
    BY <1>8 DEF RInv, Pointers
  <2>2. \A p : (p \in Blocks => p # o) /\ Usable(mem, p) => Usable(mem', p)
    BY <1>6, LitIsUsable DEF Usable, Addrs
  <2>3. \A w \in Holders' : slot'[w] = Nil \/ Usable(mem', slot'[w])
    BY <1>3, <1>4, <1>7, <2>2 DEF RInv, Pointers
  <2>4. result = Nil \/ Usable(mem', result)
    BY <1>7, <2>2 DEF RInv, Pointers
  <2>5. \A b \in mains : mem'.cell[b] = ArgCell
    BY <1>2, <1>6, <1>7 DEF RInv, Pointers
  <2>6. \A w \in Params : slot'[w] \in Lits \cup mains
    <3>1. \A w \in Params : w \in Vars \ {v} /\ slot[w] \in Lits \cup mains
      BY <1>1 DEF RInv, Pointers, Vars
    <3> QED
      BY <1>4, <3>1
  <2> QED
    BY <1>1, <1>2, <2>1, <2>3, <2>4, <2>5, <2>6 DEF Pointers
<1>11. Apart'
  <2>1. \A w \in Holders' : w \in Holders /\ slot'[w] = slot[w]
    BY <1>3, <1>4
  <2> QED
    BY <1>1, <1>2, <2>1 DEF RInv, Apart
<1>12. Stage'
  BY <1>1, <1>2 DEF Stage
<1> QED
  BY <1>6, <1>9, <1>10, <1>11, <1>12 DEF RInv

LEMMA LeaveRule ==
  ASSUME IInv, RInv, Leave
  PROVE  RInv'
<1>1. /\ flow = "label" /\ flow' = "main" /\ declared \subseteq Params
      /\ UNCHANGED <<mem, slot, declared, destroyed, est, mode, skip, caller>>
  BY DEF Leave
<1>2. /\ Holders' = Holders /\ Moved' = Moved
      /\ result' = result /\ mains' = mains /\ exit' = exit
  BY <1>1 DEF Holders, Moved, caller
<1>3. \A y : Giver(y)' <=> Giver(y)
  BY <1>2 DEF Giver
<1>4. Pointers' /\ Owned' /\ Apart'
  BY <1>1, <1>2, <1>3 DEF RInv, Pointers, Owned, Apart
<1>5. Stage'
  BY <1>1, <1>2 DEF RInv, Stage
<1>6. Sound(mem)
  BY DEF RInv
<1> QED
  BY <1>1, <1>4, <1>5, <1>6 DEF RInv

(* Once the locals are gone the live blocks are main's and the result.     *)
LEMMA OnlyMains ==
  ASSUME IInv, RInv, flow \in {"main", "exiting"}
  PROVE  /\ est = <<>> /\ DOMAIN est = {} /\ Holders = {} /\ mode # "returned" /\ ~skip
         /\ declared \subseteq Params
         /\ mains \subseteq Blocks /\ Blocks \subseteq Addrs
         /\ \A b \in LiveBlocks(mem) : b = result \/ b \in mains
<1>1. /\ est = <<>> /\ mode # "returned" /\ ~skip /\ declared \subseteq Params
      /\ mains \subseteq Blocks /\ Blocks \subseteq Addrs
  BY DEF RInv, Stage, IInv, TypeOK, Addrs
<1>2. DOMAIN est = {} /\ Holders = {}
  BY <1>1, EmptySeq, LenProperties DEF Holders
<1> QED
  BY <1>1, <1>2 DEF RInv, Owned

(* main frees a string that is not, or no longer, one of its others.       *)
LEMMA MainRule ==
  ASSUME IInv, RInv, flow \in {"main", "exiting"}, NEW p,
         p = Nil \/ Usable(mem, p), mem' = FreeString(mem, p),
         result = Nil \/ result = p, result' = Nil,
         mains' = mains \ {p},
         flow' = "exiting",
         UNCHANGED <<slot, declared, destroyed, est, mode, skip, exit>>
  PROVE  RInv'
<1>1. /\ est = <<>> /\ DOMAIN est = {} /\ Holders = {} /\ mode # "returned" /\ ~skip
      /\ declared \subseteq Params /\ mains \subseteq Blocks /\ Blocks \subseteq Addrs
      /\ \A b \in LiveBlocks(mem) : b = result \/ b \in mains
  BY OnlyMains
<1>2. Sound(mem) /\ HeapOK(mem)
  BY DEF RInv, IInv
<1>3. /\ HeapOK(mem') /\ Sound(mem') /\ Released(mem, mem', p)
      /\ \A a \in Addrs \ {p} : mem'.cell[a] = mem.cell[a]
  BY <1>2, FreeEffect
<1>4. ASSUME NEW b \in LiveBlocks(mem')
      PROVE  b # p /\ b \in LiveBlocks(mem) /\ mem'.cell[b] = mem.cell[b]
  <2>1. b \in Blocks /\ b \in Addrs /\ mem'.cell[b].live
    BY DEF LiveBlocks, Addrs
  <2>2. b # p
    <3> SUFFICES ASSUME b = p PROVE FALSE
      OBVIOUS
    <3>1. mem.cell[b].cap # 0
      BY <2>1, HeapAssumption DEF RInv, Pointers, LiveBlocks, Usable
    <3> QED
      BY <1>3, <2>1, <3>1 DEF Released
  <2> QED
    BY <1>3, <2>1, <2>2 DEF LiveBlocks
<1>5. Holders' = {}
  BY <1>1 DEF Holders
<1>6. Owned'
  BY <1>1, <1>4, HeapAssumption DEF Owned, LiveBlocks
<1>7. Pointers'
  <2>1. \A b \in LiveBlocks(mem') : mem'.cell[b].cap # 0
    BY <1>4 DEF RInv, Pointers
  <2>2. \A b \in mains \ {p} : mem'.cell[b] = ArgCell
    BY <1>1, <1>3 DEF RInv, Pointers
  <2> QED
    BY <1>1, <1>5, <2>1, <2>2 DEF Pointers
<1>8. Apart'
  BY <1>1, <1>5, HeapAssumption DEF Apart
<1>9. Stage'
  BY <1>1 DEF Stage
<1> QED
  BY <1>3, <1>6, <1>7, <1>8, <1>9 DEF RInv

LEMMA MainFreesResultRule ==
  ASSUME IInv, RInv, MainFreesResult
  PROVE  RInv'
<1>1. /\ flow = "main" /\ mem' = FreeString(mem, result) /\ result' = Nil
      /\ flow' = "exiting"
      /\ UNCHANGED <<slot, declared, destroyed, est, mode, skip, mains, exit>>
  BY DEF MainFreesResult
<1>2. result = Nil \/ Usable(mem, result)
  BY DEF RInv, Pointers
<1>3. mains' = mains \ {result}
  BY <1>1 DEF RInv, Apart
<1> QED
  BY <1>1, <1>2, <1>3, MainRule

LEMMA MainFreesRule ==
  ASSUME IInv, RInv, NEW b \in Blocks, MainFrees(b)
  PROVE  RInv'
<1>1. /\ flow = "exiting" /\ flow' = "exiting" /\ b \in mains
      /\ mem' = FreeString(mem, b) /\ mains' = mains \ {b} /\ result' = result
      /\ UNCHANGED <<slot, declared, destroyed, est, mode, skip, exit>>
  BY DEF MainFrees, control
<1>2. Usable(mem, b)
  BY <1>1 DEF RInv, Pointers, ArgCell, Usable, Addrs
<1>3. result = Nil
  BY <1>1 DEF RInv, Stage
<1> QED
  BY <1>1, <1>2, <1>3, MainRule

LEMMA EpilogueRule ==
  ASSUME IInv, RInv, Epilogue
  PROVE  RInv'
<1>1. /\ flow = "exiting" /\ Sound(mem) /\ mains = {} /\ flow' = "ended"
      /\ exit' = IF mem.count # 0 THEN 97 ELSE 0
      /\ UNCHANGED <<mem, slot, declared, destroyed, est, mode, skip, result, mains>>
  BY DEF Epilogue
<1>2. /\ Holders = {} /\ DOMAIN est = {} /\ est = <<>> /\ mode # "returned" /\ ~skip
      /\ declared \subseteq Params
      /\ \A b \in LiveBlocks(mem) : b = result \/ b \in mains
  BY <1>1, OnlyMains
<1>3. result = Nil
  BY <1>1 DEF RInv, Stage
<1>4. LiveBlocks(mem) = {}
  BY <1>1, <1>2, <1>3, HeapAssumption DEF LiveBlocks
<1>5. exit' = 0
  BY <1>1, <1>4, NothingLeft
<1>6. Holders' = {}
  BY <1>1, <1>2 DEF Holders
<1>7. Pointers' /\ Owned' /\ Apart'
  BY <1>1, <1>2, <1>3, <1>4, <1>6 DEF Pointers, Owned, Apart
<1>8. Stage'
  BY <1>1, <1>2, <1>3, <1>5 DEF Stage
<1> QED
  BY <1>1, <1>7, <1>8 DEF RInv

-----------------------------------------------------------------------------
(* The invariant of the programs that keep the rules.                      *)

LEMMA RInvInit == Init => RInv
<1> SUFFICES ASSUME Init PROVE RInv
  OBVIOUS
<1>1. PICK arg \in [Params -> Lits \cup Blocks] :
        /\ mains = {arg[v] : v \in Params} \cap Blocks
        /\ slot = [v \in Vars |-> IF v \in Params THEN arg[v] ELSE Uninit]
        /\ mem = [cell  |-> [a \in Addrs |-> IF a \in mains THEN ArgCell
                                             ELSE InitMem.cell[a]],
                  count |-> Cardinality(mains) * ArgCell.room,
                  fault |-> "none"]
  BY DEF Init
<1>2. /\ declared = Params /\ destroyed = {} /\ est = <<>> /\ mode = "stmt"
      /\ skip = FALSE /\ flow = "body" /\ result = Nil
  BY DEF Init
<1>3. Holders = {} /\ DOMAIN est = {} /\ mains \subseteq Blocks
  BY <1>1, <1>2, EmptySeq, LenProperties DEF Holders
<1>4. \A b \in Blocks : mem.cell[b] = IF b \in mains THEN ArgCell ELSE FreeCell
  BY <1>1, HeapAssumption DEF InitMem, Addrs
<1>5. LiveBlocks(mem) \subseteq mains
  BY <1>4 DEF LiveBlocks, FreeCell
<1>6. ArgCell.cap # 0
  <2>1. Size[ArgLit] \in Nat
    BY OwnershipAssumption, HeapAssumption
  <2>2. ArgCell.cap = Size[ArgLit] + 32
    BY DEF ArgCell
  <2> QED
    BY <2>1, <2>2
<1>7. \A v \in Params : slot[v] \in Lits \cup mains
  BY <1>1 DEF Vars
<1>8. Pointers
  BY <1>2, <1>3, <1>4, <1>5, <1>6, <1>7 DEF Pointers
<1>9. Owned
  BY <1>5 DEF Owned
<1>10. Apart
  BY <1>2, <1>3, HeapAssumption DEF Apart
<1>11. Stage
  BY <1>2, <1>3 DEF Stage
<1>12. Sound(mem)
  BY <1>1 DEF Sound
<1> QED
  BY <1>8, <1>9, <1>10, <1>11, <1>12 DEF RInv

LEMMA RInvStep ==
  ASSUME Ruled, NewHoldsBytes, IInv, RInv, [Next]_vars
  PROVE  RInv'
<1>1. CASE Operand
  <2>1. 0 \in {0, 1, 2} /\ 1 \in {0, 1, 2} /\ 2 \in {0, 1, 2}
    OBVIOUS
  <2>2. ASSUME NEW l \in Lits, Literal(l) PROVE RInv'
    BY <2>1, <2>2, LiteralEvaluates, EvaluateTo
  <2>3. ASSUME NEW l \in Lits, Call(l) PROVE RInv'
    BY <2>1, <2>3, CallEvaluates, EvaluateTo
  <2>4. ASSUME NEW n \in NewCaps, New(n) PROVE RInv'
    BY <2>1, <2>4, NewEvaluates, EvaluateTo
  <2>5. ASSUME Plus PROVE RInv'
    BY <2>1, <2>5, PlusEvaluates, EvaluateTo
  <2> QED
    BY <1>1, <2>2, <2>3, <2>4, <2>5, VariableRule DEF Operand
<1>2. CASE Statement
  <2>1. ASSUME NEW v \in Vars, PlusAssign(v) PROVE RInv'
    BY <2>1, PlusAssignRenews, RenewTo
  <2>2. ASSUME NEW v \in Vars, NEW c \in Chars, PlusAssignChar(v, c) PROVE RInv'
    BY <2>2, PlusAssignCharRenews, RenewTo
  <2>3. ASSUME NEW v \in Vars, NEW i \in Indices, AssignChar(v, i) PROVE RInv'
    BY <2>3, AssignCharRenews, RenewTo
  <2> QED
    BY <1>2, <2>1, <2>2, <2>3, AssignRule, DeclareRule, CompareLitRule,
       CompareStringsRule DEF Statement
<1>3. CASE Ending
  BY <1>3, BeginReturnRule, FinishReturnRule, CloseBodyRule, FreeLocalRule, LeaveRule,
     MainFreesResultRule, MainFreesRule, EpilogueRule DEF Ending
<1>4. CASE UNCHANGED vars
  <2>1. UNCHANGED <<mem, slot, declared, destroyed, est, mode, skip, flow, result, mains, exit>>
    BY <1>4 DEF vars, control, caller
  <2> QED
    BY <2>1 DEF RInv, Pointers, Owned, Apart, Stage, Holders, Giver, Moved
<1> QED
  BY <1>1, <1>2, <1>3, <1>4 DEF Next

(* A program that keeps the rules stays within the invariant.              *)
LEMMA RulesKept ==
  ASSUME NewHoldsBytes
  PROVE  Spec => [](IInv /\ (Ruled => RInv))
<1>1. Init => IInv /\ (Ruled => RInv)
  BY IInvInit, RInvInit
<1>2. IInv /\ (Ruled => RInv) /\ [Next]_vars => (IInv /\ (Ruled => RInv))'
  BY IInvStep, RInvStep DEF Ruled
<1> QED
  BY <1>1, <1>2, PTL DEF Spec

(* No program that keeps the ownership rules dereferences nil or a freed   *)
(* string, frees a string twice or frees an address that is not one: the   *)
(* two compile-time flags are enough to drive _free_string.                *)
THEOREM RulesPreventFaults ==
  ASSUME NewHoldsBytes
  PROVE  Spec => []NoFault
<1>1. IInv /\ (Ruled => RInv) => NoFault
  BY DEF RInv, NoFault
<1> QED
  BY <1>1, RulesKept, PTL

(* What main lent to a function that keeps the rules comes back unchanged. *)
THEOREM RulesKeepCallersStrings ==
  ASSUME NewHoldsBytes
  PROVE  Spec => []CallerIntact
<1>1. IInv /\ (Ruled => RInv) => CallerIntact
  BY DEF RInv, Pointers, CallerIntact
<1> QED
  BY <1>1, RulesKept, PTL

(* A program that keeps the rules leaks nothing: main's epilogue finds     *)
(* allocation_count at 0.                                                  *)
THEOREM RulesPreventLeaks ==
  ASSUME NewHoldsBytes
  PROVE  Spec => []ExitClean
<1>1. IInv /\ (Ruled => RInv) => ExitClean
  BY DEF RInv, Stage, ExitClean
<1> QED
  BY <1>1, RulesKept, PTL

LEMMA OneOrNone ==
  ASSUME NEW S, \A x, y \in S : x = y
  PROVE  Cardinality(S) = IF S = {} THEN 0 ELSE 1
<1>1. CASE S = {}
  BY <1>1, FS_EmptySet
<1>2. CASE S # {}
  <2>1. PICK x \in S : TRUE
    BY <1>2
  <2>2. S = {x}
    BY <2>1
  <2>3. Cardinality({x}) = 1
    BY FS_Singleton
  <2> QED
    BY <1>2, <2>2, <2>3
<1> QED
  BY <1>1, <1>2

LEMMA OwnersCounted ==
  ASSUME IInv, RInv, NEW b \in Blocks
  PROVE  Owners(b) = IF mem.cell[b].live THEN 1 ELSE 0
<1> DEFINE L == OwningLocals(b)
           O == OwningOperands(b)
<1>1. /\ \A v : v \in L <=> v \in Holders /\ slot[v] = b
      /\ \A i : i \in O <=> i \in DOMAIN est /\ Giver(est[i]) /\ est[i].ptr = b
  BY DEF OwningLocals, OwningOperands, Holders, Giver, Moved
<1> HIDE DEF L, O
<1>2. b \in Addrs /\ b # Nil
  BY HeapAssumption DEF Addrs
<1>3. /\ \A v, w \in L : v = w
      /\ \A i, j \in O : i = j
      /\ L # {} => O = {} /\ result # b /\ b \notin mains
      /\ O # {} => b \notin mains /\ result # b
      /\ result = b => b \notin mains
  <2>1. /\ \A v, w \in L : v = w
        /\ \A i, j \in O : i = j
        /\ L # {} => O = {} /\ result # b /\ b \notin mains
        /\ O # {} => b \notin mains
        /\ result = b => b \notin mains
    BY <1>1 DEF RInv, Apart
  <2>2. O # {} => result # b
    <3>1. CASE flow = "body"
      BY <1>2, <3>1 DEF RInv, Stage
    <3>2. CASE flow # "body"
      BY <1>1, <3>2, EmptySeq, LenProperties DEF RInv, Stage
    <3> QED
      BY <3>1, <3>2
  <2> QED
    BY <2>1, <2>2
<1>4. /\ L # {} => mem.cell[b].live
      /\ O # {} => mem.cell[b].live
      /\ result = b => mem.cell[b].live
      /\ b \in mains => mem.cell[b].live
  BY <1>1, <1>2 DEF RInv, Pointers, Usable, ArgCell
<1>5. mem.cell[b].live => L # {} \/ O # {} \/ result = b \/ b \in mains
  BY <1>1 DEF RInv, Owned, LiveBlocks
<1>6. /\ Cardinality(L) = IF L = {} THEN 0 ELSE 1
      /\ Cardinality(O) = IF O = {} THEN 0 ELSE 1
  BY <1>3, OneOrNone
<1>7. Owners(b) = Cardinality(L) + Cardinality(O)
                    + (IF result = b THEN 1 ELSE 0)
                    + (IF b \in mains THEN 1 ELSE 0)
  BY DEF Owners, L, O
<1>8. CASE L # {}
  BY <1>3, <1>4, <1>6, <1>7, <1>8
<1>9. CASE O # {}
  BY <1>3, <1>4, <1>6, <1>7, <1>9
<1>10. CASE L = {} /\ O = {}
  BY <1>3, <1>4, <1>5, <1>6, <1>7, <1>10
<1> QED
  BY <1>8, <1>9, <1>10

(* Moves, returns, calls and appends pass ownership on without losing or   *)
(* doubling it: each live block has one owner and each owner a live block. *)
THEOREM RulesGiveOneOwner ==
  ASSUME NewHoldsBytes
  PROVE  Spec => []OneOwner
<1>1. IInv /\ (Ruled => RInv) => OneOwner
  BY OwnersCounted DEF OneOwner
<1> QED
  BY <1>1, RulesKept, PTL

-----------------------------------------------------------------------------
(* The refinement of StringValues: the four variables of the abstract      *)
(* specification, as the programmer of the function sees a state, then one *)
(* lemma per action, which says what abstract step it is.                  *)
Vals == [v \in Vars |-> IF HasValue(v) THEN TextAt(slot[v]) ELSE NoVar]
OperandTexts == [i \in DOMAIN est |-> TextAt(est[i].ptr)]
Over == flow \notin {"body", "gone"}
Returned == IF flow \in {"label", "main"} THEN TextAt(result) ELSE <<>>

(* What a sequence is that has the first n elements of another, and one    *)
(* more.                                                                   *)
LEMMA Extended ==
  ASSUME NEW T, NEW s \in Seq(T), NEW n \in 0 .. Len(s), NEW t \in T,
         NEW u, u \in [1 .. (n + 1) -> T],
         \A i \in 1 .. n : u[i] = s[i], u[n + 1] = t
  PROVE  u = Append(SubSeq(s, 1, n), t)
<1> DEFINE a == SubSeq(s, 1, n)
<1>1. n \in Nat /\ n + 1 \in Nat /\ Len(s) \in Nat
  BY LenProperties
<1>2. \A i \in 1 .. n : i \in 1 .. Len(s) /\ s[i] \in T
  BY <1>1, ElementOfSeq
<1>3. a \in Seq(T) /\ Len(a) = n /\ \A i \in 1 .. n : a[i] = s[i]
  <2>1. 1 \in Int /\ n \in Int /\ n - 1 + 1 = n /\ \A i \in 1 .. n : 1 + i - 1 = i
    BY <1>1
  <2>2. /\ a \in Seq(T) /\ Len(a) = IF 1 <= n THEN n - 1 + 1 ELSE 0
        /\ \A i \in 1 .. (n - 1 + 1) : a[i] = s[1 + i - 1]
    BY <1>2, <2>1, SubSeqProperties
  <2> QED
    BY <1>1, <2>1, <2>2
<1> HIDE DEF a
<1>4. /\ Append(a, t) \in Seq(T) /\ Len(Append(a, t)) = n + 1
      /\ \A i \in 1 .. n : Append(a, t)[i] = a[i]
      /\ Append(a, t)[n + 1] = t
  BY <1>1, <1>3, AppendProperties
<1>5. u \in Seq(T) /\ Len(u) = n + 1
  BY <1>1, FunctionIsSeq
<1>6. \A i \in 1 .. (n + 1) : i \in 1 .. n \/ i = n + 1
  BY <1>1
<1>7. u = Append(a, t)
  <2>1. \A i \in 1 .. Len(u) : u[i] = Append(a, t)[i]
    BY <1>3, <1>4, <1>5, <1>6
  <2> QED
    BY <1>4, <1>5, <2>1, SeqEqual
<1> QED
  BY <1>7 DEF a

LEMMA TextIsSeq ==
  ASSUME NEW m, HeapOK(m), NEW p
  PROVE  TextIn(m, p) \in Seq(Chunks)
  BY CellOfAddr, EmptySeq DEF TextIn

LEMMA TextIsThere == \A p : TextAt(p) = TextIn(mem, p)
  BY DEF TextAt, TextIn

(* A pointer whose block is left alone has the text it had.                *)
LEMMA KeptText ==
  ASSUME NEW m, HeapOK(m), NEW m1, HeapOK(m1),
         NEW p, p \in Blocks => m1.cell[p] = m.cell[p]
  PROVE  TextIn(m1, p) = TextIn(m, p)
<1>1. CASE p \in Lits
  BY <1>1, LitText DEF TextIn
<1>2. CASE p \notin Lits
  BY <1>2 DEF TextIn, Addrs
<1> QED
  BY <1>1, <1>2

(* The variables that have a value are those that own their string and     *)
(* those that borrow it.                                                   *)
LEMMA Valued ==
  ASSUME IInv
  PROVE  /\ \A v : HasValue(v) <=> /\ flow \in {"body", "gone", "label"}
                                   /\ v \in Holders \cup Params
         /\ Holders \subseteq Vars /\ Params \subseteq Vars
  BY DEF HasValue, Holders, IInv, TypeOK, Vars

LEMMA OperandTextsAreSeq ==
  ASSUME IInv
  PROVE  /\ OperandTexts \in Seq(Seq(Chunks)) /\ Len(OperandTexts) = Len(est)
         /\ Len(est) \in Nat /\ DOMAIN est = 1 .. Len(est)
         /\ \A i \in 1 .. Len(est) : OperandTexts[i] = TextIn(mem, est[i].ptr)
<1>1. Len(est) \in Nat /\ DOMAIN est = 1 .. Len(est)
  BY LastOperands
<1> DEFINE n == Len(est)
           T == Seq(Chunks)
<1>2. /\ OperandTexts = [i \in 1 .. n |-> TextIn(mem, est[i].ptr)]
      /\ \A i \in 1 .. n : TextIn(mem, est[i].ptr) \in T
  BY <1>1, TextIsThere, TextIsSeq DEF OperandTexts, IInv
<1>3. n \in Nat
  BY <1>1
<1> HIDE DEF n, T
<1>4. OperandTexts \in [1 .. n -> T]
  BY <1>2
<1>5. OperandTexts \in Seq(T) /\ Len(OperandTexts) = n
  BY <1>3, <1>4, FunctionIsSeq
<1> QED
  BY <1>1, <1>2, <1>5 DEF n, T

LEMMA ValueKept ==
  ASSUME IInv, HeapOK(mem'), NEW v \in Vars, HasValue(v)' <=> HasValue(v),
         HasValue(v) => /\ slot'[v] = slot[v]
                        /\ slot[v] \in Blocks => mem'.cell[slot[v]] = mem.cell[slot[v]]
  PROVE  Vals'[v] = Vals[v]
<1>1. /\ Vals[v] = IF HasValue(v) THEN TextIn(mem, slot[v]) ELSE NoVar
      /\ Vals'[v] = IF HasValue(v)' THEN TextIn(mem', slot'[v]) ELSE NoVar
  BY DEF Vals, TextAt, TextIn
<1>2. CASE HasValue(v)
  <2>1. HeapOK(mem)
    BY DEF IInv
  <2>2. PICK p : p = slot[v]
    OBVIOUS
  <2>3. TextIn(mem', p) = TextIn(mem, p)
    BY <1>2, <2>1, <2>2, KeptText
  <2> QED
    BY <1>1, <1>2, <2>2, <2>3
<1> QED
  BY <1>1, <1>2

LEMMA SameVals ==
  ASSUME \A v \in Vars : Vals'[v] = Vals[v]
  PROVE  Vals' = Vals
  BY DEF Vals

(* The operands that stay keep their texts.                                *)
LEMMA OperandsEvaluated ==
  ASSUME IInv, HeapOK(mem'), NEW k \in {0, 1, 2}, Len(est) >= k, NEW x,
         est' = Append(SubSeq(est, 1, Len(est) - k), x),
         \A i \in DOMAIN est : i <= Len(est) - k /\ est[i].ptr \in Blocks =>
           mem'.cell[est[i].ptr] = mem.cell[est[i].ptr]
  PROVE  /\ Len(OperandTexts) >= k
         /\ OperandTexts' = Append(SubSeq(OperandTexts, 1, Len(OperandTexts) - k),
                                   TextIn(mem', x.ptr))
<1>3. HeapOK(mem)
  BY DEF IInv
<1>0. PICK t : t = TextIn(mem', x.ptr)
  OBVIOUS
<1> DEFINE n == Len(est) - k
           s == OperandTexts
           T == Seq(Chunks)
<1>7. /\ n \in Nat /\ n <= Len(est)
      /\ DOMAIN est = 1 .. (n + k) /\ DOMAIN est' = 1 .. (n + 1)
      /\ \A i \in 1 .. n : est'[i] = est[i]
      /\ est'[n + 1] = x
  <2>1. /\ n \in Nat
        /\ DOMAIN est = 1 .. (n + k) /\ DOMAIN est' = 1 .. (n + 1)
        /\ \A i \in 1 .. n : est'[i] = est[i]
        /\ est'[n + 1] = x
    BY Shortened
  <2>2. n <= Len(est)
    BY OperandTextsAreSeq
  <2> QED
    BY <2>1, <2>2
<1>8. /\ s \in Seq(T) /\ Len(s) = Len(est) /\ Len(est) \in Nat
      /\ \A i \in 1 .. Len(est) : s[i] = TextIn(mem, est[i].ptr)
  BY OperandTextsAreSeq
<1>9. n = Len(s) - k /\ n \in 0 .. Len(s)
  BY <1>7, <1>8
<1>10. OperandTexts' = [i \in 1 .. (n + 1) |-> TextIn(mem', est'[i].ptr)]
  <2>1. OperandTexts' = [i \in DOMAIN est' |-> TextIn(mem', est'[i].ptr)]
    BY DEF OperandTexts, TextAt, TextIn
  <2> QED
    BY <1>7, <2>1
<1>11. OperandTexts' \in [1 .. (n + 1) -> T]
  <2>1. \A p : TextIn(mem', p) \in T
    BY TextIsSeq
  <2> HIDE DEF T, n
  <2> QED
    BY <1>10, <2>1
<1>12. \A i \in 1 .. n : OperandTexts'[i] = s[i]
  <2> SUFFICES ASSUME NEW i \in 1 .. n PROVE OperandTexts'[i] = s[i]
    OBVIOUS
  <2>1. /\ i \in 1 .. (n + 1) /\ i \in 1 .. Len(est) /\ i \in DOMAIN est /\ i <= Len(est) - k
        /\ est'[i] = est[i]
    BY <1>7, <1>8
  <2>2. PICK p : p = est[i].ptr
    OBVIOUS
  <2>3. p \in Blocks => mem'.cell[p] = mem.cell[p]
    BY <2>1, <2>2
  <2>4. TextIn(mem', p) = TextIn(mem, p)
    BY <1>3, <2>3, KeptText
  <2> HIDE DEF n, s
  <2> QED
    BY <1>8, <1>10, <2>1, <2>2, <2>4
<1>13. OperandTexts'[n + 1] = t /\ t \in T
  <2>1. n + 1 \in 1 .. (n + 1)
    BY <1>7
  <2>2. TextIn(mem', x.ptr) = t
    BY <1>0
  <2>3. TextIn(mem', x.ptr) \in T
    BY TextIsSeq
  <2> HIDE DEF n, s, T
  <2> QED
    BY <1>7, <1>10, <2>1, <2>2, <2>3
<1> HIDE DEF s, T, n
<1>14. OperandTexts' = Append(SubSeq(s, 1, n), t)
  <2>1. PICK u : u = OperandTexts'
    OBVIOUS
  <2>2. /\ u \in [1 .. (n + 1) -> T] /\ t \in T
        /\ \A i \in 1 .. n : u[i] = s[i]
        /\ u[n + 1] = t
    BY <1>11, <1>12, <1>13, <2>1
  <2>3. PICK w, j, S : w = s /\ j = n /\ S = T
    OBVIOUS
  <2>4. /\ w \in Seq(S) /\ j \in 0 .. Len(w) /\ t \in S
        /\ u \in [1 .. (j + 1) -> S]
        /\ \A i \in 1 .. j : u[i] = w[i]
        /\ u[j + 1] = t
    BY <1>8, <1>9, <2>2, <2>3
  <2>5. u = Append(SubSeq(w, 1, j), t)
    BY ONLY <2>4, Extended
  <2> QED
    BY <2>1, <2>3, <2>5
<1>15. Len(s) >= k
  BY <1>8
<1> QED
  BY <1>0, <1>9, <1>14, <1>15 DEF s

LEMMA EvaluatedValues ==
  ASSUME IInv, RInv, NEW k \in {0, 1, 2}, NEW t, EvaluatedTo(k, t)
  PROVE  /\ Len(OperandTexts) >= k
         /\ OperandTexts' = Append(SubSeq(OperandTexts, 1, Len(OperandTexts) - k), t)
         /\ UNCHANGED <<Vals, Over, Returned>>
<1>1. PICK x \in Value : Evaluated(k, x) /\ mem'.cell[x.ptr].text = t
  BY DEF EvaluatedTo
<1>2. flow = "body" /\ Len(est) >= k
  BY DEF EvaluatedTo
<1>3. /\ HeapOK(mem') /\ HeapOK(mem) /\ flow' = flow /\ slot' = slot /\ declared' = declared
      /\ destroyed' \ Params = Moved /\ result' = result /\ Usable(mem', x.ptr)
      /\ est' = Append(SubSeq(est, 1, Len(est) - k), x)
  BY <1>1 DEF Evaluated, caller, IInv
<1>4. ASSUME NEW v \in Vars PROVE Vals'[v] = Vals[v]
  <2>1. HasValue(v)' <=> HasValue(v)
    BY <1>3 DEF HasValue, Moved
  <2>2. ASSUME HasValue(v), slot[v] \in Blocks PROVE mem'.cell[slot[v]] = mem.cell[slot[v]]
    <3>1. CASE v \in Holders
      BY <1>1, <1>2, <2>2, <3>1, EvaluatedBlocks
    <3>2. CASE v \in Params
      <4>1. slot[v] \in mains
        BY <1>2, <2>2, <3>2, HeapAssumption DEF RInv, Pointers
      <4> QED
        BY <1>1, <1>2, <4>1, EvaluatedBlocks
    <3> QED
      BY <2>2, <3>1, <3>2, Valued
  <2> QED
    BY <1>3, <2>1, <2>2, ValueKept
<1>5. Vals' = Vals
  BY <1>4, SameVals
<1>6. Over' = Over /\ Returned' = Returned
  BY <1>2, <1>3 DEF Over, Returned
<1>7. TextIn(mem', x.ptr) = t
  BY <1>1, <1>3 DEF TextIn, Usable
<1>8. \A i \in DOMAIN est : i <= Len(est) - k /\ est[i].ptr \in Blocks =>
        mem'.cell[est[i].ptr] = mem.cell[est[i].ptr]
  BY <1>1, <1>2, EvaluatedBlocks
<1>10. /\ Len(OperandTexts) >= k
       /\ OperandTexts' = Append(SubSeq(OperandTexts, 1, Len(OperandTexts) - k),
                                 TextIn(mem', x.ptr))
  BY <1>2, <1>3, <1>8, OperandsEvaluated
<1> QED
  BY <1>5, <1>6, <1>7, <1>10

(* Operands: each pushes, reads, moves or combines texts.                  *)

LEMMA PushedText ==
  ASSUME IInv, RInv, NEW t, EvaluatedTo(0, t)
  PROVE  Values!Push(t)
<1>1. PICK k \in {0, 1, 2} : k = 0
  OBVIOUS
<1>2. /\ OperandTexts' = Append(SubSeq(OperandTexts, 1, Len(OperandTexts) - 0), t)
      /\ UNCHANGED <<Vals, Over, Returned>>
  BY <1>1, EvaluatedValues
<1>3. SubSeq(OperandTexts, 1, Len(OperandTexts) - 0) = OperandTexts
  <2>1. PICK s, n : s = OperandTexts /\ n = Len(s)
    OBVIOUS
  <2>2. s \in Seq(Seq(Chunks)) /\ n \in Nat
    BY <2>1, OperandTextsAreSeq
  <2>3. SubSeq(s, 1, Len(s)) = s /\ n - 0 = n
    BY <2>2, SubSeqFull
  <2> QED
    BY <2>1, <2>3
<1>4. OperandTexts' = Append(OperandTexts, t)
  BY <1>2, <1>3
<1> QED
  BY <1>2, <1>4 DEF Values!Push, OperandTexts, Vals, Over, Returned

LEMMA LiteralIsPush ==
  ASSUME IInv, RInv, NEW l \in Lits, Literal(l)
  PROVE  Values!Next
<1>1. Values!Push(<<Chunk(l)>>)
  BY LiteralEvaluates, PushedText
<1> QED
  BY <1>1 DEF Values!Next

LEMMA NewIsPush ==
  ASSUME Ruled, NewHoldsBytes, IInv, RInv, NEW n \in NewCaps, New(n)
  PROVE  Values!Next
<1>1. Values!Push(<<>>)
  BY NewEvaluates, PushedText
<1> QED
  BY <1>1 DEF Values!Next

(* A variable with a value has a text, not "no value".                     *)
LEMMA ValueIsText ==
  ASSUME IInv, NEW v \in Vars, HasValue(v)
  PROVE  Vals[v] = TextIn(mem, slot[v]) /\ Vals[v] # NoVar
<1>1. Vals[v] = TextIn(mem, slot[v])
  BY DEF Vals, TextAt, TextIn
<1>2. TextIn(mem, slot[v]) \in Seq(Chunks)
  BY TextIsSeq DEF IInv
<1> QED
  BY <1>1, <1>2, NoVarAssumption

LEMMA CallIsApply ==
  ASSUME Ruled, IInv, RInv, NEW l \in Lits, Call(l)
  PROVE  Values!Next
<1>1. flow = "body" /\ Len(est) >= 1
  BY Executes DEF Call
<1> DEFINE t == mem.cell[Top.ptr].text
           a == <<Chunk(l)>>
<1>2. PICK k \in {0, 1, 2} : k = 1
  OBVIOUS
<1>3. EvaluatedTo(k, a) \/ EvaluatedTo(k, Joined(t, a))
  BY <1>2, CallEvaluates
<1>4. t = OperandTexts[Len(OperandTexts)]
  <2>1. Len(est) \in DOMAIN est /\ Top = est[Len(est)] /\ Len(est) \in 1 .. Len(est)
    BY <1>1, LastOperands DEF Top
  <2>2. Usable(mem, Top.ptr)
    BY <2>1 DEF RInv, Pointers
  <2> QED
    BY <2>1, <2>2, OperandTextsAreSeq DEF TextIn, Usable
<1> HIDE DEF t, a
<1>5. /\ Len(OperandTexts) >= 1 /\ UNCHANGED <<Vals, Over, Returned>>
      /\ \/ OperandTexts' = Append(SubSeq(OperandTexts, 1, Len(OperandTexts) - 1), a)
         \/ OperandTexts' = Append(SubSeq(OperandTexts, 1, Len(OperandTexts) - 1), Joined(t, a))
  BY <1>2, <1>3, EvaluatedValues
<1>6. Values!Apply(l)
  BY <1>4, <1>5 DEF a, Joined, Values!Apply, Values!Pop, Values!Last,
                    OperandTexts, Vals, Over, Returned
<1> QED
  BY <1>6 DEF Values!Next

LEMMA PlusIsConcat ==
  ASSUME Ruled, IInv, RInv, Plus
  PROVE  Values!Next
<1>1. flow = "body" /\ Len(est) >= 2
  BY Executes DEF Plus
<1> DEFINE t == mem.cell[Below.ptr].text
           a == mem.cell[Top.ptr].text
<1>2. PICK k \in {0, 1, 2} : k = 2
  OBVIOUS
<1>3. EvaluatedTo(k, Joined(t, a))
  BY <1>2, PlusEvaluates
<1>4. t = OperandTexts[Len(OperandTexts) - 1] /\ a = OperandTexts[Len(OperandTexts)]
  <2>1. /\ Len(est) \in DOMAIN est /\ Top = est[Len(est)] /\ Len(est) \in 1 .. Len(est)
        /\ Len(est) - 1 \in DOMAIN est /\ Below = est[Len(est) - 1]
        /\ Len(est) - 1 \in 1 .. Len(est)
    BY <1>1, LastOperands DEF Top, Below
  <2>2. Usable(mem, Top.ptr) /\ Usable(mem, Below.ptr)
    BY <2>1 DEF RInv, Pointers
  <2> QED
    BY <2>1, <2>2, OperandTextsAreSeq DEF TextIn, Usable
<1> HIDE DEF t, a
<1>5. /\ Len(OperandTexts) >= 2 /\ UNCHANGED <<Vals, Over, Returned>>
      /\ OperandTexts' = Append(SubSeq(OperandTexts, 1, Len(OperandTexts) - 2), Joined(t, a))
  BY <1>2, <1>3, EvaluatedValues
<1>6. Values!Concat
  BY <1>4, <1>5 DEF Joined, Values!Concat, Values!Pop, Values!Last,
                    OperandTexts, Vals, Over, Returned
<1> QED
  BY <1>6 DEF Values!Next

(* A variable that has a value points to a string that is alive.           *)
LEMMA ValueIsAlive ==
  ASSUME IInv, RInv, flow \in {"body", "label"}, NEW v \in Holders \cup Params,
         slot[v] \in Blocks
  PROVE  /\ slot[v] \in Addrs /\ mem.cell[slot[v]].live
         /\ v \in Params => slot[v] \in mains
         /\ v \in Holders => slot[v] \notin mains
<1>1. slot[v] # Nil /\ slot[v] \in Addrs
  BY HeapAssumption DEF Addrs
<1>2. CASE v \in Holders
  BY <1>1, <1>2 DEF RInv, Pointers, Apart, Usable, Holders
<1>3. CASE v \in Params
  <2>1. slot[v] \in mains
    BY <1>3, HeapAssumption DEF RInv, Pointers
  <2>2. mem.cell[slot[v]].live
    BY <2>1 DEF RInv, Pointers, ArgCell
  <2> QED
    BY <1>1, <1>3, <2>1, <2>2 DEF Holders
<1> QED
  BY <1>2, <1>3

LEMMA VariableIsReadOrMoved ==
  ASSUME Ruled, IInv, RInv, NEW v \in Vars, Variable(v)
  PROVE  Values!Next
<1>1. flow = "body" /\ Sound(mem) /\ HeapOK(mem) /\ Executing
  BY Executes DEF Variable, IInv
<1>2. /\ v \in declared /\ v \notin Moved /\ slot[v] # Nil
      /\ destroyed' = Flagged(v)
      /\ UNCHANGED <<mem, slot, declared, flow, caller>>
      /\ est' = Append(est, [ptr |-> slot[v], kind |-> "var", var |-> v])
  BY <1>1 DEF Variable, MayUse, Ruled, Moved
<1> DEFINE t == TextIn(mem, slot[v])
<1>3. HasValue(v)
  BY <1>1, <1>2 DEF HasValue, Moved
<1>4. Vals[v] = t /\ Vals[v] # NoVar
  BY <1>3, ValueIsText
<1>5. Usable(mem, slot[v])
  BY <1>1, <1>2, MentionedIsUsable
<1>6. CASE mode # "returning" \/ v \in Params
  <2>1. EvaluatedTo(0, t)
    BY <1>5, <1>6, VariableEvaluates DEF TextIn, Usable
  <2> HIDE DEF t
  <2>2. Values!Push(t)
    BY <2>1, PushedText
  <2>3. Values!Read(v)
    BY <1>4, <2>2 DEF Values!Read, Vals
  <2> QED
    BY <2>3 DEF Values!Next
<1>7. CASE mode = "returning" /\ v \notin Params
  <2>1. destroyed' = destroyed \cup {v}
    BY <1>2, <1>7 DEF Flagged
  <2> DEFINE x == [ptr |-> slot[v], kind |-> "var", var |-> v]
  <2>2. PICK y, k : y = x /\ k = 0 /\ k \in {0, 1, 2}
    OBVIOUS
  <2>3. /\ est' = Append(SubSeq(est, 1, Len(est) - k), y) /\ y.ptr = slot[v]
        /\ Len(est) >= k
    BY <1>2, <2>2, Pushed, LastOperands
  <2> HIDE DEF x, t
  <2>4. HeapOK(mem') /\ mem' = mem
    BY <1>1, <1>2
  <2>5. OperandTexts' = Append(SubSeq(OperandTexts, 1, Len(OperandTexts) - k),
                               TextIn(mem', y.ptr))
    <3>1. \A i \in DOMAIN est : i <= Len(est) - k /\ est[i].ptr \in Blocks =>
            mem'.cell[est[i].ptr] = mem.cell[est[i].ptr]
      BY <2>4
    <3> QED
      BY <2>2, <2>3, <2>4, <3>1, OperandsEvaluated
  <2>6. SubSeq(OperandTexts, 1, Len(OperandTexts) - k) = OperandTexts
    <3>1. PICK s, n : s = OperandTexts /\ n = Len(s)
      OBVIOUS
    <3>2. s \in Seq(Seq(Chunks)) /\ n \in Nat
      BY <3>1, OperandTextsAreSeq
    <3>3. SubSeq(s, 1, Len(s)) = s /\ n - 0 = n
      BY <3>2, SubSeqFull
    <3> QED
      BY <2>2, <3>1, <3>3
  <2>7. OperandTexts' = Append(OperandTexts, Vals[v])
    BY <1>4, <2>3, <2>4, <2>5, <2>6 DEF t
  <2>8. ASSUME NEW w \in Vars
        PROVE  Vals'[w] = IF w = v THEN NoVar ELSE Vals[w]
    <3>1. CASE w = v
      <4>1. ~HasValue(v)'
        BY <1>7, <2>1 DEF HasValue
      <4> QED
        BY <3>1, <4>1 DEF Vals
    <3>2. CASE w # v
      <4>1. HasValue(w)' <=> HasValue(w)
        BY <1>2, <2>1, <3>2 DEF HasValue
      <4>2. Vals'[w] = Vals[w]
        BY <1>2, <2>4, <4>1, ValueKept
      <4> QED
        BY <3>2, <4>2
    <3> QED
      BY <3>1, <3>2
  <2>9. Vals' = [Vals EXCEPT ![v] = NoVar]
    BY <2>8 DEF Vals
  <2>10. UNCHANGED <<Over, Returned>>
    BY <1>1, <1>2 DEF Over, Returned
  <2>11. Values!Move(v)
    BY <1>4, <1>7, <2>7, <2>9, <2>10 DEF Values!Move, OperandTexts, Vals, Over, Returned
  <2> QED
    BY <2>11 DEF Values!Next
<1> QED
  BY <1>6, <1>7

-----------------------------------------------------------------------------
(* Statements change the variable they name and no other.                  *)

(* The texts of the other variables, when the only blocks written are the  *)
(* one v had and a free one.                                               *)
LEMMA OthersKept ==
  ASSUME IInv, RInv, flow \in {"body", "label"}, HeapOK(mem'),
         NEW p, NEW r, p \notin mains, r = p \/ r \in FreeBlocks(mem),
         \A a \in Addrs \ {r, p} : mem'.cell[a] = mem.cell[a],
         NEW w \in Vars, HasValue(w)' <=> HasValue(w), slot'[w] = slot[w],
         HasValue(w) /\ w \in Holders /\ slot[w] \in Blocks => slot[w] # p
  PROVE  Vals'[w] = Vals[w]
<1>1. ASSUME HasValue(w), slot[w] \in Blocks
      PROVE  mem'.cell[slot[w]] = mem.cell[slot[w]]
  <2>1. w \in Holders \cup Params
    BY <1>1, Valued
  <2>2. /\ slot[w] \in Addrs /\ mem.cell[slot[w]].live
        /\ w \in Params => slot[w] \in mains
    BY <1>1, <2>1, ValueIsAlive
  <2>3. slot[w] # p /\ slot[w] # r
    BY <1>1, <2>1, <2>2 DEF FreeBlocks
  <2> QED
    BY <2>2, <2>3
<1> QED
  BY <1>1, ValueKept

LEMMA NoOperands ==
  ASSUME est' = <<>>
  PROVE  OperandTexts' = <<>>
<1>1. DOMAIN est' = {} /\ <<>> = [i \in {} |-> TextIn(mem', est'[i].ptr)]
  BY EmptySeq, LenProperties
<1>2. OperandTexts' = [i \in DOMAIN est' |-> TextIn(mem', est'[i].ptr)]
  BY DEF OperandTexts, TextAt, TextIn
<1> QED
  BY <1>1, <1>2

LEMMA RenewedValues ==
  ASSUME IInv, RInv, NEW v, NEW t, RenewedTo(v, t)
  PROVE  /\ v \in Vars \ Params /\ HasValue(v) /\ Vals[v] = TextIn(mem, slot[v])
         /\ Vals[v] # NoVar
         /\ Vals' = [Vals EXCEPT ![v] = t] /\ OperandTexts' = <<>>
         /\ UNCHANGED <<Over, Returned>>
<1>1. /\ flow = "body" /\ v \in Holders /\ est' = <<>>
      /\ UNCHANGED <<declared, destroyed, flow, result>>
  BY DEF RenewedTo, control, caller
<1>2. PICK r \in Blocks : /\ Renewed(mem, mem', slot[v], r)
                          /\ slot' = [slot EXCEPT ![v] = r]
                          /\ mem'.cell[r].text = t
  BY DEF RenewedTo
<1>3. v \in Vars \ Params /\ HasValue(v)
  BY <1>1, Valued DEF Holders
<1>4. Vals[v] = TextIn(mem, slot[v]) /\ Vals[v] # NoVar
  BY <1>3, ValueIsText
<1>5. \A w : HasValue(w)' <=> HasValue(w)
  BY <1>1 DEF HasValue
<1>6. /\ \A w \in Vars \ {v} : slot'[w] = slot[w]
      /\ slot'[v] = r
  BY <1>2, <1>3, ParamsAreKept
<1>7. slot[v] \notin mains
  BY <1>1 DEF RInv, Apart, IInv, TypeOK
<1>8. HeapOK(mem') /\ r \in Addrs
  BY <1>2 DEF Renewed, Addrs
<1>9. ASSUME NEW w \in Vars
      PROVE  Vals'[w] = IF w = v THEN t ELSE Vals[w]
  <2>1. CASE w = v
    <3>1. Vals'[w] = IF HasValue(w)' THEN TextIn(mem', slot'[w]) ELSE NoVar
      BY DEF Vals, TextAt, TextIn
    <3> QED
      BY <1>2, <1>3, <1>5, <1>6, <1>8, <2>1, <3>1 DEF TextIn
  <2>2. CASE w # v
    <3>1. PICK p : p = slot[v]
      OBVIOUS
    <3>2. /\ r = p \/ r \in FreeBlocks(mem)
          /\ \A a \in Addrs \ {r, p} : mem'.cell[a] = mem.cell[a]
      BY <1>2, <3>1 DEF Renewed
    <3>3. w \in Holders /\ slot[w] \in Blocks => slot[w] # p
      BY <1>1, <2>2, <3>1 DEF RInv, Apart
    <3>4. Vals'[w] = Vals[w]
      BY <1>1, <1>5, <1>6, <1>7, <1>8, <2>2, <3>1, <3>2, <3>3, OthersKept
    <3> QED
      BY <2>2, <3>4
  <2> QED
    BY <2>1, <2>2
<1>10. Vals' = [Vals EXCEPT ![v] = t]
  BY <1>9 DEF Vals
<1>11. UNCHANGED <<Over, Returned>>
  BY <1>1 DEF Over, Returned
<1>12. OperandTexts' = <<>>
  BY <1>1, NoOperands
<1> QED
  BY <1>3, <1>4, <1>10, <1>11, <1>12

LEMMA NoneIsNone ==
  ASSUME est = <<>>
  PROVE  OperandTexts = <<>>
  BY EmptySeq, LenProperties DEF OperandTexts

LEMMA OneOperandText ==
  ASSUME IInv, RInv, Len(est) = 1
  PROVE  /\ Len(OperandTexts) = 1 /\ OperandTexts[Len(OperandTexts)] = mem.cell[Top.ptr].text
         /\ OperandTexts[Len(OperandTexts)] = TextIn(mem, Top.ptr)
         /\ OperandTexts # <<>>
<1>1. Len(est) \in DOMAIN est /\ Top = est[Len(est)] /\ Len(est) \in 1 .. Len(est)
  BY LastOperands DEF Top
<1>2. Usable(mem, Top.ptr)
  BY <1>1 DEF RInv, Pointers
<1>3. Len(OperandTexts) = 1
  BY OperandTextsAreSeq
<1>4. OperandTexts[Len(est)] = TextIn(mem, est[Len(est)].ptr)
  BY <1>1, OperandTextsAreSeq
<1>5. TextIn(mem, Top.ptr) = mem.cell[Top.ptr].text
  BY <1>2 DEF TextIn, Usable
<1>6. OperandTexts # <<>>
  BY <1>3, EmptySeq
<1> QED
  BY <1>1, <1>3, <1>4, <1>5, <1>6

LEMMA PlusAssignIsAppend ==
  ASSUME Ruled, IInv, RInv, NEW v \in Vars, PlusAssign(v)
  PROVE  Values!Next
<1> DEFINE a == mem.cell[Top.ptr].text
           t == Joined(TextIn(mem, slot[v]), a)
<1>1. RenewedTo(v, t)
  BY PlusAssignRenews
<1>2. Len(OperandTexts) = 1 /\ OperandTexts[Len(OperandTexts)] = a
  BY OneOperandText DEF PlusAssign
<1> HIDE DEF a
<1>3. /\ v \in Vars \ Params /\ Vals[v] = TextIn(mem, slot[v]) /\ Vals[v] # NoVar
      /\ Vals' = [Vals EXCEPT ![v] = t] /\ OperandTexts' = <<>>
      /\ UNCHANGED <<Over, Returned>>
  <2> HIDE DEF t
  <2> QED
    BY <1>1, RenewedValues
<1>4. t = Vals[v] \o OperandTexts[Len(OperandTexts)]
  BY <1>2, <1>3 DEF Joined
<1> HIDE DEF t
<1>5. Vals' = [Vals EXCEPT ![v] = @ \o OperandTexts[Len(OperandTexts)]]
  BY <1>3, <1>4
<1>6. Values!AppendOperand(v)
  BY <1>2, <1>3, <1>5 DEF Values!AppendOperand, Values!Last,
                          OperandTexts, Vals, Over, Returned
<1> QED
  BY <1>6 DEF Values!Next

LEMMA PlusAssignCharIsChange ==
  ASSUME Ruled, IInv, RInv, NEW v \in Vars, NEW c \in Chars, PlusAssignChar(v, c)
  PROVE  Values!Next
<1> DEFINE t == Joined(TextIn(mem, slot[v]), <<Chunk(c)>>)
<1>1. RenewedTo(v, t)
  BY PlusAssignCharRenews
<1>2. OperandTexts = <<>>
  BY NoneIsNone DEF PlusAssignChar
<1>3. /\ v \in Vars \ Params /\ Vals[v] = TextIn(mem, slot[v]) /\ Vals[v] # NoVar
      /\ Vals' = [Vals EXCEPT ![v] = t] /\ OperandTexts' = <<>>
      /\ UNCHANGED <<Over, Returned>>
  <2> HIDE DEF t
  <2> QED
    BY <1>1, RenewedValues
<1>4. t = Vals[v] \o <<Chunk(c)>>
  BY <1>3 DEF Joined
<1> HIDE DEF t
<1>5. Values!Set(v, t)
  BY <1>2, <1>3 DEF Values!Set, OperandTexts, Vals, Over, Returned
<1>6. Values!Set(v, Vals[v] \o <<Chunk(c)>>)
  BY <1>4, <1>5
<1>7. Values!Change(v)
  BY <1>3, <1>6 DEF Values!Change, Vals
<1> QED
  BY <1>3, <1>7 DEF Values!Next

LEMMA AssignCharIsChange ==
  ASSUME Ruled, IInv, RInv, NEW v \in Vars, NEW i \in Indices, AssignChar(v, i)
  PROVE  Values!Next
<1> DEFINE t == Overwritten(mem.cell[slot[v]].text, i)
<1>1. RenewedTo(v, t)
  BY AssignCharRenews
<1>2. OperandTexts = <<>>
  BY NoneIsNone DEF AssignChar
<1>3. /\ v \in Vars \ Params /\ Vals[v] = TextIn(mem, slot[v]) /\ Vals[v] # NoVar
      /\ Vals' = [Vals EXCEPT ![v] = t] /\ OperandTexts' = <<>>
      /\ UNCHANGED <<Over, Returned>>
  <2> HIDE DEF t
  <2> QED
    BY <1>1, RenewedValues
<1>4. TextIn(mem, slot[v]) = mem.cell[slot[v]].text
  <2>1. v \in Holders /\ slot[v] # Nil
    <3>1. slot[v] # Nil
      BY Executes DEF AssignChar, MayUse, Ruled
    <3> QED
      BY <1>1, <3>1 DEF RenewedTo
  <2>2. slot[v] \in Addrs
    BY <2>1 DEF RInv, Pointers, Usable
  <2> QED
    BY <2>2 DEF TextIn
<1>5. t = Overwritten(Vals[v], i)
  BY <1>3, <1>4
<1> HIDE DEF t
<1>6. Values!Set(v, t)
  BY <1>2, <1>3 DEF Values!Set, OperandTexts, Vals, Over, Returned
<1>7. Values!Set(v, Overwritten(Vals[v], i))
  BY <1>5, <1>6
<1>8. Values!Change(v)
  BY <1>3, <1>7 DEF Values!Change, Vals
<1> QED
  BY <1>3, <1>8 DEF Values!Next

LEMMA DeclareIsChange ==
  ASSUME IInv, RInv, NEW v \in Locals, Declare(v)
  PROVE  Values!Next
<1>1. flow = "body" /\ Sound(mem) /\ HeapOK(mem) /\ slot' = [slot EXCEPT ![v] = Nil]
  BY Executes DEF Declare, IInv
<1>2. /\ v \in Vars \ Params /\ v \notin declared /\ est = <<>> /\ est' = <<>>
      /\ declared' = declared \cup {v}
      /\ UNCHANGED <<mem, destroyed, flow, result>>
  BY OwnershipAssumption DEF Declare, Vars, control, caller
<1>3. v \notin destroyed
  BY <1>1, <1>2 DEF RInv, Stage
<1>4. /\ \A w \in Vars \ {v} : slot'[w] = slot[w]
      /\ slot'[v] = Nil
  BY <1>1, <1>2, ParamsAreKept
<1>5. ~HasValue(v) /\ HasValue(v)' /\ \A w : w # v => (HasValue(w)' <=> HasValue(w))
  BY <1>1, <1>2, <1>3 DEF HasValue
<1>6. ASSUME NEW w \in Vars
      PROVE  Vals'[w] = IF w = v THEN <<>> ELSE Vals[w]
  <2>1. CASE w = v
    <3>1. Vals'[w] = IF HasValue(w)' THEN TextIn(mem', slot'[w]) ELSE NoVar
      BY DEF Vals, TextAt, TextIn
    <3>2. Nil \notin Addrs
      BY HeapAssumption DEF Addrs
    <3> QED
      BY <1>4, <1>5, <2>1, <3>1, <3>2 DEF TextIn
  <2>2. CASE w # v
    <3>1. /\ HasValue(w)' <=> HasValue(w)
          /\ slot'[w] = slot[w] /\ mem' = mem /\ HeapOK(mem')
      BY <1>1, <1>2, <1>4, <1>5, <2>2
    <3>2. Vals'[w] = Vals[w]
      BY <3>1, ValueKept
    <3> QED
      BY <2>2, <3>2
  <2> QED
    BY <2>1, <2>2
<1>7. PICK t : t = <<>>
  OBVIOUS
<1>8. Vals[v] = NoVar /\ Vals' = [Vals EXCEPT ![v] = t]
  <2>1. Vals[v] = NoVar
    BY <1>2, <1>5 DEF Vals
  <2>2. \A w \in Vars : Vals'[w] = IF w = v THEN t ELSE Vals[w]
    BY <1>6, <1>7
  <2> QED
    BY <2>1, <2>2 DEF Vals
<1>9. OperandTexts = <<>> /\ OperandTexts' = <<>>
  BY <1>2, NoneIsNone, NoOperands
<1>10. UNCHANGED <<Over, Returned>>
  BY <1>1, <1>2 DEF Over, Returned
<1>11. Values!Set(v, t)
  BY <1>2, <1>8, <1>9, <1>10 DEF Values!Set, OperandTexts, Vals, Over, Returned
<1>12. Values!Set(v, <<>>)
  BY <1>7, <1>11
<1>13. Values!Change(v)
  BY <1>8, <1>12 DEF Values!Change, Vals
<1> QED
  BY <1>2, <1>13 DEF Values!Next

(* Whether the operand was read from a variable, which loses it, or not.   *)
LEMMA AssignIsAssign ==
  ASSUME Ruled, IInv, RInv, NEW v \in Vars, Assign(v)
  PROVE  Values!Next
<1>1. /\ flow = "body" /\ Sound(mem) /\ HeapOK(mem)
      /\ mem' = FreeString(mem, OldPtr(v))
      /\ slot' = [slot EXCEPT ![v] = Top.ptr]
  BY Executes DEF Assign, IInv
<1>2. /\ Len(est) = 1 /\ mode = "stmt" /\ est' = <<>>
      /\ declared' = declared \cup {v}
      /\ destroyed' = destroyed \cup (IF Top.kind = "var" THEN {Top.var} ELSE {})
      /\ UNCHANGED <<flow, result>>
      /\ v \in declared => MayChange(v)
      /\ Top.var # v /\ Top.var \notin Params
  BY DEF Assign, MayMoveTo, Ruled, control, caller
<1>3. /\ DOMAIN est = {1} /\ Top = est[1] /\ Usable(mem, Top.ptr)
      /\ Top.kind \in {"var", "const", "temp", "new"}
      /\ Giver(Top) <=> Top.kind \in {"temp", "new"}
      /\ Top.kind = "const" => Top.ptr \in Lits
      /\ Top.kind = "var" => Top.var \in declared \ Moved /\ Top.ptr = slot[Top.var]
  BY <1>2, StatementOperand
<1>4. /\ destroyed \subseteq declared /\ declared \subseteq Vars
      /\ Params \subseteq declared /\ mains \subseteq Blocks
  BY <1>1 DEF RInv, Stage, IInv, TypeOK
<1>5. v \notin Params /\ v \notin destroyed /\ (v \in declared => v \in Holders)
  BY <1>2, <1>4, ChangedIsHeld DEF MayChange, Ruled, Holders
<1>6. /\ \A w \in Vars \ {v} : slot'[w] = slot[w]
      /\ slot'[v] = Top.ptr
  BY <1>1, <1>5, ParamsAreKept
<1>7. PICK o : o = OldPtr(v)
  OBVIOUS
<1>8. /\ v \in declared => o = slot[v] /\ v \in Holders
      /\ v \notin declared => o = Nil /\ v \notin Holders
      /\ o = Nil \/ Usable(mem, o)
  BY <1>2, <1>5, <1>7, ChangedIsHeld DEF OldPtr, Holders
<1>9. /\ HeapOK(mem')
      /\ \A a \in Addrs \ {o} : mem'.cell[a] = mem.cell[a]
  BY <1>1, <1>7, <1>8, FreeEffect
<1>10. o \notin mains
  BY <1>4, <1>8, HeapAssumption DEF RInv, Apart
(* The string assigned is not the one freed.                               *)
<1>11. Top.ptr \in Blocks => Top.ptr # o
  <2>1. CASE Top.kind = "var"
    <3>1. Top.var \in Holders /\ Top.ptr = slot[Top.var] /\ Top.var # v
      BY <1>2, <1>3, <2>1 DEF Holders, Moved
    <3> QED
      BY <1>8, <3>1, HeapAssumption DEF RInv, Apart
  <2>2. CASE Giver(Top)
    <3>1. Top.ptr \in Blocks => \A w \in Holders : slot[w] # Top.ptr
      BY <1>3, <2>2 DEF RInv, Apart
    <3> QED
      BY <1>8, <3>1, HeapAssumption
  <2> QED
    BY <1>3, <2>1, <2>2, HeapAssumption
<1> DEFINE t == mem.cell[Top.ptr].text
           L == IF Top.kind = "var" THEN {Top.var} ELSE {}
<1>12. /\ Len(OperandTexts) = 1 /\ OperandTexts[Len(OperandTexts)] = t
       /\ TextIn(mem, Top.ptr) = t
  BY <1>2, OneOperandText
<1>13. /\ v \notin L /\ destroyed' = destroyed \cup L
       /\ \A w \in L : /\ w \in Vars \ Params /\ Top.kind = "var" /\ w = Top.var
                       /\ HasValue(w) /\ slot[w] = Top.ptr
  BY <1>1, <1>2, <1>3, <1>4 DEF HasValue, Moved
<1>14. /\ HasValue(v)'
       /\ \A w \in Vars \ {v} : HasValue(w)' <=> HasValue(w) /\ w \notin L
  <2> HIDE DEF L
  <2>1. HasValue(v)'
    BY <1>1, <1>2, <1>5, <1>13 DEF HasValue
  <2>2. ASSUME NEW w \in Vars \ {v} PROVE HasValue(w)' <=> HasValue(w) /\ w \notin L
    <3>1. w \in declared' <=> w \in declared
      BY <1>2
    <3>2. w \in destroyed' \ Params <=> w \in destroyed \ Params \/ w \in L
      BY <1>13
    <3> QED
      BY <1>1, <1>2, <3>1, <3>2 DEF HasValue
  <2> QED
    BY <2>1, <2>2
<1> HIDE DEF L
<1>15. ASSUME NEW w \in Vars
       PROVE  Vals'[w] = IF w = v THEN t ELSE IF w \in L THEN NoVar ELSE Vals[w]
  <2>1. Vals'[w] = IF HasValue(w)' THEN TextIn(mem', slot'[w]) ELSE NoVar
    BY DEF Vals, TextAt, TextIn
  <2>2. CASE w = v
    <3>1. PICK q : q = Top.ptr
      OBVIOUS
    <3>2. q \in Blocks => mem'.cell[q] = mem.cell[q]
      BY <1>9, <1>11, <3>1 DEF Addrs
    <3>3. TextIn(mem', q) = TextIn(mem, q)
      BY <1>1, <1>9, <3>2, KeptText
    <3>4. Vals'[w] = TextIn(mem', q)
      BY <1>6, <1>14, <2>1, <2>2, <3>1
    <3> QED
      BY <1>12, <2>2, <3>1, <3>3, <3>4
  <2>3. CASE w \in L
    BY <1>13, <1>14, <2>1, <2>3
  <2>4. CASE w # v /\ w \notin L
    <3>1. (HasValue(w)' <=> HasValue(w)) /\ slot'[w] = slot[w]
      BY <1>6, <1>14, <2>4
    <3>2. w \in Holders /\ slot[w] \in Blocks => slot[w] # o
      BY <1>8, <2>4, HeapAssumption DEF RInv, Apart
    <3>3. \A a \in Addrs \ {o, o} : mem'.cell[a] = mem.cell[a]
      BY <1>9
    <3>4. Vals'[w] = Vals[w]
      BY <1>1, <1>9, <1>10, <3>1, <3>2, <3>3, OthersKept
    <3> QED
      BY <2>4, <3>4
  <2> QED
    BY <2>2, <2>3, <2>4
<1>16. OperandTexts' = <<>>
  BY <1>2, NoOperands
<1>17. UNCHANGED <<Over, Returned>>
  BY <1>1, <1>2 DEF Over, Returned
<1>18. CASE L = {}
  <2>1. Vals' = [Vals EXCEPT ![v] = t]
    <3>1. \A w \in Vars : Vals'[w] = IF w = v THEN t ELSE Vals[w]
      BY <1>15, <1>18
    <3> HIDE DEF t
    <3> QED
      BY <3>1 DEF Vals
  <2> HIDE DEF t
  <2>2. Values!Assign(v)
    BY <1>5, <1>12, <1>16, <1>17, <2>1
       DEF Values!Assign, Values!Last, OperandTexts, Vals, Over, Returned
  <2> QED
    BY <2>2 DEF Values!Next
<1>19. CASE L # {}
  <2>1. PICK u : L = {u} /\ u \in Vars \ (Params \cup {v}) /\ HasValue(u) /\ slot[u] = Top.ptr
    BY <1>13, <1>19 DEF L
  <2>2. Vals[u] = t
    BY <1>12, <2>1, ValueIsText
  <2> HIDE DEF t
  <2>3. Vals' = [Vals EXCEPT ![v] = t, ![u] = NoVar]
    <3>1. \A w \in Vars : Vals'[w] = IF w = u THEN NoVar ELSE IF w = v THEN t ELSE Vals[w]
      BY <1>15, <2>1
    <3> QED
      BY <2>1, <3>1 DEF Vals
  <2>4. Values!Assign(v)
    BY <1>5, <1>12, <1>16, <1>17, <2>1, <2>2, <2>3
       DEF Values!Assign, Values!Last, OperandTexts, Vals, Over, Returned
  <2> QED
    BY <2>4 DEF Values!Next
<1> QED
  BY <1>18, <1>19

LEMMA CompareLitIsDiscard ==
  ASSUME Ruled, IInv, RInv, CompareLit
  PROVE  Values!Next
<1>1. /\ flow = "body" /\ Sound(mem) /\ HeapOK(mem) /\ mem' = Borrow(mem, Top)
  BY Executes DEF CompareLit, IInv
<1>2. /\ Len(est) = 1 /\ mode = "stmt" /\ est' = <<>>
      /\ UNCHANGED <<slot, declared, destroyed, flow, result>>
  BY DEF CompareLit, control, caller
<1>3. PICK p : p = Top.ptr
  OBVIOUS
<1>4. /\ Top = est[1] /\ 1 \in DOMAIN est /\ Usable(mem, p)
      /\ Giver(Top) <=> Top.kind \in {"temp", "new"}
  BY <1>2, <1>3, StatementOperand
<1>5. mem' = IF Top.kind = "temp" THEN FreeString(mem, p) ELSE mem
  BY <1>1, <1>3, <1>4 DEF Borrow, FreeTemp
<1>6. /\ HeapOK(mem')
      /\ \A a \in Addrs \ {p} : mem'.cell[a] = mem.cell[a]
      /\ Top.kind # "temp" => mem' = mem
  <2>1. CASE Top.kind = "temp"
    BY <1>1, <1>4, <1>5, <2>1, FreeEffect
  <2>2. CASE Top.kind # "temp"
    BY <1>1, <1>5, <2>2
  <2> QED
    BY <2>1, <2>2
<1>7. ASSUME NEW w \in Vars PROVE Vals'[w] = Vals[w]
  <2>1. (HasValue(w)' <=> HasValue(w)) /\ slot'[w] = slot[w]
    BY <1>2 DEF HasValue
  <2>2. CASE Top.kind = "temp"
    <3>1. p \in Blocks => p \notin mains /\ \A u \in Holders : slot[u] # p
      BY <1>3, <1>4, <2>2 DEF RInv, Apart
    <3>2. p \notin mains
      BY <3>1 DEF IInv, TypeOK
    <3>3. w \in Holders /\ slot[w] \in Blocks => slot[w] # p
      BY <3>1
    <3>4. \A a \in Addrs \ {p, p} : mem'.cell[a] = mem.cell[a]
      BY <1>6
    <3> QED
      BY <1>1, <1>6, <2>1, <3>2, <3>3, <3>4, OthersKept
  <2>3. CASE Top.kind # "temp"
    BY <1>6, <2>1, <2>3, ValueKept
  <2> QED
    BY <2>2, <2>3
<1>8. Vals' = Vals
  BY <1>7, SameVals
<1>9. UNCHANGED <<Over, Returned>>
  BY <1>1, <1>2 DEF Over, Returned
<1>10. OperandTexts # <<>> /\ OperandTexts' = <<>>
  BY <1>2, OneOperandText, NoOperands
<1>11. Values!Discard
  BY <1>8, <1>9, <1>10 DEF Values!Discard, OperandTexts, Vals, Over, Returned
<1> QED
  BY <1>11 DEF Values!Next

(* A step that leaves memory, the slots and the flags alone.               *)
LEMMA QuietStep ==
  ASSUME IInv, mem' = mem, slot' = slot, declared' = declared, destroyed' = destroyed,
         \/ flow' = flow
         \/ {flow, flow'} \subseteq {"body", "gone", "label"}
         \/ {flow, flow'} \subseteq {"main", "exiting", "ended"}
  PROVE  Vals' = Vals
<1>1. HeapOK(mem')
  BY DEF IInv
<1>2. ASSUME NEW w \in Vars PROVE Vals'[w] = Vals[w]
  <2>1. HasValue(w)' <=> HasValue(w)
    BY DEF HasValue
  <2> QED
    BY <1>1, <2>1, ValueKept
<1> QED
  BY <1>2, SameVals

LEMMA CompareStringsIsDiscard ==
  ASSUME Ruled, IInv, RInv, CompareStrings
  PROVE  Values!Next
<1>1. flow = "body" /\ Executing
  BY Executes DEF CompareStrings
<1>2. /\ Len(est) = 2 /\ est' = <<>>
      /\ UNCHANGED <<slot, declared, destroyed, flow, result>>
      /\ "temp" \notin {Top.kind, Below.kind}
  BY DEF CompareStrings, Ruled, control, caller
<1>3. Usable(mem, Top.ptr) /\ Usable(mem, Below.ptr)
  <2>1. Top = est[2] /\ Below = est[1] /\ DOMAIN est = {1, 2}
    BY <1>2, LastOperands DEF Top, Below
  <2> QED
    BY <2>1 DEF RInv, Pointers
<1>4. mem' = mem
  BY <1>1, <1>2, <1>3 DEF CompareStrings, Run
<1>5. Vals' = Vals
  BY <1>2, <1>4, QuietStep
<1>6. UNCHANGED <<Over, Returned>>
  BY <1>1, <1>2 DEF Over, Returned
<1>7. OperandTexts # <<>> /\ OperandTexts' = <<>>
  <2>1. Len(OperandTexts) = 2 /\ Len(<<>>) = 0
    BY <1>2, OperandTextsAreSeq, EmptySeq
  <2> QED
    BY <1>2, <2>1, NoOperands
<1>8. Values!Discard
  BY <1>5, <1>6, <1>7 DEF Values!Discard, OperandTexts, Vals, Over, Returned
<1> QED
  BY <1>8 DEF Values!Next

-----------------------------------------------------------------------------
(* The end of the function: its result outlives its variables.             *)

LEMMA SameOperands ==
  ASSUME est = <<>>, est' = <<>>
  PROVE  OperandTexts' = OperandTexts
  BY NoneIsNone, NoOperands

LEMMA BeginReturnIsSilent ==
  ASSUME IInv, RInv, BeginReturn
  PROVE  UNCHANGED <<Vals, OperandTexts, Over, Returned>>
<1>1. /\ est = <<>> /\ est' = <<>>
      /\ UNCHANGED <<mem, slot, declared, destroyed, flow, result>>
  BY DEF BeginReturn, caller
<1>2. flow = "body"
  BY Executes DEF BeginReturn
<1>3. Vals' = Vals /\ OperandTexts' = OperandTexts
  BY <1>1, QuietStep, SameOperands
<1> QED
  BY <1>1, <1>2, <1>3 DEF Over, Returned

LEMMA FinishReturnIsReturn ==
  ASSUME Ruled, IInv, RInv, NEW last \in BOOLEAN, FinishReturn(last)
  PROVE  Values!Next
<1>1. flow = "body" /\ Executing
  BY Executes DEF FinishReturn
<1>2. /\ Len(est) = 1 /\ est' = <<>> /\ result' = Top.ptr /\ flow' = "label"
      /\ UNCHANGED <<mem, slot, declared, destroyed>>
  BY <1>1 DEF FinishReturn, Ruled
<1>3. Vals' = Vals /\ OperandTexts' = <<>>
  BY <1>1, <1>2, QuietStep, NoOperands
<1>4. Returned' = TextIn(mem, Top.ptr)
  BY <1>2 DEF Returned, TextAt, TextIn
<1>5. Len(OperandTexts) = 1 /\ OperandTexts[Len(OperandTexts)] = TextIn(mem, Top.ptr)
  BY <1>2, OneOperandText
<1>6. ~Over /\ Over' = TRUE
  BY <1>1, <1>2 DEF Over
<1>7. Returned' = OperandTexts[Len(OperandTexts)]
  BY <1>4, <1>5
<1>8. Values!Return
  BY <1>3, <1>5, <1>6, <1>7 DEF Values!Return, Values!Last, OperandTexts, Vals, Over, Returned
<1> QED
  BY <1>8 DEF Values!Next

LEMMA NilIsEmpty == TextAt(Nil) = <<>>
  BY HeapAssumption DEF TextAt, Addrs

LEMMA CloseBodyIsReturn ==
  ASSUME IInv, RInv, CloseBody
  PROVE  Values!Next
<1>1. flow = "body"
  BY Executes DEF CloseBody
<1>2. /\ est = <<>> /\ est' = <<>> /\ flow' = "label" /\ result' = result
      /\ UNCHANGED <<mem, slot, declared, destroyed>>
  BY DEF CloseBody, caller
<1>3. result = Nil
  BY <1>1 DEF RInv, Stage
<1>4. Vals' = Vals /\ OperandTexts = <<>> /\ OperandTexts' = <<>>
  BY <1>1, <1>2, QuietStep, NoneIsNone, NoOperands
<1>5. Returned = <<>> /\ Returned' = <<>>
  <2>1. TextAt(Nil)' = <<>>
    BY <1>2, NilIsEmpty DEF TextAt
  <2>2. Returned' = TextAt(result)'
    BY <1>2 DEF Returned
  <2>3. TextAt(result)' = <<>>
    BY <1>2, <1>3, NilIsEmpty DEF TextAt
  <2> QED
    BY <1>1, <2>2, <2>3 DEF Returned
<1>6. ~Over /\ Over' = TRUE
  BY <1>1, <1>2 DEF Over
<1>7. Values!Return
  BY <1>4, <1>5, <1>6 DEF Values!Return, OperandTexts, Vals, Over, Returned
<1> QED
  BY <1>7 DEF Values!Next

LEMMA FreeLocalIsDrop ==
  ASSUME IInv, RInv, NEW v \in Locals, FreeLocal(v)
  PROVE  Values!Next
<1>1. /\ flow = "label" /\ Sound(mem) /\ HeapOK(mem) /\ v \in declared \ Params
      /\ mem' = IF v \in destroyed THEN mem ELSE FreeString(mem, slot[v])
      /\ declared' = declared \ {v} /\ slot' = [slot EXCEPT ![v] = Uninit]
      /\ UNCHANGED <<destroyed, est, flow, result>>
  BY DEF FreeLocal, IInv, control, caller
<1>2. /\ est = <<>> /\ est' = <<>> /\ mains \subseteq Blocks /\ declared \subseteq Vars
  BY <1>1 DEF RInv, Stage, IInv, TypeOK
<1>3. /\ v \in Vars \ Params /\ (v \in Holders <=> v \notin destroyed)
      /\ \A w \in Vars \ {v} : slot'[w] = slot[w]
  BY <1>1, <1>2, ParamsAreKept DEF Holders
<1>4. PICK o : o = IF v \in destroyed THEN Nil ELSE slot[v]
  OBVIOUS
<1>5. /\ o = Nil \/ Usable(mem, o)
      /\ mem' = FreeString(mem, o)
      /\ v \in Holders => o = slot[v]
      /\ v \notin Holders => o = Nil
  BY <1>1, <1>3, <1>4 DEF RInv, Pointers, FreeString
<1>6. /\ HeapOK(mem') /\ Released(mem, mem', o)
      /\ \A a \in Addrs \ {o} : mem'.cell[a] = mem.cell[a]
  BY <1>1, <1>5, FreeEffect
<1>7. /\ \A w \in Holders \ {v} : slot[w] \in Blocks => slot[w] # o
      /\ result \in Blocks => result # o
      /\ o \notin mains
  BY <1>2, <1>5, HeapAssumption DEF RInv, Apart
<1>8. ~HasValue(v)' /\ \A w : w # v => (HasValue(w)' <=> HasValue(w))
  BY <1>1 DEF HasValue
<1>9. ASSUME NEW w \in Vars
      PROVE  Vals'[w] = IF w = v THEN NoVar ELSE Vals[w]
  <2>1. CASE w = v
    BY <1>8, <2>1 DEF Vals
  <2>2. CASE w # v
    <3>1. (HasValue(w)' <=> HasValue(w)) /\ slot'[w] = slot[w]
      BY <1>3, <1>8, <2>2
    <3>2. w \in Holders /\ slot[w] \in Blocks => slot[w] # o
      BY <1>7, <2>2
    <3>3. \A a \in Addrs \ {o, o} : mem'.cell[a] = mem.cell[a]
      BY <1>6
    <3>4. Vals'[w] = Vals[w]
      BY <1>1, <1>6, <1>7, <3>1, <3>2, <3>3, OthersKept
    <3> QED
      BY <2>2, <3>4
  <2> QED
    BY <2>1, <2>2
<1>10. Vals' = [Vals EXCEPT ![v] = NoVar]
  BY <1>9 DEF Vals
<1>11. Returned' = Returned
  <2>1. PICK p : p = result
    OBVIOUS
  <2>2. p \in Blocks => mem'.cell[p] = mem.cell[p]
    BY <1>6, <1>7, <2>1 DEF Addrs
  <2>3. TextIn(mem', p) = TextIn(mem, p)
    BY <1>1, <1>6, <2>2, KeptText
  <2>4. Returned = TextIn(mem, p) /\ Returned' = TextIn(mem', p)
    BY <1>1, <2>1 DEF Returned, TextAt, TextIn
  <2> QED
    BY <2>3, <2>4
<1>12. Over /\ Over' = Over /\ OperandTexts' = OperandTexts
  BY <1>1, <1>2, SameOperands DEF Over
<1>13. Values!Drop(v)
  BY <1>3, <1>10, <1>11, <1>12 DEF Values!Drop, OperandTexts, Vals, Over, Returned
<1> QED
  BY <1>3, <1>13 DEF Values!Next

LEMMA LeaveIsForget ==
  ASSUME IInv, RInv, Leave
  PROVE  Values!Next
<1>1. /\ flow = "label" /\ flow' = "main"
      /\ UNCHANGED <<mem, slot, declared, destroyed, est, result>>
  BY DEF Leave, caller
<1>2. est = <<>> /\ est' = <<>>
  BY <1>1 DEF RInv, Stage
<1>3. Vals' = [w \in Vars |-> NoVar]
  BY <1>1 DEF Vals, HasValue
<1>4. Returned' = Returned
  BY <1>1 DEF Returned, TextAt
<1>5. Over /\ Over' = Over /\ OperandTexts' = OperandTexts
  BY <1>1, <1>2, SameOperands DEF Over
<1>6. Values!Forget
  BY <1>3, <1>4, <1>5 DEF Values!Forget, OperandTexts, Vals, Over, Returned
<1> QED
  BY <1>6 DEF Values!Next

(* In main the function's variables have no values.                        *)
LEMMA NobodyHasValue ==
  ASSUME flow \notin {"body", "gone", "label"}, flow' \notin {"body", "gone", "label"}
  PROVE  Vals' = Vals
  BY DEF Vals, HasValue

LEMMA MainFreesResultIsConsume ==
  ASSUME IInv, RInv, MainFreesResult
  PROVE  Values!Next
<1>1. flow = "main" /\ flow' = "exiting" /\ est' = est
  BY DEF MainFreesResult
<1>2. est = <<>> /\ est' = <<>>
  BY <1>1 DEF RInv, Stage
<1>3. Vals' = Vals /\ OperandTexts' = OperandTexts
  BY <1>1, <1>2, NobodyHasValue, SameOperands
<1>4. Over /\ Over' = Over /\ Returned' = <<>>
  BY <1>1 DEF Over, Returned
<1>5. Values!Consume
  BY <1>3, <1>4 DEF Values!Consume, OperandTexts, Vals, Over, Returned
<1> QED
  BY <1>5 DEF Values!Next

LEMMA ExitingIsSilent ==
  ASSUME IInv, RInv, flow = "exiting", flow' \in {"exiting", "ended"}, est' = est
  PROVE  UNCHANGED <<Vals, OperandTexts, Over, Returned>>
<1>1. est = <<>> /\ est' = <<>>
  BY DEF RInv, Stage
<1>2. Vals' = Vals /\ OperandTexts' = OperandTexts
  BY <1>1, NobodyHasValue, SameOperands
<1> QED
  BY <1>2 DEF Over, Returned

-----------------------------------------------------------------------------
LEMMA ValuesInit == Init => Values!Init
<1> SUFFICES ASSUME Init PROVE Values!Init
  OBVIOUS
<1>1. IInv
  BY IInvInit
<1>2. declared = Params /\ est = <<>> /\ flow = "body"
  BY DEF Init
<1>3. HeapOK(mem)
  BY <1>1 DEF IInv
<1>4. \A v \in Vars : Vals[v] \in Seq(Chunks) \cup {NoVar}
  BY <1>3, TextIsThere, TextIsSeq DEF Vals
<1>5. Vals \in [Vars -> Seq(Chunks) \cup {NoVar}]
  BY <1>4 DEF Vals
<1>6. \A v \in Vars \ Params : Vals[v] = NoVar
  BY <1>2 DEF Vals, HasValue
<1>7. OperandTexts = <<>> /\ Over = FALSE /\ Returned = <<>>
  BY <1>2, NoneIsNone DEF Over, Returned
<1> QED
  BY <1>5, <1>6, <1>7 DEF Values!Init, OperandTexts, Vals, Over, Returned

(* Every step of a program that keeps the rules is a step of the abstract  *)
(* specification or changes nothing in it.                                 *)
LEMMA ValuesStep ==
  ASSUME Ruled, NewHoldsBytes, IInv, RInv, [Next]_vars
  PROVE  [Values!Next]_(Values!vars)
<1>1. CASE Operand
  <2>1. Values!Next
    BY <1>1, LiteralIsPush, CallIsApply, VariableIsReadOrMoved, NewIsPush, PlusIsConcat
       DEF Operand
  <2> QED
    BY <2>1
<1>2. CASE Statement
  <2>1. Values!Next
    BY <1>2, AssignIsAssign, PlusAssignIsAppend, AssignCharIsChange, DeclareIsChange,
       PlusAssignCharIsChange, CompareLitIsDiscard, CompareStringsIsDiscard DEF Statement
  <2> QED
    BY <2>1
<1> DEFINE Silent == UNCHANGED <<Vals, OperandTexts, Over, Returned>>
<1>3. Silent => UNCHANGED Values!vars
  BY DEF Values!vars, Vals, OperandTexts, Over, Returned
<1>4. CASE Ending
  <2>1. ASSUME NEW b \in Blocks, MainFrees(b) PROVE Silent
    BY <2>1, ExitingIsSilent DEF MainFrees, control
  <2>2. ASSUME Epilogue PROVE Silent
    BY <2>2, ExitingIsSilent DEF Epilogue
  <2>3. ASSUME BeginReturn PROVE Silent
    BY <2>3, BeginReturnIsSilent
  <2> HIDE DEF Silent
  <2>4. Values!Next \/ Silent
    BY <1>4, <2>1, <2>2, <2>3, FinishReturnIsReturn, CloseBodyIsReturn, FreeLocalIsDrop,
       LeaveIsForget, MainFreesResultIsConsume DEF Ending
  <2> QED
    BY <1>3, <2>4
<1>5. CASE UNCHANGED vars
  <2>1. UNCHANGED <<mem, slot, declared, destroyed, est, flow, result>>
    BY <1>5 DEF vars, control, caller
  <2>2. Silent
    BY <2>1 DEF Vals, OperandTexts, Over, Returned, HasValue, TextAt
  <2> QED
    BY <1>3, <2>2
<1> QED
  BY <1>1, <1>2, <1>4, <1>5 DEF Next

(* Strings behave as values: under the rules the pointers, the two flags   *)
(* and the frees implement variables that each hold a text of their own.   *)
(* No statement changes the text of a variable it does not name, and the   *)
(* text a function returns is intact when its variables are gone.          *)
THEOREM RulesMakeValues ==
  ASSUME Ruled, NewHoldsBytes
  PROVE  Spec => StringsAreValues
<1>1. Init => Values!Init
  BY ValuesInit
<1>2. IInv /\ (Ruled => RInv) /\ [Next]_vars => [Values!Next]_(Values!vars)
  BY ValuesStep
<1> QED
  BY <1>1, <1>2, RulesKept, PTL DEF Spec, StringsAreValues, Values!Spec

=============================================================================
