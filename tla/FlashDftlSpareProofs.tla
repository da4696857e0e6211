------------------------ MODULE FlashDftlSpareProofs ------------------------
(* Theorems about the simulator with the DFTL layer, and their proofs, for *)
(* devices with room to spare: there no collection ever begins in a        *)
(* cleanup_block, so the theorems of FlashDftlProofs are about all of      *)
(* their states.                                                           *)
(*                                                                         *)
(* Between requests two blocks are free. A cleanup copies fewer pages than *)
(* a block has, since the block it cleans has an invalid one, so it takes  *)
(* one of the two at most, or both and then it has pages of the second     *)
(* left; and it gives back one.                                            *)
EXTENDS FlashDftlProofs

-----------------------------------------------------------------------------
(* The blocks that are free.                                               *)

Spacious == NumberOfBlocks > 20 /\ DftlLogicalBlocks < NumberOfBlocks - 2

Unused(s) == Len(s.free_list) + NumberOfBlocks - s.current_free

(* With this much, k of the pages being copied, a cleanup began with two.  *)
Left(s, k) ==
  \/ Unused(s) > 1
  \/ Unused(s) = 1 /\ s.current_page # -1 /\ D!Offset(s.current_page) < k

(* Two blocks are free; and so they are after one more was taken.          *)
Ready(s)  == Unused(s) > 1
Gained(s) == Ready(s) /\ (D!AtEnd(s) => Unused(s) > 2)

(* What neither takes a block nor frees one.                               *)
Keeps(r, s) ==
  /\ DOMAIN r = DOMAIN s
  /\ {"free_list", "current_free", "current_page", "nested"} \subseteq DOMAIN s =>
       /\ r.free_list = s.free_list /\ r.current_free = s.current_free
       /\ r.current_page = s.current_page /\ r.nested = s.nested

LEMMA KeepsTwice ==
  ASSUME NEW s, NEW t, NEW r, Keeps(t, s), Keeps(r, t)
  PROVE  Keeps(r, s)
  BY DEF Keeps

LEMMA KeepsInvalidate ==
  ASSUME NEW s, NEW p
  PROVE  Keeps(D!InvalidateAt(s, p), s)
<1> DEFINE t == D!InvalidatePage(s, p)
<1>1. Keeps(t, s)
  BY DEF Keeps, D!InvalidatePage
<1>2. ASSUME NEW b PROVE Keeps(D!UpdateBlock(t, b), t)
  BY DEF Keeps, D!UpdateBlock, D!Reordered
<1> QED
  BY <1>1, <1>2, KeepsTwice DEF D!InvalidateAt

LEMMA KeepsCopy ==
  ASSUME NEW s, NEW moved, NEW p
  PROVE  Keeps(D!CopyPage(s, moved, p).ssd, s)
<1> DEFINE t == D!WriteCopy(s, p, s.current_page)
<1>1. Keeps(t, s)
  BY DEF Keeps, D!WriteCopy
<1>2. Keeps(D!InvalidateAt(t, p), t)
  BY KeepsInvalidate
<1> QED
  BY <1>1, <1>2, KeepsTwice DEF D!CopyPage

LEMMA KeepsRemapped ==
  ASSUME NEW s, NEW moved
  PROVE  Keeps(D!Remapped(s, moved), s)
  BY DEF Keeps, D!Remapped

LEMMA KeepsStore ==
  ASSUME NEW s, NEW l, NEW p
  PROVE  Keeps(D!Store(s, l, p), s)
<1> DEFINE t == D!UpdateTranslationMap(s, l, p)
           u == D!Program(t, p, l)
           v == D!WritePage(t, p, l)
<1>1. Keeps(t, s)
  BY DEF Keeps, D!UpdateTranslationMap
<1>2. Keeps(u, t)
  BY DEF Keeps, D!Program
<1>3. Keeps(v, u)
  BY DEF Keeps, D!WritePage
<1> HIDE DEF t, u, v
<1>4. ASSUME NEW q PROVE Keeps(D!Replaced(v, q), v)
  <2>1. Keeps(v, v)
    BY DEF Keeps
  <2>2. Keeps(D!InvalidateAt(v, q), v)
    BY KeepsInvalidate
  <2> QED
    BY <2>1, <2>2 DEF D!Replaced
<1>5. Keeps(v, s)
  BY <1>1, <1>2, <1>3, KeepsTwice
<1> QED
  BY <1>4, <1>5, KeepsTwice DEF D!Store, t, v

LEMMA KeepsTrim ==
  ASSUME NEW s, NEW l
  PROVE  Keeps(D!TrimMapped(s, l), s)
<1> DEFINE t == D!InvalidateAt(s, s.ppn[l])
           u == D!Uncounted(t, l)
<1>1. Keeps(t, s)
  BY KeepsInvalidate
<1>2. Keeps(u, t)
  BY DEF Keeps, D!Uncounted
<1>3. Keeps(D!UpdateTranslationMap(u, l, -1), u)
  BY DEF Keeps, D!UpdateTranslationMap
<1>4. Keeps(s, s)
  BY DEF Keeps
<1> HIDE DEF t, u
<1> QED
  BY <1>1, <1>2, <1>3, <1>4, KeepsTwice DEF D!TrimMapped, t, u

LEMMA KeepsRequest ==
  ASSUME NEW s, NEW l, NEW out
  PROVE  Keeps(D!Served(s), s) /\ Keeps(D!Resolved(s, l, out), s)
<1>1. Keeps(D!Served(s), s)
  BY DEF Keeps, D!Served
<1>2. Keeps(D!Resolved(s, l, out), s)
  BY DEF Keeps, D!Resolved
<1> QED
  BY <1>1, <1>2

LEMMA UnusedFacts ==
  ASSUME NEW s \in States
  PROVE  /\ Len(s.free_list) \in Nat /\ s.current_free \in 0 .. NumberOfBlocks
         /\ Unused(s) \in Nat /\ NumberOfBlocks \in Nat
         /\ s.nested = FALSE
         /\ {"free_list", "current_free", "current_page", "nested"} \subseteq DOMAIN s
         /\ Unused(s) > 1 => /\ ~D!RunsOut(s)
                             /\ s.current_free < NumberOfBlocks \/ s.free_list # << >>
<1>1. s.free_list \in Seq(D!Blocks) /\ s.current_free \in 0 .. NumberOfBlocks /\ s.nested = FALSE
  BY DEF States
<1>2. Len(s.free_list) \in Nat /\ NumberOfBlocks \in Nat
  BY ONLY <1>1, LenProperties, ConfigFacts
<1>3. {"free_list", "current_free", "current_page", "nested"} \subseteq DOMAIN s
  BY DEF States
<1>4. PICK n : n = Len(s.free_list)
  BY ONLY TRUE
<1>5. n + NumberOfBlocks - s.current_free \in Nat
  BY ONLY <1>1, <1>2, <1>4
<1>6. ASSUME Unused(s) > 1
      PROVE  /\ ~D!RunsOut(s)
             /\ s.current_free < NumberOfBlocks \/ s.free_list # << >>
  <2>1. s.current_free < NumberOfBlocks \/ n > 1
    BY ONLY <1>1, <1>2, <1>4, <1>6 DEF Unused
  <2>2. n > 1 => s.free_list # << >>
    <3>1. Len(<< >>) = 0 /\ ~(0 > 1)
      OBVIOUS
    <3> QED
      BY ONLY <1>4, <3>1
  <2>3. ~(s.current_free >= NumberOfBlocks /\ n <= 1)
    BY ONLY <1>1, <1>2, <1>4, <2>1
  <2> QED
    BY ONLY <1>4, <2>1, <2>2, <2>3 DEF D!RunsOut
<1> QED
  BY ONLY <1>1, <1>2, <1>3, <1>4, <1>5, <1>6 DEF Unused

LEMMA UnusedKept ==
  ASSUME NEW s \in States, NEW r, Keeps(r, s)
  PROVE  /\ r.nested = FALSE /\ "nested" \in DOMAIN r
         /\ Unused(r) = Unused(s) /\ (Ready(s) => Ready(r))
         /\ \A k : Left(s, k) => Left(r, k)
<1>1. /\ r.free_list = s.free_list /\ r.current_free = s.current_free
      /\ r.current_page = s.current_page /\ r.nested = s.nested /\ DOMAIN r = DOMAIN s
  BY UnusedFacts DEF Keeps
<1>2. Unused(r) = Unused(s)
  BY ONLY <1>1 DEF Unused
<1> QED
  BY <1>1, <1>2, UnusedFacts DEF Ready, Left

LEMMA TakeUnused ==
  ASSUME NEW s \in States, s.current_free < NumberOfBlocks \/ s.free_list # << >>,
         NEW o, o = s \/ (o = D!OutOfBlocks(s) /\ ~(s.current_free < NumberOfBlocks)),
         NEW r, r = D!StartBlock(D!TakeBlock(o))
  PROVE  /\ r \in States /\ Unused(r) = Unused(s) - 1
         /\ r.current_page # -1 /\ D!Offset(r.current_page) = 0
<1>1. r \in States /\ Taken(r, s) /\ r.current_page = D!Page(r.got, 0)
  BY ONLY TakeFields, s \in States, s.current_free < NumberOfBlocks \/ s.free_list # << >>,
          o = s \/ (o = D!OutOfBlocks(s) /\ ~(s.current_free < NumberOfBlocks)),
          r = D!StartBlock(D!TakeBlock(o))
<1>2. /\ s.free_list \in Seq(D!Blocks) /\ Len(s.free_list) \in Nat
      /\ s.current_free \in 0 .. NumberOfBlocks /\ NumberOfBlocks \in Nat
  <2>1. s.free_list \in Seq(D!Blocks)
    BY DEF States
  <2> QED
    BY ONLY <2>1, UnusedFacts, s \in States
<1>3. s.free_list # << >> =>
        Head(s.free_list) \in D!Blocks /\ Len(Tail(s.free_list)) = Len(s.free_list) - 1
  BY ONLY <1>2, HeadTailProperties
<1>4. r.got \in D!Blocks
  <2>1. s.current_free < NumberOfBlocks => s.current_free \in D!Blocks
    BY ONLY <1>2 DEF D!Blocks
  <2> QED
    BY ONLY <1>1, <1>3, <2>1 DEF Taken
<1>5. D!Page(r.got, 0) \in D!Pages /\ D!Offset(D!Page(r.got, 0)) = 0
  BY <1>4, Addresses, ConfigFacts DEF D!Offsets
<1>6. Unused(r) = Unused(s) - 1
  <2>1. PICK n, m : n = Len(s.free_list) /\ m = Len(r.free_list)
    BY ONLY TRUE
  <2>2. n \in Nat /\ NumberOfBlocks \in Nat /\ s.current_free \in Int
    BY ONLY <1>2, <2>1
  <2>3. \/ r.current_free = s.current_free + 1 /\ m = n
        \/ r.current_free = s.current_free /\ m = n - 1
    BY ONLY <1>1, <1>3, <2>1 DEF Taken
  <2>4. PICK k, j : k = s.current_free /\ j = r.current_free
    BY ONLY TRUE
  <2>5. Unused(s) = n + NumberOfBlocks - k /\ Unused(r) = m + NumberOfBlocks - j
    BY ONLY <2>1, <2>4 DEF Unused
  <2>6. /\ n \in Nat /\ NumberOfBlocks \in Nat /\ k \in Int
        /\ (j = k + 1 /\ m = n) \/ (j = k /\ m = n - 1)
    BY ONLY <2>2, <2>3, <2>4
  <2> QED
    BY ONLY <2>5, <2>6
<1> QED
  BY ONLY <1>1, <1>5, <1>6, LpnFacts

(* The page for the next copy: no collection begins.                       *)
LEMMA NextCopySpare ==
  ASSUME NEW gc, NEW s \in States, Space(s, FALSE), s.current_page # -1,
         NEW k \in Nat, k + 1 < BlockSize, Left(s, k),
         NEW r, r = D!NextCopy(gc, s)
  PROVE  r \in States /\ Left(r, k + 1)
<1>0. r = D!Copied(gc, s)
  BY DEF D!NextCopy
<1>1. CASE ~D!AtEnd(s)
  <2>1. r = D!NextInBlock(s)
    BY <1>0, <1>1 DEF D!Copied
  <2>2. r \in States
    BY ONLY <1>1, <2>1, NextInBlockFacts, s \in States, Space(s, FALSE)
  <2>3. /\ r.free_list = s.free_list /\ r.current_free = s.current_free
        /\ r.current_page = s.current_page + 1
    BY <2>1 DEF D!NextInBlock, States
  <2>4. /\ s.current_page \in D!Pages /\ D!Offset(s.current_page) # BlockSize - 1
    BY <1>1 DEF D!AtEnd, States
  <2>5. /\ s.current_page + 1 \in D!Pages
        /\ D!Offset(s.current_page + 1) = D!Offset(s.current_page) + 1
    BY ONLY <2>4, NextAddress
  <2>6. D!Offset(s.current_page) \in Nat
    BY <2>4, Addresses, ConfigFacts DEF D!Offsets
  <2>7. D!Offset(s.current_page) < k => D!Offset(s.current_page) + 1 < k + 1
    BY ONLY <2>6, k \in Nat
  <2> QED
    BY ONLY <2>2, <2>3, <2>5, <2>7, LpnFacts, Left(s, k) DEF Left, Unused
<1>2. CASE D!AtEnd(s)
  <2>1. ~(D!Offset(s.current_page) < k)
    BY <1>2, ConfigFacts DEF D!AtEnd
  <2>2. Unused(s) > 1
    BY ONLY <2>1, Left(s, k) DEF Left
  <2>3. r = D!StartBlock(D!TakeBlock(s))
    BY <1>0, <1>2, <2>2, UnusedFacts DEF D!Copied
  <2>4. /\ r \in States /\ Unused(r) = Unused(s) - 1
        /\ r.current_page # -1 /\ D!Offset(r.current_page) = 0
    BY ONLY <2>2, <2>3, UnusedFacts, TakeUnused, s \in States
  <2>5. Unused(s) \in Nat
    BY UnusedFacts
  <2>6. Unused(r) > 1 \/ Unused(r) = 1
    BY ONLY <2>2, <2>4, <2>5
  <2>7. 0 < k + 1
    BY ONLY k \in Nat
  <2> QED
    BY ONLY <2>4, <2>6, <2>7 DEF Left
<1> QED
  BY ONLY <1>1, <1>2

(* How many of the first i pages were copied at most, when page h is       *)
(* invalid from the beginning.                                             *)
Copies(h, i) == IF i <= h THEN i ELSE i - 1
Spares(s0, b, h, i, a) ==
  Cleans(FALSE, s0, b, i, a) /\ ~Marked(a.ssd) /\ Left(a.ssd, Copies(h, i))

LEMMA CopiesFacts ==
  ASSUME NEW h \in D!Offsets, NEW i \in D!Offsets
  PROVE  /\ Copies(h, i) \in Int /\ Copies(h, i + 1) \in Int /\ Copies(h, i) <= Copies(h, i + 1)
         /\ i # h => /\ Copies(h, i) \in Nat /\ Copies(h, i) + 1 < BlockSize
                     /\ Copies(h, i + 1) = Copies(h, i) + 1
  BY ConfigFacts DEF Copies, D!Offsets

LEMMA LeftMore ==
  ASSUME NEW s \in States, NEW k \in Int, NEW m \in Int, k <= m, Left(s, k)
  PROVE  Left(s, m)
<1>1. CASE Unused(s) > 1
  BY <1>1 DEF Left
<1>2. CASE Unused(s) = 1 /\ s.current_page # -1 /\ D!Offset(s.current_page) < k
  <2>1. D!Offset(s.current_page) \in Int
    BY <1>2, Addresses, ConfigFacts DEF States, D!Offsets
  <2>2. D!Offset(s.current_page) < m
    BY ONLY <1>2, <2>1, k \in Int, m \in Int, k <= m
  <2> QED
    BY ONLY <1>2, <2>2 DEF Left
<1> QED
  BY ONLY <1>1, <1>2, Left(s, k) DEF Left

LEMMA CleanPageSpare ==
  ASSUME NEW gc, NEW s0, NEW b \in D!Blocks, NEW h \in D!Offsets, StateOf(s0, b, h) = "INVALID",
         NEW i \in D!Offsets, NEW a, Spares(s0, b, h, i, a),
         NEW c, c = D!CleanPage(gc, a, D!Page(b, i))
  PROVE  Spares(s0, b, h, i + 1, c)
<1>1. Cleans(FALSE, s0, b, i, a) /\ ~Marked(a.ssd) /\ Left(a.ssd, Copies(h, i))
  BY DEF Spares
<1>2. PICK p, s, moved : p = D!Page(b, i) /\ s = a.ssd /\ moved = a.moved
  BY ONLY TRUE
<1>3. Cleans(FALSE, s0, b, i + 1, c)
  BY ONLY <1>1, CleanPageFacts, b \in D!Blocks, i \in D!Offsets,
          c = D!CleanPage(gc, a, D!Page(b, i))
<1>4. /\ Good(s, moved, FALSE) /\ s.current_page # -1
      /\ b \notin Free(s) /\ ~IsCurrent(s, b) /\ StateOf(s, b, h) = "INVALID"
  BY <1>1, <1>2 DEF Cleans, Void
<1>5. s \in States /\ Space(s, FALSE)
  BY ONLY <1>4 DEF Good, Sane
<1>6. p \in D!Pages /\ StateOf(s, b, i) = s.state[p]
  BY <1>2, Addresses DEF StateOf
<1>7. s.state[p] # "EMPTY" /\ s.state[p] \in {"EMPTY", "VALID", "INVALID"}
  <2>1. StateOf(s, b, i) # "EMPTY"
    BY ONLY <1>4, <1>5, UsedFilled, b \in D!Blocks, i \in D!Offsets
  <2> QED
    BY <1>5, <1>6, <2>1 DEF States
<1>8. PICK k, m : k = Copies(h, i) /\ m = Copies(h, i + 1)
  BY ONLY TRUE
<1>9. k \in Int /\ m \in Int /\ k <= m /\ (i # h => k \in Nat /\ k + 1 < BlockSize /\ m = k + 1)
  BY ONLY <1>8, CopiesFacts, h \in D!Offsets, i \in D!Offsets
<1>10. Left(s, k) /\ ~Marked(s)
  BY ONLY <1>1, <1>2, <1>8
<1>11. SUFFICES ~Marked(c.ssd) /\ Left(c.ssd, m)
  BY <1>3, <1>8, Zenon DEF Spares
<1>12. CASE s.state[p] = "INVALID"
  <2>1. c = a
    BY <1>2, <1>12 DEF D!CleanPage
  <2> QED
    BY ONLY <1>2, <1>5, <1>9, <1>10, <2>1, LeftMore
<1>13. CASE s.state[p] = "VALID"
  <2>1. PICK t : t = D!NextCopy(gc, s)
    BY ONLY TRUE
  <2>2. c = D!CopyPage(t, moved, p)
    BY <1>2, <1>13, <2>1 DEF D!CleanPage
  <2>3. i # h
    BY <1>4, <1>6, <1>13
  <2>4. k \in Nat /\ k + 1 < BlockSize /\ m = k + 1
    BY ONLY <1>9, <2>3
  <2>5. t \in States /\ Left(t, k + 1)
    BY ONLY <1>4, <1>5, <1>10, <2>1, <2>4, NextCopySpare
  <2>6. Keeps(c.ssd, t)
    BY <2>2, KeepsCopy
  <2>7. c.ssd.nested = FALSE /\ Left(c.ssd, k + 1)
    <3>1. PICK r : r = c.ssd
      BY ONLY TRUE
    <3>2. r.nested = FALSE /\ Left(r, k + 1)
      BY ONLY <2>5, <2>6, <3>1, UnusedKept
    <3> QED
      BY ONLY <3>1, <3>2
  <2> QED
    BY ONLY <2>4, <2>7 DEF Marked
<1> QED
  BY ONLY <1>7, <1>12, <1>13

(* Of a block with an invalid page: no collection begins, and pages of at  *)
(* least one block are left.                                               *)
LEMMA CleanupSpare ==
  ASSUME NEW gc, NEW s, Good(s, D!NoneMoved, FALSE), Ready(s),
         NEW b \in D!Blocks, b \notin Free(s), ~IsCurrent(s, b),
         NEW h \in D!Offsets, StateOf(s, b, h) = "INVALID",
         NEW r, r = D!Cleanup(gc, s, b)
  PROVE  CleanedUp(r, s, b) /\ Left(r, BlockSize - 1)
<1>1. PICK f : /\ D!Cleaned(gc, s, b) = f[BlockSize]
               /\ f[0] = [ssd |-> s, moved |-> D!NoneMoved]
               /\ \A i \in 0 .. BlockSize : i # 0 =>
                    f[i] = D!CleanPage(gc, f[i - 1], D!Page(b, i - 1))
  BY CleanedDef
<1> DEFINE N == {i \in Nat : i <= BlockSize => Spares(s, b, h, i, f[i])}
<1>2. BlockSize \in Nat /\ NumberOfBlocks \in Nat /\ h \in Nat /\ h < BlockSize
  BY ConfigFacts DEF D!Offsets
<1>3. 0 \in N
  <2>1. f[0].ssd = s /\ f[0].moved = D!NoneMoved
    BY <1>1
  <2>2. \A i \in D!Offsets : ~(i < 0)
    BY <1>2 DEF D!Offsets
  <2>3. \A l \in D!Lpns : D!NoneMoved[l] = -1
    BY DEF D!NoneMoved
  <2>4. s.current_page # -1
    <3>1. s.current_page = -1 => s.current_free = 0
      BY DEF Good, Sane, Space, Lists
    <3>2. b \notin s.current_free .. NumberOfBlocks - 1
      BY DEF Free
    <3> QED
      BY <1>2, <3>1, <3>2 DEF D!Blocks
  <2>5. SameMaps(s, s) /\ SameCache(s, s)
    BY DEF SameMaps, SameCache
  <2>6. f[0] = [ssd |-> f[0].ssd, moved |-> f[0].moved]
    BY <1>1
  <2>7. Cleans(FALSE, s, b, 0, f[0])
    BY <2>1, <2>2, <2>3, <2>4, <2>5, <2>6 DEF Cleans
  <2>8. s.nested = FALSE
    BY DEF Good, Sane, States
  <2>9. Left(s, Copies(h, 0))
    BY DEF Ready, Left
  <2> QED
    BY <2>1, <2>7, <2>8, <2>9 DEF Spares, Marked
<1>4. ASSUME NEW i \in Nat, i \in N PROVE i + 1 \in N
  <2> SUFFICES ASSUME i + 1 <= BlockSize PROVE Spares(s, b, h, i + 1, f[i + 1])
    OBVIOUS
  <2>1. i <= BlockSize /\ i \in D!Offsets /\ i + 1 \in 0 .. BlockSize /\ i + 1 # 0 /\ i + 1 - 1 = i
    BY <1>2 DEF D!Offsets
  <2>2. Spares(s, b, h, i, f[i])
    BY <1>4, <2>1
  <2>3. f[i + 1] = D!CleanPage(gc, f[i], D!Page(b, i))
    BY <1>1, <2>1
  <2>4. PICK a, c : a = f[i] /\ c = f[i + 1]
    BY ONLY TRUE
  <2>5. Spares(s, b, h, i, a) /\ c = D!CleanPage(gc, a, D!Page(b, i))
    BY ONLY <2>2, <2>3, <2>4
  <2>6. Spares(s, b, h, i + 1, c)
    BY ONLY <2>1, <2>5, CleanPageSpare, b \in D!Blocks, h \in D!Offsets,
            StateOf(s, b, h) = "INVALID"
  <2> QED
    BY ONLY <2>4, <2>6
<1>5. BlockSize \in N
  <2> HIDE DEF N
  <2>1. \A i \in Nat : i \in N
    BY <1>3, <1>4, NatSetInduction
  <2> QED
    BY ONLY <1>2, <2>1
<1>6. PICK a : a = D!Cleaned(gc, s, b)
  BY ONLY TRUE
<1>7. Cleans(FALSE, s, b, BlockSize, a) /\ ~Marked(a.ssd) /\ Left(a.ssd, Copies(h, BlockSize))
  <2>1. Spares(s, b, h, BlockSize, f[BlockSize])
    BY ONLY <1>2, <1>5
  <2>2. Spares(s, b, h, BlockSize, a)
    BY ONLY <1>1, <1>6, <2>1
  <2> QED
    BY ONLY <2>2 DEF Spares
<1>8. Copies(h, BlockSize) = BlockSize - 1
  BY ONLY <1>2 DEF Copies
<1>9. PICK t : t = a.ssd
  BY ONLY TRUE
<1>10. t \in States /\ ~Marked(t) /\ Left(t, BlockSize - 1)
  BY ONLY <1>7, <1>8, <1>9 DEF Cleans, Void, Good, Sane
<1>11. r = D!Remapped(t, a.moved)
  BY <1>6, <1>9 DEF D!Cleanup
<1>12. Keeps(r, t)
  BY ONLY <1>11, KeepsRemapped
<1>13. r.nested = FALSE /\ Left(r, BlockSize - 1)
  BY ONLY <1>10, <1>12, UnusedKept
<1>14. Void(FALSE, r) \/ CleanedUp(r, s, b)
  BY ONLY CleanupFacts, Good(s, D!NoneMoved, FALSE), b \in D!Blocks, b \notin Free(s),
          ~IsCurrent(s, b), r = D!Cleanup(gc, s, b)
<1> QED
  BY ONLY <1>13, <1>14 DEF Void, Marked

LEMMA SomeInvalid ==
  ASSUME NEW s, NEW b, D!InvalidCount(s, b) > 0
  PROVE  \E i \in D!Offsets : StateOf(s, b, i) = "INVALID"
<1> SUFFICES ASSUME \A i \in D!Offsets : StateOf(s, b, i) # "INVALID" PROVE FALSE
  OBVIOUS
<1>1. {i \in D!Offsets : s.state[D!Page(b, i)] = "INVALID"} = {}
  BY DEF StateOf
<1>2. D!InvalidCount(s, b) = Cardinality({})
  BY <1>1, CardinalitySame DEF D!InvalidCount
<1>3. D!InvalidCount(s, b) = 0
  BY ONLY <1>2, FS_EmptySet
<1> QED
  BY ONLY <1>3, D!InvalidCount(s, b) > 0

(* And then the block is free.                                             *)
LEMMA EraseSpare ==
  ASSUME NEW s \in States, NEW b \in D!Blocks, Left(s, BlockSize - 1),
         NEW r, Collected(r, s, b)
  PROVE  Gained(r)
<1>1. /\ r \in States /\ r.free_list = Append(s.free_list, b)
      /\ r.current_free = s.current_free /\ r.current_page = s.current_page
  BY DEF Collected, Good, Sane
<1>2. Unused(r) = Unused(s) + 1
  <2>1. PICK n, m : n = Len(s.free_list) /\ m = Len(r.free_list)
    BY ONLY TRUE
  <2>2. PICK k : k = s.current_free
    BY ONLY TRUE
  <2>3. s.free_list \in Seq(D!Blocks)
    BY DEF States
  <2>4. n \in Nat /\ NumberOfBlocks \in Nat /\ k \in Int /\ m = n + 1
    <3>1. n \in Nat /\ k \in 0 .. NumberOfBlocks /\ NumberOfBlocks \in Nat
      BY ONLY UnusedFacts, <2>1, <2>2, s \in States
    <3>2. m = n + 1
      BY ONLY <1>1, <2>1, <2>3, AppendProperties, b \in D!Blocks
    <3> QED
      BY ONLY <3>1, <3>2
  <2>5. Unused(s) = n + NumberOfBlocks - k /\ Unused(r) = m + NumberOfBlocks - k
    BY ONLY <1>1, <2>1, <2>2 DEF Unused
  <2> QED
    BY ONLY <2>4, <2>5
<1>3. Unused(s) \in Nat
  BY UnusedFacts
<1>4. CASE Unused(s) > 1
  <2>1. Unused(r) > 2 /\ Unused(r) > 1
    BY ONLY <1>2, <1>3, <1>4
  <2> QED
    BY <2>1 DEF Gained, Ready
<1>5. CASE Unused(s) = 1 /\ s.current_page # -1 /\ D!Offset(s.current_page) < BlockSize - 1
  <2>1. Unused(r) > 1
    BY ONLY <1>2, <1>5
  <2>2. ~D!AtEnd(r)
    <3>1. ~(BlockSize - 1 < BlockSize - 1)
      BY ConfigFacts
    <3> QED
      BY ONLY <1>1, <1>5, <3>1 DEF D!AtEnd
  <2> QED
    BY <2>1, <2>2 DEF Gained, Ready
<1> QED
  BY ONLY <1>4, <1>5, Left(s, BlockSize - 1) DEF Left

LEMMA RoundSpare ==
  ASSUME NEW gc, NEW s, Good(s, D!NoneMoved, FALSE), Ready(s), NEW b \in D!Blocks,
         NEW r, r = D!Round(gc, s, b)
  PROVE  (r = s /\ Passed(s, b)) \/ (Freed(r, s) /\ Gained(r))
<1>1. CASE Passed(s, b)
  BY <1>1 DEF D!Round, Passed
<1>2. CASE ~Passed(s, b)
  <2>1. PICK t : t = D!Cleanup(gc, s, b)
    BY ONLY TRUE
  <2>2. s \in States /\ s.asserted = TRUE /\ Space(s, FALSE)
    BY DEF Good, Sane
  <2>3. r = D!EraseCollected(t, b)
    BY <1>2, <2>1, <2>2 DEF D!Round, Passed
  <2>4. /\ s.pages_valid[b] = BlockSize /\ BlockSize # 0 /\ b # s.current_writing
        /\ D!InvalidCount(s, b) > 0
    BY <1>2, ConfigFacts DEF Passed, D!IsCollectable
  <2>5. b \notin Free(s) /\ ~IsCurrent(s, b)
    <3>1. ~IsCurrent(s, b)
      BY <2>2, <2>4 DEF IsCurrent, Space, Lists
    <3>2. s.pages_valid[b] = Height(s, FALSE, b)
      BY <2>2 DEF Space
    <3>3. b \in Free(s) => Height(s, FALSE, b) = 0
      BY <3>1 DEF Height
    <3> QED
      BY ONLY <2>4, <3>1, <3>2, <3>3
  <2>6. PICK h \in D!Offsets : StateOf(s, b, h) = "INVALID"
    BY ONLY <2>4, SomeInvalid
  <2>7. CleanedUp(t, s, b) /\ Left(t, BlockSize - 1)
    BY ONLY <2>1, <2>5, <2>6, CleanupSpare, Good(s, D!NoneMoved, FALSE), Ready(s),
            b \in D!Blocks
  <2>8. /\ Good(t, D!NoneMoved, FALSE) /\ t \in States
        /\ b \notin Free(t) /\ ~IsCurrent(t, b)
        /\ \A j \in D!Offsets : StateOf(t, b, j) = "INVALID"
    BY ONLY <2>7 DEF CleanedUp, Good, Sane
  <2>9. PICK e : e = D!EraseCollected(t, b)
    BY ONLY TRUE
  <2>10. Collected(e, t, b)
    BY ONLY <2>8, <2>9, EraseCollectedFacts, b \in D!Blocks
  <2>11. Gained(e)
    BY ONLY <2>7, <2>8, <2>10, EraseSpare, b \in D!Blocks
  <2>12. ~Void(FALSE, e)
    BY ONLY <2>10 DEF Collected, Good, Sane, States, Void, Marked
  <2>13. Freed(e, s)
    BY ONLY <1>2, <2>3, <2>9, <2>12, RoundFacts, Good(s, D!NoneMoved, FALSE), b \in D!Blocks,
            r = D!Round(gc, s, b)
  <2> QED
    BY ONLY <2>3, <2>9, <2>11, <2>13
<1> QED
  BY ONLY <1>1, <1>2

LEMMA AgainSpare ==
  ASSUME NEW gc, NEW s, Good(s, D!NoneMoved, FALSE), Ready(s), NEW r, r = D!Again(gc, s)
  PROVE  \/ r = s /\ ~D!IsCollectable(s, D!Costliest(s))
         \/ Freed(r, s) /\ Gained(r)
<1>1. s \in States /\ Ordered(s)
  BY DEF Good, Sane
<1>2. PICK b : b = D!Costliest(s)
  BY ONLY TRUE
<1>3. b \in D!Blocks /\ b # s.current_writing
  BY <1>1, <1>2, LastFacts
<1>4. r = D!Round(gc, s, b)
  BY <1>2 DEF D!Again
<1>5. (r = s /\ Passed(s, b)) \/ (Freed(r, s) /\ Gained(r))
  BY ONLY <1>3, <1>4, RoundSpare, Good(s, D!NoneMoved, FALSE), Ready(s)
<1> QED
  BY ONLY <1>2, <1>3, <1>5 DEF Passed

(* A collection frees a block, or finds none.                              *)
Quiet(s) ==
  \/ ~D!IsUsed(s)
  \/ ~D!IsCollectable(s, D!Last(s.active_cost)) \/ ~D!IsCollectable(s, D!Costliest(s))
Collects(r, s) == Kept(r, s) /\ Ready(r) /\ (Gained(r) \/ r = s)

LEMMA AgainCollects ==
  ASSUME NEW gc, NEW s0, NEW s, Collects(s, s0), NEW r, r = D!Again(gc, s)
  PROVE  Collects(r, s0) /\ (Gained(r) \/ Quiet(r))
<1>1. Good(s, D!NoneMoved, FALSE) /\ Ready(s) /\ Kept(s, s0)
  BY DEF Collects, Kept
<1>2. CASE r = s /\ ~D!IsCollectable(s, D!Costliest(s))
  BY <1>2 DEF Quiet
<1>3. CASE Freed(r, s) /\ Gained(r)
  <2>1. Kept(r, s0)
    BY ONLY <1>1, <1>3, KeptTwice DEF Freed
  <2> QED
    BY ONLY <1>3, <2>1 DEF Collects, Gained
<1> QED
  BY ONLY <1>1, <1>2, <1>3, AgainSpare, r = D!Again(gc, s)

LEMMA CollectSpare ==
  ASSUME NEW gc, NEW s, Good(s, D!NoneMoved, FALSE), Ready(s), NEW r, r = D!InsertByCost(gc, s)
  PROVE  Collects(r, s) /\ (Gained(r) \/ (r = s /\ Quiet(s)))
<1>1. Collects(s, s)
  BY DEF Collects, Kept
<1>2. CASE ~D!IsUsed(s)
  BY <1>1, <1>2 DEF D!InsertByCost, Quiet
<1>3. CASE ~D!IsCollectable(s, D!Last(s.active_cost))
  BY <1>1, <1>3 DEF D!InsertByCost, D!Collect, Quiet
<1>4. CASE D!IsUsed(s) /\ D!IsCollectable(s, D!Last(s.active_cost))
  <2>1. PICK b : b = D!Last(s.active_cost)
    BY ONLY TRUE
  <2>2. PICK t : t = D!Round(gc, s, b)
    BY ONLY TRUE
  <2>3. PICK u : u = D!Again(gc, t)
    BY ONLY TRUE
  <2>4. PICK v : v = D!Again(gc, u)
    BY ONLY TRUE
  <2>5. PICK w : w = D!Again(gc, v)
    BY ONLY TRUE
  <2>6. r = D!Again(gc, w)
    BY <1>4, <2>1, <2>2, <2>3, <2>4, <2>5 DEF D!InsertByCost, D!Collect
  <2>7. Collects(t, s)
    <3>1. b \in D!Blocks
      BY <2>1, LastFacts DEF Good, Sane
    <3>2. t = s \/ (Freed(t, s) /\ Gained(t))
      BY ONLY <2>2, <3>1, RoundSpare, Good(s, D!NoneMoved, FALSE), Ready(s)
    <3> QED
      BY ONLY <1>1, <3>2 DEF Collects, Freed, Gained
  <2>8. Collects(u, s)
    BY ONLY <2>3, <2>7, AgainCollects
  <2>9. Collects(v, s)
    BY ONLY <2>4, <2>8, AgainCollects
  <2>10. Collects(w, s)
    BY ONLY <2>5, <2>9, AgainCollects
  <2>11. Collects(r, s) /\ (Gained(r) \/ Quiet(r))
    BY ONLY <2>6, <2>10, AgainCollects
  <2> QED
    BY ONLY <2>11 DEF Collects
<1> QED
  BY ONLY <1>2, <1>3, <1>4

LEMMA FreeCount ==
  ASSUME NEW s \in States
  PROVE  IsFiniteSet(Free(s)) /\ Cardinality(Free(s)) <= Unused(s)
<1>0. PICK n, k : n = Len(s.free_list) /\ k = s.current_free
  BY ONLY TRUE
<1> DEFINE I == k .. NumberOfBlocks - 1
<1>1. /\ n \in Nat /\ k \in 0 .. NumberOfBlocks /\ NumberOfBlocks \in Nat
      /\ k \in Int /\ NumberOfBlocks - 1 \in Int
  <2>1. n \in Nat /\ k \in 0 .. NumberOfBlocks /\ NumberOfBlocks \in Nat
    BY ONLY <1>0, UnusedFacts, s \in States
  <2> QED
    BY ONLY <2>1
<1>2. s.free_list \in [1 .. n -> D!Blocks] /\ DOMAIN s.free_list = 1 .. n
  <2>1. s.free_list \in Seq(D!Blocks)
    BY DEF States
  <2> QED
    BY ONLY <1>0, <2>1
<1>3. s.free_list \in Surjection(1 .. n, Listed(s))
  BY ONLY <1>2 DEF Listed, Surjection
<1>4. IsFiniteSet(1 .. n) /\ Cardinality(1 .. n) = n
  <2>1. /\ IsFiniteSet(1 .. n)
        /\ Cardinality(1 .. n) = IF 1 > n THEN 0 ELSE n - 1 + 1
    BY ONLY <1>1, FS_Interval
  <2>2. (IF 1 > n THEN 0 ELSE n - 1 + 1) = n
    BY ONLY <1>1
  <2> QED
    BY ONLY <2>1, <2>2
<1>5. IsFiniteSet(Listed(s)) /\ Cardinality(Listed(s)) <= n
  BY ONLY <1>3, <1>4, FS_Surjection
<1>6. IsFiniteSet(I) /\ Cardinality(I) = NumberOfBlocks - k
  <2>1. /\ IsFiniteSet(I)
        /\ Cardinality(I)
             = IF k > NumberOfBlocks - 1 THEN 0 ELSE NumberOfBlocks - 1 - k + 1
    BY ONLY <1>1, FS_Interval
  <2>2. (IF k > NumberOfBlocks - 1 THEN 0 ELSE NumberOfBlocks - 1 - k + 1) = NumberOfBlocks - k
    BY ONLY <1>1
  <2> QED
    BY ONLY <2>1, <2>2
<1>7. Free(s) = Listed(s) \cup I
  BY <1>0 DEF Free
<1>8. PICK a, b, c : /\ a = Cardinality(Listed(s)) /\ b = Cardinality(I)
                     /\ c = Cardinality(Listed(s) \cap I)
  BY ONLY TRUE
<1> HIDE DEF I
<1>9. IsFiniteSet(Free(s)) /\ Cardinality(Free(s)) = a + b - c
  BY ONLY <1>5, <1>6, <1>7, <1>8, FS_Union
<1>10. a \in Nat /\ b \in Nat /\ c \in Nat
  <2>1. Listed(s) \cap I \in SUBSET I
    OBVIOUS
  <2>2. IsFiniteSet(Listed(s) \cap I)
    BY ONLY <1>6, <2>1, FS_Subset
  <2> QED
    BY ONLY <1>5, <1>6, <1>8, <2>2, FS_CardinalityType
<1>11. Unused(s) = n + NumberOfBlocks - k
  BY <1>0 DEF Unused
<1>12. a + b - c <= n + NumberOfBlocks - k
  <2>1. a <= n /\ b = NumberOfBlocks - k
    BY ONLY <1>5, <1>6, <1>8
  <2> QED
    BY ONLY <1>1, <1>10, <2>1
<1> QED
  BY ONLY <1>9, <1>11, <1>12

(* The last page written is valid, or trimmed: then not all lpns are mapped. *)
Fresh(s) ==
  s.current_page # -1 =>
    s.state[s.current_page] = "VALID" \/ \E l \in D!Lpns : s.ppn[l] = -1

(* If a collection finds none, then more than two blocks are free.         *)
LEMMA SpareRoom ==
  ASSUME Spacious, NEW s, Good(s, D!NoneMoved, FALSE), D!AtEnd(s), Quiet(s), Ready(s), Fresh(s)
  PROVE  Unused(s) > 2
<1> SUFFICES ASSUME ~(Unused(s) > 2) PROVE FALSE
  OBVIOUS
<1>1. /\ s \in States /\ Space(s, FALSE) /\ Maps(s, D!NoneMoved) /\ Ordered(s)
      /\ Lists(s) /\ Filled(s)
  BY DEF Good, Sane, Space
<1>2. PICK n, k, d : n = Len(s.free_list) /\ k = s.current_free /\ d = s.data_active
  BY ONLY TRUE
<1>3. /\ n \in Nat /\ k \in 0 .. NumberOfBlocks /\ NumberOfBlocks \in Nat /\ d \in Int
      /\ NumberOfBlocks > 20 /\ BlockSize \in Nat
  <2>1. n \in Nat /\ k \in 0 .. NumberOfBlocks
    BY ONLY <1>1, <1>2, UnusedFacts
  <2>2. d \in Int
    BY <1>1, <1>2 DEF States
  <2> QED
    BY <2>1, <2>2, ConfigFacts DEF Spacious
<1>4. Unused(s) = 2 /\ n + NumberOfBlocks - k = 2
  <2>1. Unused(s) = n + NumberOfBlocks - k
    BY ONLY <1>2 DEF Unused
  <2>2. n + NumberOfBlocks - k > 1 /\ ~(n + NumberOfBlocks - k > 2)
    BY ONLY <2>1, Ready(s), ~(Unused(s) > 2) DEF Ready
  <2> QED
    BY ONLY <1>3, <2>1, <2>2
<1>5. s.current_page # -1 /\ D!Offset(s.current_page) = BlockSize - 1 /\ k <= d
  <2>1. k # 0
    BY ONLY <1>3, <1>4
  <2> QED
    BY <1>1, <1>2, <2>1 DEF Lists, D!AtEnd
<1>6. D!IsUsed(s)
  <2>1. 10 * (0 + 0 + d - n) > 9 * NumberOfBlocks
    BY ONLY <1>3, <1>4, <1>5
  <2>2. s.invalid_list = << >> /\ s.log_active = 0 /\ Len(<< >>) = 0
    BY <1>1 DEF States
  <2> QED
    BY ONLY <1>2, <2>1, <2>2 DEF D!IsUsed
<1>7. ~D!IsCollectable(s, D!Last(s.active_cost)) \/ ~D!IsCollectable(s, D!Costliest(s))
  BY ONLY <1>6, Quiet(s) DEF Quiet
<1>8. \A b \in D!Blocks : b \notin Free(s) => s.pages_valid[b] = BlockSize
  <2>1. ASSUME NEW b \in D!Blocks, b \notin Free(s) PROVE s.pages_valid[b] = BlockSize
    <3>1. s.pages_valid[b] = Height(s, FALSE, b)
      BY <1>1 DEF Space
    <3>2. BlockSize - 1 + 1 = BlockSize
      BY ONLY <1>3
    <3> QED
      BY <1>5, <2>1, <3>1, <3>2 DEF Height
  <2> QED
    BY ONLY <2>1
<1>9. \A b \in D!Blocks : D!InvalidCount(s, b) > 0 => s.pages_valid[b] = BlockSize
  <2>1. ASSUME NEW b \in Free(s), b \in D!Blocks, NEW i \in D!Offsets
        PROVE  StateOf(s, b, i) = "EMPTY"
    <3>1. s.pages_valid[b] = 0
      BY <1>1, <2>1 DEF Space, Height
    <3>2. 0 <= i
      BY DEF D!Offsets
    <3> QED
      BY <1>1, <2>1, <3>1, <3>2 DEF Filled
  <2>2. ASSUME NEW b \in D!Blocks, D!InvalidCount(s, b) > 0 PROVE s.pages_valid[b] = BlockSize
    <3>1. PICK i \in D!Offsets : StateOf(s, b, i) = "INVALID"
      BY ONLY <2>2, SomeInvalid
    <3>2. b \notin Free(s)
      BY ONLY <2>1, <2>2, <3>1, "INVALID" # "EMPTY"
    <3> QED
      BY ONLY <1>8, <2>2, <3>2
  <2> QED
    BY ONLY <2>2
<1>10. PICK c \in D!Blocks : \A b \in D!Blocks : b # c => D!InvalidCount(s, b) = 0
  BY ONLY <1>1, <1>7, <1>9, SettledCosts
<1>11. PICK full : full = (D!Blocks \ Free(s)) \ {c}
  BY ONLY TRUE
<1>12. ASSUME NEW b \in full, NEW i \in D!Offsets
       PROVE  StateOf(s, b, i) = "VALID"
  <2>1. b \in D!Blocks /\ b \notin Free(s) /\ b # c
    BY ONLY <1>11
  <2>2. StateOf(s, b, i) # "INVALID"
    BY <1>10, <2>1, NoneInvalid
  <2>3. StateOf(s, b, i) # "EMPTY"
    <3>1. s.pages_valid[b] = BlockSize /\ ~(BlockSize <= i)
      BY <1>8, <2>1, ConfigFacts DEF D!Offsets
    <3> QED
      BY <1>1, <2>1, <3>1 DEF Filled
  <2> QED
    BY <1>1, <2>1, <2>2, <2>3, Addresses DEF StateOf, States
<1>13. /\ IsFiniteSet(full) /\ Cardinality(full) >= DftlLogicalBlocks
       /\ c \in Free(s) => Cardinality(full) > DftlLogicalBlocks
  <2>1. PICK u : u = D!Blocks \ Free(s)
    BY ONLY TRUE
  <2>2. PICK a, e : a = Cardinality(Free(s)) /\ e = Cardinality(D!Blocks \cap Free(s))
    BY ONLY TRUE
  <2>3. IsFiniteSet(Free(s)) /\ a <= 2 /\ D!Blocks \cap Free(s) \in SUBSET Free(s)
    <3>1. IsFiniteSet(Free(s)) /\ Cardinality(Free(s)) <= Unused(s)
      BY ONLY <1>1, FreeCount
    <3> QED
      BY ONLY <1>4, <2>2, <3>1
  <2>4. e <= a /\ a \in Nat /\ e \in Nat
    BY ONLY <2>2, <2>3, FS_Subset, FS_CardinalityType
  <2>5. IsFiniteSet(u) /\ Cardinality(u) = NumberOfBlocks - e
    BY ONLY <2>1, <2>2, BlocksFinite, FS_Difference
  <2>6. /\ IsFiniteSet(u \ {c})
        /\ Cardinality(u \ {c}) = IF c \in u THEN Cardinality(u) - 1 ELSE Cardinality(u)
    BY ONLY <2>5, FS_RemoveElement
  <2>7. PICK m : m = Cardinality(full)
    BY ONLY TRUE
  <2>8. /\ IsFiniteSet(full) /\ (m = NumberOfBlocks - e - 1 \/ m = NumberOfBlocks - e)
        /\ c \in Free(s) => m = NumberOfBlocks - e
    BY ONLY <1>11, <2>1, <2>5, <2>6, <2>7
  <2>9. DftlLogicalBlocks \in Nat /\ DftlLogicalBlocks < NumberOfBlocks - 2
    BY ConfigFacts DEF Spacious
  <2>10. m >= DftlLogicalBlocks /\ (c \in Free(s) => m > DftlLogicalBlocks) /\ m \in Int
    BY ONLY <1>3, <2>3, <2>4, <2>8, <2>9
  <2> QED
    BY ONLY <2>7, <2>8, <2>10
<1>14. full \in SUBSET D!Blocks
  BY ONLY <1>11
<1>15. /\ c \notin Free(s)
       /\ \A l \in D!Lpns : \E b \in full, i \in D!Offsets : s.ppn[l] = D!Page(b, i)
  <2>1. PICK m : m = Cardinality(full)
    BY ONLY TRUE
  <2>2. m \in Int /\ DftlLogicalBlocks \in Int
    BY ONLY <1>13, <2>1, FS_CardinalityType, ConfigFacts
  <2>3. m <= DftlLogicalBlocks
    BY ONLY <1>1, <1>12, <1>13, <1>14, <2>1, Crowded
  <2>4. m = DftlLogicalBlocks /\ c \notin Free(s)
    BY ONLY <1>13, <2>1, <2>2, <2>3
  <2> QED
    BY ONLY <1>1, <1>12, <1>13, <1>14, <2>1, <2>4, Crowded
<1>16. ASSUME NEW i \in D!Offsets PROVE StateOf(s, c, i) # "VALID"
  <2>1. SUFFICES ASSUME StateOf(s, c, i) = "VALID" PROVE FALSE
    OBVIOUS
  <2>2. PICK p : p = D!Page(c, i)
    BY ONLY TRUE
  <2>3. p \in D!Pages /\ s.state[p] = "VALID" /\ D!BlockOf(p) = c
    BY <2>1, <2>2, Addresses DEF StateOf
  <2>4. s.data[p] \in D!Lpns /\ s.ppn[s.data[p]] = p
    <3>1. s.data[p] \in D!Lpns /\ To(s, D!NoneMoved, s.data[p]) = p
      BY <1>1, <2>3 DEF Maps
    <3> QED
      BY <3>1 DEF To, D!NoneMoved
  <2>5. PICK b \in full, j \in D!Offsets : p = D!Page(b, j)
    BY ONLY <1>15, <2>4
  <2>6. D!BlockOf(p) = b
    BY ONLY <1>14, <2>5, Addresses
  <2> QED
    BY ONLY <1>11, <2>3, <2>5, <2>6
<1>17. s.current_page \in D!Pages /\ s.state[s.current_page] = "VALID"
  <2>1. s.current_page \in D!Pages
    BY <1>1, <1>5 DEF States
  <2>2. ASSUME NEW l \in D!Lpns PROVE s.ppn[l] # -1
    BY ONLY <1>14, <1>15, Addresses, LpnFacts
  <2> QED
    BY ONLY <1>5, <2>1, <2>2, Fresh(s) DEF Fresh
<1>18. c # s.current_writing
  <2>1. PICK p : p = s.current_page
    BY ONLY TRUE
  <2>2. D!Offset(p) \in D!Offsets /\ p = D!Page(D!BlockOf(p), D!Offset(p))
    BY ONLY <1>17, <2>1, Addresses
  <2>3. D!BlockOf(p) # c
    BY ONLY <1>16, <1>17, <2>1, <2>2 DEF StateOf
  <2> QED
    BY ONLY <1>1, <1>5, <2>1, <2>3 DEF Lists
<1>19. s.pages_valid[c] = BlockSize
  BY ONLY <1>8, <1>15
<1>20. D!InvalidCount(s, c) > 0
  <2>1. 0 \in D!Offsets /\ ~(BlockSize <= 0)
    BY ConfigFacts DEF D!Offsets
  <2>2. StateOf(s, c, 0) # "EMPTY"
    BY <1>1, <1>19, <2>1 DEF Filled
  <2>3. StateOf(s, c, 0) \in {"EMPTY", "VALID", "INVALID"}
    BY <1>1, <2>1, Addresses DEF StateOf, States
  <2>4. StateOf(s, c, 0) = "INVALID"
    BY ONLY <1>16, <2>1, <2>2, <2>3
  <2>5. D!InvalidCount(s, c) # 0
    BY ONLY <2>1, <2>4, NoneInvalid
  <2>6. D!InvalidCount(s, c) \in 0 .. BlockSize
    BY CountTyped
  <2> QED
    BY ONLY <1>3, <2>5, <2>6
<1>21. D!Last(s.active_cost) = c
  <2>1. /\ D!Last(s.active_cost) = s.active_cost[NumberOfBlocks]
        /\ D!Last(s.active_cost) \in D!Blocks
    BY ONLY <1>1, LastFacts
  <2>2. PICK m \in 1 .. NumberOfBlocks : s.active_cost[m] = c
    BY <1>1 DEF Ordered
  <2>3. ASSUME s.active_cost[NumberOfBlocks] # c PROVE FALSE
    <3>1. D!InvalidCount(s, s.active_cost[NumberOfBlocks]) = 0
      BY ONLY <1>10, <2>1, <2>3
    <3>2. m < NumberOfBlocks /\ NumberOfBlocks \in 1 .. NumberOfBlocks
      BY ONLY <1>3, <2>2, <2>3
    <3>3. D!InvalidCount(s, c) <= D!InvalidCount(s, s.active_cost[NumberOfBlocks])
      BY ONLY <1>1, <2>2, <3>2 DEF Ordered, Cost
    <3>4. PICK x : x = D!InvalidCount(s, c)
      BY ONLY TRUE
    <3>5. x \in 0 .. BlockSize
      BY <3>4, CountTyped
    <3> QED
      BY ONLY <1>3, <1>20, <3>1, <3>3, <3>4, <3>5
  <2> QED
    BY ONLY <2>1, <2>3
<1>22. D!Costliest(s) = c /\ D!IsCollectable(s, c)
  BY ONLY <1>18, <1>19, <1>20, <1>21 DEF D!Costliest, D!IsCollectable
<1> QED
  BY ONLY <1>7, <1>21, <1>22

(* So a page for a write is there, and two blocks remain free.             *)
LEMMA NextPageSpare ==
  ASSUME NEW s, Good(s, D!NoneMoved, FALSE), Gained(s), NEW r, r = D!NextPage(s)
  PROVE  r \in States /\ Ready(r)
<1>1. s \in States /\ Space(s, FALSE) /\ Ready(s)
  BY DEF Good, Sane, Gained
<1>2. CASE ~D!AtEnd(s)
  <2>1. r = D!NextInBlock(s)
    BY <1>2 DEF D!NextPage
  <2>2. r \in States
    BY ONLY <1>1, <1>2, <2>1, NextInBlockFacts
  <2>3. r.free_list = s.free_list /\ r.current_free = s.current_free
    BY <1>1, <2>1 DEF D!NextInBlock, States
  <2> QED
    BY ONLY <1>1, <2>2, <2>3 DEF Ready, Unused
<1>3. CASE D!AtEnd(s)
  <2>1. Unused(s) > 2 /\ Unused(s) > 1
    BY <1>3 DEF Gained, Ready
  <2>2. ~D!RunsOut(s) /\ (s.current_free < NumberOfBlocks \/ s.free_list # << >>)
    BY ONLY <1>1, <2>1, UnusedFacts
  <2>3. r = D!StartBlock(D!TakeBlock(s))
    BY <1>3, <2>2 DEF D!NextPage, D!GetBlock
  <2>4. r \in States /\ Unused(r) = Unused(s) - 1
    BY ONLY <1>1, <2>2, <2>3, TakeUnused
  <2>5. Unused(s) \in Nat
    BY ONLY <1>1, UnusedFacts
  <2>6. Unused(r) > 1
    BY ONLY <2>1, <2>4, <2>5
  <2> QED
    BY ONLY <2>4, <2>6 DEF Ready
<1> QED
  BY ONLY <1>2, <1>3

LEMMA GetFreeDataPageSpare ==
  ASSUME Spacious, NEW s, Good(s, D!NoneMoved, FALSE), Ready(s), Fresh(s),
         NEW r, r = D!GetFreeDataPage(s)
  PROVE  r \in States /\ Ready(r)
<1> DEFINE gc == D!InsertEventsByCost
<1> HIDE DEF gc
<1>1. PICK t : t = IF D!AtEnd(s) THEN D!CollectFirst(s) ELSE s
  BY ONLY TRUE
<1>2. r = D!NextPage(t)
  BY <1>1 DEF D!GetFreeDataPage
<1>3. Good(t, D!NoneMoved, FALSE) /\ Gained(t)
  <2>1. CASE ~D!AtEnd(s)
    BY <1>1, <2>1 DEF Gained
  <2>2. CASE D!AtEnd(s)
    <3>1. t = D!InsertByCost(gc, s)
      BY <1>1, <2>2 DEF D!CollectFirst, gc
    <3>2. Collects(t, s) /\ (Gained(t) \/ (t = s /\ Quiet(s)))
      BY ONLY <3>1, CollectSpare, Good(s, D!NoneMoved, FALSE), Ready(s)
    <3>3. Good(t, D!NoneMoved, FALSE) /\ Ready(t)
      BY ONLY <3>2 DEF Collects, Kept
    <3>4. CASE t = s /\ Quiet(s)
      <4>1. Unused(s) > 2
        BY ONLY <2>2, <3>4, SpareRoom, Spacious, Good(s, D!NoneMoved, FALSE), Ready(s), Fresh(s)
      <4> QED
        BY ONLY <3>3, <3>4, <4>1 DEF Gained
    <3> QED
      BY ONLY <3>2, <3>3, <3>4
  <2> QED
    BY ONLY <2>1, <2>2
<1> QED
  BY ONLY <1>2, <1>3, NextPageSpare

(* What a request leaves, and what leaves it so.                           *)
Rests(r, s) ==
  /\ r.free_list = s.free_list /\ r.current_free = s.current_free
  /\ r.current_page = s.current_page /\ r.state = s.state /\ r.ppn = s.ppn

Open(s) ==
  /\ {"free_list", "current_free", "current_page", "nested", "state", "ppn"} \subseteq DOMAIN s
  /\ s.nested = FALSE /\ Ready(s) /\ Fresh(s)

LEMMA OpenKept ==
  ASSUME NEW s \in States, Ready(s), NEW r, Keeps(r, s), Fresh(r)
  PROVE  Open(r)
<1>1. r.nested = FALSE /\ Ready(r)
  BY ONLY UnusedKept, s \in States, Ready(s), Keeps(r, s)
<1>2. {"free_list", "current_free", "current_page", "nested", "state", "ppn"} \subseteq DOMAIN s
  BY ONLY s \in States DEF States
<1>3. DOMAIN r = DOMAIN s
  BY DEF Keeps
<1> QED
  BY ONLY <1>1, <1>2, <1>3, Fresh(r) DEF Open

LEMMA OpenAnswer ==
  ASSUME Open(ssd), NEW r, Open(r), NEW written, D!Answer(r, written)
  PROVE  Open(ssd')
<1>1. \/ ssd' = [r EXCEPT !.got = D!NoBlock]
      \/ ssd' = [ssd EXCEPT !.asserted = r.asserted, !.worn_out = @ \/ r.worn_out,
                            !.nested = r.nested]
  BY DEF D!Answer, D!Return
<1>2. PICK t : t = ssd
  BY ONLY TRUE
<1>3. PICK s : s = ssd'
  BY ONLY TRUE
<1>4. Open(t) /\ t.nested = FALSE /\ r.nested = FALSE
  BY <1>2 DEF Open
<1>5. /\ {"free_list", "current_free", "current_page", "nested", "state", "ppn"} \subseteq DOMAIN s
      /\ s.nested = FALSE /\ (Rests(s, r) \/ Rests(s, t))
  <2>1. CASE s = [r EXCEPT !.got = D!NoBlock]
    BY <2>1 DEF Open, Rests
  <2>2. CASE s = [t EXCEPT !.asserted = r.asserted, !.worn_out = @ \/ r.worn_out,
                           !.nested = r.nested]
    BY ONLY <1>4, <2>2 DEF Open, Rests
  <2> QED
    BY <1>1, <1>2, <1>3, <2>1, <2>2
<1>6. Ready(s) /\ Fresh(s)
  <2>1. ASSUME NEW u, Open(u), Rests(s, u) PROVE Ready(s) /\ Fresh(s)
    BY ONLY <2>1 DEF Open, Ready, Fresh, Unused, Rests
  <2> QED
    BY ONLY <1>4, <1>5, <2>1, Open(r)
<1>7. Open(s)
  BY ONLY <1>5, <1>6 DEF Open
<1> QED
  BY ONLY <1>3, <1>7 DEF Open, Ready, Fresh, Unused

LEMMA FreshRequest ==
  ASSUME NEW s \in States, Fresh(s), NEW l, NEW out
  PROVE  Fresh(D!Served(s)) /\ Fresh(D!Resolved(s, l, out))
<1>1. Rests(D!Served(s), s)
  BY DEF D!Served, Rests, States
<1>2. Rests(D!Resolved(s, l, out), s)
  BY DEF D!Resolved, Rests, States
<1> QED
  BY ONLY <1>1, <1>2, Fresh(s) DEF Fresh, Rests

(* A write leaves a valid page, a trim one lpn that is not mapped.         *)
LEMMA FreshWrite ==
  ASSUME NEW s, GotPage(s, s), NEW l \in D!Lpns, NEW r, r = D!StoreNext(s, l), Keeps(r, s)
  PROVE  Fresh(r)
<1>1. Good(s, D!NoneMoved, TRUE) /\ s.current_page \in D!Pages /\ s \in States
  BY DEF GotPage, Good, Sane
<1>2. Stored(r, s, l)
  BY <1>1, StoreFacts
<1>3. r.current_page = s.current_page
  BY <1>1 DEF Keeps, States
<1> QED
  BY ONLY <1>2, <1>3 DEF Stored, Fresh

LEMMA FreshTrim ==
  ASSUME trimming, NEW s, Good(s, D!NoneMoved, FALSE), Fresh(s), NEW l \in D!Lpns
  PROVE  Fresh(D!TrimMapped(s, l))
<1>1. CASE s.ppn[l] = -1
  BY <1>1 DEF D!TrimMapped
<1>2. CASE s.ppn[l] # -1
  <2>1. PICK r : r = D!TrimMapped(s, l)
    BY ONLY TRUE
  <2>2. Trimmed(r, s, l)
    BY <2>1, TrimFacts
  <2>3. r.ppn[l] = -1
    BY ONLY <2>2, l \in D!Lpns DEF Trimmed
  <2> QED
    BY ONLY <2>1, <2>3, l \in D!Lpns DEF Fresh
<1> QED
  BY ONLY <1>1, <1>2

LEMMA RequestOpen ==
  ASSUME Spacious, Safe(ssd, live), Open(ssd), NEW l \in D!Lpns,
         D!Read(l) \/ D!Write(l) \/ (trimming /\ D!Trim(l))
  PROVE  Open(ssd')
<1>1. D!CanServe
  BY DEF D!Read, D!Write, D!Trim
<1>2. ~Marked(ssd) /\ Ready(ssd) /\ Fresh(ssd)
  BY DEF Open, Marked
<1>3. Good(ssd, D!NoneMoved, FALSE)
  BY ONLY <1>1, <1>2, Live, Safe(ssd, live)
<1>4. PICK u : u = ssd
  BY ONLY TRUE
<1>5. u \in States /\ Good(u, D!NoneMoved, FALSE) /\ Ready(u) /\ Fresh(u)
  BY <1>2, <1>3, <1>4 DEF Good, Sane
<1>6. PICK v : v = D!Served(u)
  BY ONLY TRUE
<1>7. Keeps(v, u)
  BY <1>6, KeepsRequest
<1>8. ASSUME NEW out PROVE Keeps(D!Resolved(v, l, out), u)
  <2>1. Keeps(D!Resolved(v, l, out), v)
    BY KeepsRequest
  <2> QED
    BY ONLY <1>7, <2>1, KeepsTwice
<1>12. v \in States /\ Good(v, D!NoneMoved, FALSE) /\ Fresh(v)
  <2>1. Good(v, D!NoneMoved, FALSE)
    BY <1>5, <1>6, ServedFacts DEF Mapped
  <2> QED
    BY <1>5, <1>6, <2>1, FreshRequest DEF Good, Sane
<1>13. ASSUME NEW out PROVE Fresh(D!Resolved(v, l, out))
  BY ONLY <1>12, FreshRequest
<1>9. CASE D!Read(l)
  <2>1. PICK out : D!Answer(D!Resolved(v, l, out), live)
    BY <1>4, <1>6, <1>9 DEF D!Read
  <2>2. PICK r : r = D!Resolved(v, l, out)
    BY ONLY TRUE
  <2>3. Open(r)
    BY ONLY <1>5, <1>8, <1>13, <2>2, OpenKept
  <2>4. D!Answer(r, live)
    BY ONLY <2>1, <2>2
  <2> QED
    BY ONLY <2>3, <2>4, OpenAnswer, Open(ssd)
<1>10. CASE D!Write(l)
  <2>1. PICK out \in D!Evictable(u) :
          D!Answer(D!StoreNext(D!GetFreeDataPage(D!Resolved(v, l, out)), l), live \cup {l})
    BY <1>4, <1>6, <1>10 DEF D!Write
  <2>2. PICK s : s = D!Resolved(v, l, out)
    BY ONLY TRUE
  <2>3. Good(s, D!NoneMoved, FALSE)
    BY ONLY <1>5, <1>6, <2>2, Requested, l \in D!Lpns, out \in D!Evictable(u)
  <2>4. Ready(s)
    BY ONLY <1>5, <1>8, <2>2, UnusedKept
  <2>5. PICK t : t = D!GetFreeDataPage(s)
    BY ONLY TRUE
  <2>6. t \in States /\ Ready(t) /\ Fresh(s)
    BY ONLY <1>13, <2>2, <2>3, <2>4, <2>5, GetFreeDataPageSpare, Spacious
  <2>7. PICK r : r = D!StoreNext(t, l)
    BY ONLY TRUE
  <2>8. Keeps(r, t)
    BY <2>7, KeepsStore DEF D!StoreNext
  <2>9. Open(r)
    <3>1. GotPage(t, t)
      <4>1. Void(~Roomy, t) \/ GotPage(t, s)
        BY ONLY <2>3, <2>5, GetFreeDataPageFacts
      <4>2. Roomy
        BY ConfigFacts DEF Spacious, Roomy
      <4>3. ~Marked(t)
        BY ONLY <2>6 DEF States, Marked
      <4> QED
        BY ONLY <4>1, <4>2, <4>3 DEF Void, GotPage
    <3>2. Fresh(r)
      BY ONLY <2>7, <2>8, <3>1, FreshWrite, l \in D!Lpns
    <3> QED
      BY ONLY <2>6, <2>8, <3>2, OpenKept
  <2>10. D!Answer(r, live \cup {l})
    BY ONLY <2>1, <2>2, <2>5, <2>7
  <2> QED
    BY ONLY <2>9, <2>10, OpenAnswer, Open(ssd)
<1>11. CASE trimming /\ D!Trim(l)
  <2>1. PICK r : r = D!TrimMapped(v, l)
    BY ONLY TRUE
  <2>2. D!Answer(r, live \ {l})
    BY <1>4, <1>6, <1>11, <2>1 DEF D!Trim
  <2>3. Keeps(r, v)
    BY <2>1, KeepsTrim
  <2>4. Keeps(r, u)
    BY ONLY <1>7, <2>3, KeepsTwice
  <2>5. Open(r)
    <3>1. Fresh(r)
      BY ONLY <1>11, <1>12, <2>1, FreshTrim, l \in D!Lpns
    <3> QED
      BY ONLY <1>5, <2>4, <3>1, OpenKept
  <2> QED
    BY ONLY <2>2, <2>5, OpenAnswer, Open(ssd)
<1> QED
  BY ONLY <1>9, <1>10, <1>11, D!Read(l) \/ D!Write(l) \/ (trimming /\ D!Trim(l))

(* DftlSpare is inductive together with the invariant above.               *)
DftlSpare == DftlInv /\ (ftl = "DFTL" => Open(ssd))

LEMMA InitSpare ==
  ASSUME Spacious, Init
  PROVE  DftlSpare
<1>1. SUFFICES ASSUME ftl = "DFTL", D!Init PROVE Open(ssd)
  BY InitSafe DEF Init, DftlSpare
<1>2. PICK cost : ssd = NewDevice(cost)
  BY <1>1, InitState
<1>3. /\ {"free_list", "current_free", "current_page", "nested", "state", "ppn"}
             \subseteq DOMAIN ssd
      /\ ssd.nested = FALSE /\ ssd.free_list = << >> /\ ssd.current_free = 0
      /\ ssd.current_page = -1
  BY ONLY <1>2 DEF NewDevice
<1>4. Len(<< >>) = 0 /\ 0 + NumberOfBlocks - 0 > 1
  BY ConfigFacts DEF Spacious
<1>5. Ready(ssd)
  BY ONLY <1>3, <1>4 DEF Ready, Unused
<1> QED
  BY ONLY <1>3, <1>5 DEF Open, Fresh

LEMMA StepSpare ==
  ASSUME Spacious, DftlSpare, [Next]_vars
  PROVE  DftlSpare'
<1>1. ftl' = ftl
  BY DEF Next, vars, Read, Write, Trim, Host
<1>2. DftlInv'
  BY StepSafe DEF DftlSpare
<1>3. SUFFICES ASSUME ftl' = "DFTL" PROVE Open(ssd')
  BY <1>2 DEF DftlSpare, Open, Ready, Fresh, Unused
<1>4. ftl = "DFTL" /\ Safe(ssd, live) /\ Open(ssd)
  BY <1>1, <1>3 DEF DftlSpare, DftlInv
<1>5. CASE \E l \in D!Lpns : D!Read(l) \/ D!Write(l) \/ (trimming /\ D!Trim(l))
  BY ONLY <1>4, <1>5, RequestOpen, Spacious
<1>6. CASE UNCHANGED vars
  BY <1>4, <1>6 DEF vars
<1>7. Next => \E l \in D!Lpns : D!Read(l) \/ D!Write(l) \/ (trimming /\ D!Trim(l))
  BY <1>4 DEF Next, Read, Write, Trim
<1> QED
  BY <1>5, <1>6, <1>7

(* On such a device no collection ever begins in a cleanup_block, and no   *)
(* assertion fails, until the program ends at the erase of a block that    *)
(* has been erased BLOCK_ERASES times. With 20 blocks, or one logical      *)
(* block more, a collection does begin there.                              *)
THEOREM DftlUnnested ==
  ASSUME Spacious PROVE Spec => [](ftl = "DFTL" => Sound("DFTL") /\ ssd.asserted)
<1>1. Init => DftlSpare
  BY InitSpare
<1>2. DftlSpare /\ [Next]_vars => DftlSpare'
  BY StepSpare
<1>3. DftlSpare => (ftl = "DFTL" => Sound("DFTL") /\ ssd.asserted)
  <2>1. SUFFICES ASSUME DftlSpare, ftl = "DFTL" PROVE Sound("DFTL") /\ ssd.asserted
    OBVIOUS
  <2>2. Sound("DFTL")
    BY <2>1 DEF DftlSpare, Open, Sound
  <2>3. Roomy
    BY ConfigFacts DEF Spacious, Roomy
  <2> QED
    BY <2>1, <2>2, <2>3, SoundFacts DEF DftlSpare
<1> QED
  BY <1>1, <1>2, <1>3, PTL DEF Spec

(* So there a read of a page that was written and not trimmed since always *)
(* returns its last data.                                                  *)
THEOREM DftlReadsSpacious == ASSUME Spacious PROVE Spec => []DftlReadsNewest
<1>1. Spec => [](ftl = "DFTL" => Sound("DFTL") /\ ssd.asserted)
  BY DftlUnnested
<1>2. (ftl = "DFTL" => Sound("DFTL") /\ ssd.asserted) /\ (ftl = "DFTL" => ReadsNewest)
        => DftlReadsNewest
  BY DEF ReadsNewest, DftlReadsNewest
<1> QED
  BY <1>1, <1>2, DftlReads, PTL
=============================================================================
