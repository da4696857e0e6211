-------------------------- MODULE FlashDftlProofs ---------------------------
(* Theorems about the simulator with the DFTL layer, and their proofs.     *)
(*                                                                         *)
(* A request is a composition of operators on the simulator's record. One  *)
(* lemma per operator: from a state in which Good holds it returns one in  *)
(* which Good holds, or a void one, about which nothing is claimed: a      *)
(* collection began inside a cleanup_block, or, without enough room, an    *)
(* assertion failed. What a nested collection does, the recursive function *)
(* of the model, is therefore never looked at.                             *)
EXTENDS Simulator, SequenceTheorems, FiniteSetTheorems, WellFoundedInduction, TLAPS

-----------------------------------------------------------------------------
(* The invariant, of any state s that the layer's operators work on.       *)

StateOf(s, b, i) == s.state[D!Page(b, i)]

States ==
  [state : [D!Pages -> {"EMPTY", "VALID", "INVALID"}],
   data : [D!Pages -> D!Lpns \cup {-1}],
   pages_valid : [D!Blocks -> 0 .. BlockSize],
   erases_remaining : [D!Blocks -> 0 .. BlockErases], worn_out : BOOLEAN,
   asserted : BOOLEAN, nested : {FALSE},
   first_free : {0}, current_free : 0 .. NumberOfBlocks,
   free_list : Seq(D!Blocks), invalid_list : {<< >>},
   data_active : Int, log_active : {0},
   out_of_blocks : {FALSE}, got : D!Blocks \cup {-1},
   ppn : [D!Lpns -> D!Pages \cup {-1}],
   reverse_trans_map : [D!Pages -> D!Lpns \cup {-1}],
   cached : SUBSET D!Lpns, cmt : Int,
   current_page : D!Pages \cup {-1}, current_writing : D!Blocks \cup {-2},
   active_cost : [1 .. NumberOfBlocks -> D!Blocks], requests : Nat]

Listed(s) == {s.free_list[n] : n \in DOMAIN s.free_list}
Free(s)   == Listed(s) \cup s.current_free .. NumberOfBlocks - 1
IsCurrent(s, b) == s.current_page # -1 /\ D!BlockOf(s.current_page) = b

(* The free blocks are listed once; the current one is not among them. Of  *)
(* every block the first pages are written, as many as pages_valid says:   *)
(* none of a free block, all of a block in use, and of the current block   *)
(* those up to the current page, which is next to be written (pending) or  *)
(* already is.                                                             *)
Lists(s) ==
  /\ \A m, n \in DOMAIN s.free_list : s.free_list[m] = s.free_list[n] => m = n
  /\ \A n \in DOMAIN s.free_list : s.free_list[n] < s.current_free
  /\ s.current_page = -1 => s.current_free = 0
  /\ s.current_page # -1 => s.current_writing = D!BlockOf(s.current_page)
  /\ s.current_free <= s.data_active
Filled(s) ==
  \A b \in D!Blocks, i \in D!Offsets : StateOf(s, b, i) = "EMPTY" <=> s.pages_valid[b] <= i
Height(s, pending, b) ==
  IF IsCurrent(s, b) THEN D!Offset(s.current_page) + IF pending THEN 0 ELSE 1
  ELSE IF b \in Free(s) THEN 0 ELSE BlockSize
Space(s, pending) ==
  /\ Lists(s) /\ Filled(s)
  /\ \A b \in D!Blocks : s.pages_valid[b] = Height(s, pending, b)
  /\ \A b \in Free(s) : ~IsCurrent(s, b)

(* The page of l, where moved has those that a cleanup has copied so far.  *)
(* The valid pages are those, and the reverse map has those not moved.     *)
To(s, moved, l) == IF moved[l] # -1 THEN moved[l] ELSE s.ppn[l]
Maps(s, moved) ==
  /\ moved \in [D!Lpns \cup {-1} -> D!Pages \cup {-1}] /\ moved[-1] = -1
  /\ \A l \in D!Lpns : To(s, moved, l) # -1 =>
       s.state[To(s, moved, l)] = "VALID" /\ s.data[To(s, moved, l)] = l
  /\ \A p \in D!Pages : s.state[p] = "VALID" =>
       s.data[p] \in D!Lpns /\ To(s, moved, s.data[p]) = p
  /\ \A l \in D!Lpns : moved[l] = -1 /\ s.ppn[l] # -1 => s.reverse_trans_map[s.ppn[l]] = l

(* The blocks in the order of their invalid pages.                         *)
Cost(s, n) == D!InvalidCount(s, s.active_cost[n])
Ordered(s) ==
  /\ \A b \in D!Blocks : \E n \in 1 .. NumberOfBlocks : s.active_cost[n] = b
  /\ \A m, n \in 1 .. NumberOfBlocks : s.active_cost[m] = s.active_cost[n] => m = n
  /\ \A m, n \in 1 .. NumberOfBlocks : m < n => Cost(s, m) <= Cost(s, n)

Counted(s) ==
  /\ s.cmt <= Cardinality(s.cached)
  /\ ~trimming => s.cmt = Cardinality(s.cached)

Sane(s, moved, pending) ==
  /\ s \in States
  /\ Space(s, pending) /\ Maps(s, moved) /\ Ordered(s) /\ Counted(s)
Good(s, moved, pending) == Sane(s, moved, pending) /\ s.asserted = TRUE

Roomy == DftlLogicalBlocks < NumberOfBlocks - 1

(* The inductive invariant: of the simulator's state, and of the pages that *)
(* were written.                                                           *)
Safe(s, written) ==
  /\ "nested" \in DOMAIN s
  /\ s.nested # TRUE =>
       /\ Sane(s, D!NoneMoved, FALSE)
       /\ written \subseteq D!Lpns /\ \A l \in written : s.ppn[l] # -1
       /\ Roomy => s.asserted = TRUE
DftlInv == ftl = "DFTL" => Safe(ssd, live)

-----------------------------------------------------------------------------
(* The constants, and addresses of pages.                                  *)

(* The constants, as far as DFTL uses them.                                *)
LEMMA ConfigFacts ==
  /\ NumberOfBlocks \in Nat \ {0} /\ NumberOfBlocks > 1 /\ BlockSize \in Nat \ {0}
  /\ BlockErases \in Nat /\ DftlLogicalBlocks \in Nat /\ CmtLimit \in Nat \ {0}
  BY SimulatorAssumption DEF D!FlashAssumption, D!DftlParentAssumption

LEMMA PageOfBlock ==
  ASSUME NEW b \in Nat, NEW i \in D!Offsets
  PROVE  /\ D!Page(b, i) \in Nat
         /\ D!BlockOf(D!Page(b, i)) = b
         /\ D!Offset(D!Page(b, i)) = i
  BY ConfigFacts, SMT DEF D!Page, D!BlockOf, D!Offset, D!Offsets

LEMMA PageSplits ==
  ASSUME NEW p \in Nat
  PROVE  /\ D!BlockOf(p) \in Nat /\ D!Offset(p) \in D!Offsets
         /\ p = D!Page(D!BlockOf(p), D!Offset(p))
  BY ConfigFacts, SMT DEF D!Page, D!BlockOf, D!Offset, D!Offsets

LEMMA PageBound ==
  ASSUME NEW n \in Nat, NEW b \in Nat, NEW i \in D!Offsets
  PROVE  D!Page(b, i) \in 0 .. n * BlockSize - 1 <=> b < n
  BY ConfigFacts, SMT DEF D!Page, D!Offsets

(* All that is used of addresses from here on.                             *)
LEMMA Addresses ==
  /\ \A b \in D!Blocks, i \in D!Offsets :
       /\ D!Page(b, i) \in D!Pages
       /\ D!BlockOf(D!Page(b, i)) = b /\ D!Offset(D!Page(b, i)) = i
  /\ \A p \in D!Pages : /\ D!BlockOf(p) \in D!Blocks /\ D!Offset(p) \in D!Offsets
                        /\ p = D!Page(D!BlockOf(p), D!Offset(p))
<1>1. NumberOfBlocks \in Nat /\ \A b \in D!Blocks : b \in Nat /\ b < NumberOfBlocks
  BY ConfigFacts DEF D!Blocks
<1>2. ASSUME NEW b \in D!Blocks, NEW i \in D!Offsets
      PROVE  /\ D!Page(b, i) \in D!Pages
             /\ D!BlockOf(D!Page(b, i)) = b /\ D!Offset(D!Page(b, i)) = i
  BY <1>1, PageOfBlock, PageBound DEF D!Pages
<1>4. ASSUME NEW p \in D!Pages
      PROVE  /\ D!BlockOf(p) \in D!Blocks /\ D!Offset(p) \in D!Offsets
             /\ p = D!Page(D!BlockOf(p), D!Offset(p))
  <2>1. p \in Nat /\ p \in 0 .. NumberOfBlocks * BlockSize - 1
    BY <1>1, ConfigFacts DEF D!Pages
  <2>2. /\ D!BlockOf(p) \in Nat /\ D!Offset(p) \in D!Offsets
        /\ p = D!Page(D!BlockOf(p), D!Offset(p))
    BY <2>1, PageSplits
  <2>3. D!BlockOf(p) < NumberOfBlocks
    BY <1>1, <2>1, <2>2, PageBound
  <2> QED
    BY <1>1, <2>2, <2>3 DEF D!Blocks
<1> QED
  BY <1>2, <1>4

(* The next page of a block that is not at its end.                        *)
LEMMA NextAddress ==
  ASSUME NEW p \in D!Pages, D!Offset(p) # BlockSize - 1
  PROVE  /\ p + 1 \in D!Pages
         /\ D!BlockOf(p + 1) = D!BlockOf(p) /\ D!Offset(p + 1) = D!Offset(p) + 1
<1>1. /\ D!BlockOf(p) \in D!Blocks /\ D!Offset(p) \in D!Offsets
      /\ p = D!Page(D!BlockOf(p), D!Offset(p))
  BY Addresses
<1>2. D!Offset(p) + 1 \in D!Offsets
  BY <1>1, ConfigFacts DEF D!Offsets
<1>3. D!Page(D!BlockOf(p), D!Offset(p) + 1) = D!Page(D!BlockOf(p), D!Offset(p)) + 1
  BY <1>1, ConfigFacts DEF D!Page, D!Blocks, D!Offsets
<1> QED
  BY ONLY <1>1, <1>2, <1>3, Addresses

(* The pages of a block are those with its number.                         *)
LEMMA PagesOfBlock ==
  ASSUME NEW b \in D!Blocks
  PROVE  /\ D!PagesOf(b) \subseteq D!Pages
         /\ \A p \in D!Pages : p \in D!PagesOf(b) <=> D!BlockOf(p) = b
  BY Addresses DEF D!PagesOf

-----------------------------------------------------------------------------
(* Void states. The history stays what it is but where a nested collection *)
(* begins, and a failed assertion stays failed (which counts where fail).  *)

Marked(s) == "nested" \in DOMAIN s /\ s.nested = TRUE
Failed(s) == {"nested", "asserted"} \subseteq DOMAIN s /\ s.nested = FALSE /\ s.asserted = FALSE
Void(fail, s) == Marked(s) \/ (fail /\ Failed(s))

Marks(r, s) ==
  /\ DOMAIN r = DOMAIN s
  /\ "nested" \in DOMAIN s => r.nested = s.nested
  /\ "asserted" \in DOMAIN s /\ s.asserted = FALSE => r.asserted = FALSE

LEMMA VoidKept ==
  ASSUME NEW fail, NEW s, NEW r, Marks(r, s)
  PROVE  Void(fail, s) => Void(fail, r)
  BY DEF Marks, Void, Marked, Failed

LEMMA MarksTwice ==
  ASSUME NEW s, NEW t, NEW r, Marks(t, s), Marks(r, t)
  PROVE  Marks(r, s)
  BY DEF Marks

LEMMA MarksInvalidate ==
  ASSUME NEW s, NEW p
  PROVE  Marks(D!InvalidateAt(s, p), s)
<1> DEFINE t == D!InvalidatePage(s, p)
<1>1. Marks(t, s)
  BY DEF Marks, D!InvalidatePage
<1>2. ASSUME NEW b PROVE Marks(D!UpdateBlock(t, b), t)
  BY DEF Marks, D!UpdateBlock, D!Reordered
<1> QED
  BY <1>1, <1>2, MarksTwice DEF D!InvalidateAt

LEMMA MarksTakeBlock ==
  ASSUME NEW s
  PROVE  Marks(D!TakeBlock(s), s)
<1>1. ASSUME NEW t PROVE Marks(D!Took(t), t)
  BY DEF Marks, D!Took
<1>2. Marks(D!TakeFree(s), s)
  BY DEF Marks, D!TakeFree
<1>3. Marks([s EXCEPT !.got = s.current_free, !.current_free = @ + 1], s)
  BY DEF Marks
<1> QED
  BY <1>1, <1>2, <1>3, MarksTwice DEF D!TakeBlock

LEMMA MarksErase ==
  ASSUME NEW s, NEW b
  PROVE  Marks(D!EraseCollected(s, b), s)
<1> DEFINE t == [D!Erase(s, b) EXCEPT !.free_list = Append(@, b)]
<1>1. Marks(t, s)
  BY DEF Marks, D!Erase
<1>2. Marks(D!UpdateBlock(t, b), t)
  BY DEF Marks, D!UpdateBlock, D!Reordered
<1> QED
  BY <1>1, <1>2, MarksTwice DEF D!EraseCollected

LEMMA MarksCopy ==
  ASSUME NEW s, NEW moved, NEW p
  PROVE  Marks(D!CopyPage(s, moved, p).ssd, s)
<1> DEFINE t == D!WriteCopy(s, p, s.current_page)
<1>1. Marks(t, s)
  BY DEF Marks, D!WriteCopy
<1>2. Marks(D!InvalidateAt(t, p), t)
  BY MarksInvalidate
<1> QED
  BY <1>1, <1>2, MarksTwice DEF D!CopyPage

LEMMA MarksRemapped ==
  ASSUME NEW s, NEW moved
  PROVE  Marks(D!Remapped(s, moved), s)
  BY DEF Marks, D!Remapped

LEMMA MarksStore ==
  ASSUME NEW s, NEW l, NEW p
  PROVE  Marks(D!Store(s, l, p), s)
<1> DEFINE t == D!UpdateTranslationMap(s, l, p)
           u == D!Program(t, p, l)
           v == D!WritePage(t, p, l)
<1>1. Marks(t, s)
  BY DEF Marks, D!UpdateTranslationMap
<1>2. Marks(u, t)
  BY DEF Marks, D!Program
<1>3. Marks(v, u)
  BY DEF Marks, D!WritePage
<1> HIDE DEF t, u, v
<1>4. ASSUME NEW q PROVE Marks(D!Replaced(v, q), v)
  <2>1. Marks(v, v)
    BY DEF Marks
  <2>2. Marks(D!InvalidateAt(v, q), v)
    BY MarksInvalidate
  <2> QED
    BY <2>1, <2>2 DEF D!Replaced
<1>5. Marks(v, s)
  BY <1>1, <1>2, <1>3, MarksTwice
<1> QED
  BY <1>4, <1>5, MarksTwice DEF D!Store, t, v

LEMMA MarksTrim ==
  ASSUME NEW s, NEW l
  PROVE  Marks(D!TrimMapped(s, l), s)
<1> DEFINE t == D!InvalidateAt(s, s.ppn[l])
           u == D!Uncounted(t, l)
<1>1. Marks(t, s)
  BY MarksInvalidate
<1>2. Marks(u, t)
  BY DEF Marks, D!Uncounted
<1>3. Marks(D!UpdateTranslationMap(u, l, -1), u)
  BY DEF Marks, D!UpdateTranslationMap
<1>4. Marks(s, s)
  BY DEF Marks
<1> HIDE DEF t, u
<1> QED
  BY <1>1, <1>2, <1>3, <1>4, MarksTwice DEF D!TrimMapped, t, u

(* What a nested collection leaves is void, whatever it does.              *)
LEMMA NestedVoid ==
  ASSUME NEW fail, NEW gc, NEW s, "nested" \in DOMAIN s
  PROVE  Void(fail, D!Nested(gc, s))
  BY DEF D!Nested, Void, Marked

LEMMA MarksStart ==
  ASSUME NEW s
  PROVE  Marks(D!StartBlock(s), s) /\ Marks(D!NextInBlock(s), s) /\ Marks(D!OutOfBlocks(s), s)
  BY DEF Marks, D!StartBlock, D!NextInBlock, D!OutOfBlocks

LEMMA VoidNamed ==
  ASSUME NEW fail, NEW s, Void(fail, s)
  PROVE  "nested" \in DOMAIN s
  BY DEF Void, Marked, Failed

LEMMA CopiedVoid ==
  ASSUME NEW fail, NEW gc, NEW s, Void(fail, s)
  PROVE  Void(fail, D!Copied(gc, s))
<1>1. Void(fail, D!NextInBlock(s)) /\ Void(fail, D!OutOfBlocks(s))
  BY MarksStart, VoidKept
<1>2. Void(fail, D!Nested(gc, D!OutOfBlocks(s)))
  BY <1>1, VoidNamed, NestedVoid
<1>3. ASSUME NEW t, Void(fail, t) PROVE Void(fail, D!StartBlock(D!TakeBlock(t)))
  BY <1>3, MarksTakeBlock, MarksStart, VoidKept
<1> QED
  BY <1>1, <1>2, <1>3 DEF D!Copied

LEMMA NextCopyVoid ==
  ASSUME NEW fail, NEW gc, NEW s, Void(fail, s)
  PROVE  Void(fail, D!NextCopy(gc, s))
<1>1. Void(fail, D!Nested(gc, s))
  BY VoidNamed, NestedVoid
<1> QED
  BY <1>1, CopiedVoid DEF D!NextCopy

-----------------------------------------------------------------------------
(* The loop of cleanup_block. A set of numbers takes the place of the      *)
(* predicate in an induction.                                              *)

LEMMA Least ==
  ASSUME NEW T \in SUBSET Nat, T # {}
  PROVE  \E x \in T : \A y \in T : x <= y
<1> DEFINE R == OpToRel(<, Nat)
<1>1. IsWellFoundedOn(R, Nat)
  BY NatLessThanWellFounded
<1> HIDE DEF R
<1>2. PICK x \in T : \A y \in T : ~(<<y, x>> \in R)
  BY <1>1, WFMin
<1>3. \A y \in T : y < x => <<y, x>> \in R
  BY <1>2 DEF R, OpToRel
<1>4. \A y \in T : y \in Nat /\ x \in Nat /\ ~(y < x)
  BY <1>2, <1>3
<1> QED
  BY <1>4

LEMMA NatSetInduction ==
  ASSUME NEW S, 0 \in S, \A n \in Nat : n \in S => n + 1 \in S
  PROVE  \A n \in Nat : n \in S
<1> SUFFICES ASSUME Nat \ S # {} PROVE FALSE
  OBVIOUS
<1>1. PICK x \in Nat \ S : \A y \in Nat \ S : x <= y
  BY Least
<1>2. x # 0 /\ x - 1 \in Nat
  BY <1>1
<1>3. x - 1 \notin S
  BY <1>2, (x - 1) + 1 = x
<1> QED
  BY <1>1, <1>2, <1>3

LEMMA CleanedDef ==
  ASSUME NEW gc, NEW s, NEW b
  PROVE  \E f : /\ D!Cleaned(gc, s, b) = f[BlockSize]
                /\ f[0] = [ssd |-> s, moved |-> D!NoneMoved]
                /\ \A i \in 0 .. BlockSize : i # 0 =>
                     f[i] = D!CleanPage(gc, f[i - 1], D!Page(b, i - 1))
<1> DEFINE a == [ssd |-> s, moved |-> D!NoneMoved]
           Up(n, g) == g = [i \in 0 .. n |-> IF i = 0 THEN a
                              ELSE D!CleanPage(gc, g[i - 1], D!Page(b, i - 1))]
           loop[i \in 0 .. BlockSize] ==
             IF i = 0 THEN a ELSE D!CleanPage(gc, loop[i - 1], D!Page(b, i - 1))
           N == {n \in Nat : \E g : Up(n, g)}
<1>1. D!Cleaned(gc, s, b) = loop[BlockSize]
  BY DEF D!Cleaned
<1>2. loop = CHOOSE g : Up(BlockSize, g)
  OBVIOUS
<1> HIDE DEF loop, a
<1>3. 0 \in N
  <2>1. Up(0, [i \in 0 .. 0 |-> a])
    OBVIOUS
  <2> QED
    BY <2>1
<1>4. ASSUME NEW n \in Nat, n \in N
      PROVE  n + 1 \in N
  <2>1. PICK g : Up(n, g)
    BY <1>4
  <2> DEFINE h == [i \in 0 .. n + 1 |->
                     IF i <= n THEN g[i] ELSE D!CleanPage(gc, g[n], D!Page(b, n))]
  <2>2. ASSUME NEW i \in 0 .. n + 1
        PROVE  h[i] = IF i = 0 THEN a ELSE D!CleanPage(gc, h[i - 1], D!Page(b, i - 1))
    <3>1. CASE i <= n
      <4>1. i \in 0 .. n /\ (i # 0 => i - 1 \in 0 .. n)
        BY <3>1
      <4>2. \A j \in 0 .. n : h[j] = g[j]
        OBVIOUS
      <4>3. g[i] = IF i = 0 THEN a ELSE D!CleanPage(gc, g[i - 1], D!Page(b, i - 1))
        BY <2>1, <4>1
      <4> HIDE DEF h
      <4> QED
        BY <4>1, <4>2, <4>3
    <3>2. CASE i = n + 1
      <4>1. h[i] = D!CleanPage(gc, g[n], D!Page(b, n)) /\ h[n] = g[n]
        BY <3>2
      <4>2. i # 0 /\ i - 1 = n
        BY <3>2
      <4> HIDE DEF h
      <4> QED
        BY <4>1, <4>2
    <3> QED
      BY <3>1, <3>2
  <2>3. Up(n + 1, h)
    <3>1. h = [i \in 0 .. n + 1 |-> h[i]]
      OBVIOUS
    <3> HIDE DEF h
    <3> QED
      BY <2>2, <3>1
  <2> HIDE DEF Up, h
  <2> QED
    BY <2>3
<1>5. \A n \in Nat : n \in N
  <2> HIDE DEF N
  <2> QED
    BY <1>3, <1>4, NatSetInduction
<1>6. BlockSize \in Nat /\ BlockSize \in 0 .. BlockSize
  BY ConfigFacts
<1>7. Up(BlockSize, loop)
  <2>1. \E g : Up(BlockSize, g)
    BY <1>5, <1>6
  <2> HIDE DEF Up
  <2> QED
    BY <1>2, <2>1
<1>8. /\ loop[0] = a
      /\ \A i \in 0 .. BlockSize : i # 0 =>
           loop[i] = D!CleanPage(gc, loop[i - 1], D!Page(b, i - 1))
  BY <1>6, <1>7
<1> HIDE DEF N, Up
<1> QED
  BY <1>1, <1>8 DEF a

(* A property of the first and of every next is one of the last.           *)
LEMMA LoopInduction ==
  ASSUME NEW n \in Nat, NEW f, NEW T, f[0] \in T,
         \A i \in 0 .. n : i # 0 /\ f[i - 1] \in T => f[i] \in T
  PROVE  f[n] \in T
<1> DEFINE N == {i \in Nat : i <= n => f[i] \in T}
<1>1. 0 \in N
  OBVIOUS
<1>2. ASSUME NEW i \in Nat, i \in N
      PROVE  i + 1 \in N
  <2>1. i + 1 <= n => i + 1 \in 0 .. n /\ (i + 1) - 1 = i /\ i <= n
    OBVIOUS
  <2> QED
    BY <1>2, <2>1
<1>3. \A i \in Nat : i \in N
  <2> HIDE DEF N
  <2> QED
    BY <1>1, <1>2, NatSetInduction
<1> QED
  BY <1>3

(* A cleanup and a round keep a void state void.                           *)
LEMMA CleanPageVoid ==
  ASSUME NEW fail, NEW gc, NEW a, a = [ssd |-> a.ssd, moved |-> a.moved], Void(fail, a.ssd), NEW p
  PROVE  LET r == D!CleanPage(gc, a, p)
         IN  r = [ssd |-> r.ssd, moved |-> r.moved] /\ Void(fail, r.ssd)
<1>1. Void(fail, D!NextCopy(gc, a.ssd))
  BY NextCopyVoid
<1>2. LET r == D!CopyPage(D!NextCopy(gc, a.ssd), a.moved, p)
      IN  r = [ssd |-> r.ssd, moved |-> r.moved] /\ Void(fail, r.ssd)
  <2>1. ASSUME NEW t PROVE LET r == D!CopyPage(t, a.moved, p)
                           IN  r = [ssd |-> r.ssd, moved |-> r.moved]
    BY DEF D!CopyPage
  <2> QED
    BY <1>1, <2>1, MarksCopy, VoidKept
<1>3. ASSUME NEW r, r = [a EXCEPT !.ssd.asserted = FALSE]
      PROVE  r = [ssd |-> r.ssd, moved |-> r.moved] /\ Void(fail, r.ssd)
  <2>1. r.ssd = [a.ssd EXCEPT !.asserted = FALSE]
    BY <1>3
  <2>2. Marks(r.ssd, a.ssd)
    BY <2>1 DEF Marks
  <2>3. r = [ssd |-> r.ssd, moved |-> r.moved]
    BY <1>3
  <2> QED
    BY ONLY <2>2, <2>3, VoidKept, Void(fail, a.ssd)
<1> QED
  BY <1>1, <1>2, <1>3 DEF D!CleanPage

LEMMA CleanupVoid ==
  ASSUME NEW fail, NEW gc, NEW s, NEW b, Void(fail, s)
  PROVE  Void(fail, D!Cleanup(gc, s, b))
<1>1. PICK f : /\ D!Cleaned(gc, s, b) = f[BlockSize]
               /\ f[0] = [ssd |-> s, moved |-> D!NoneMoved]
               /\ \A i \in 0 .. BlockSize : i # 0 =>
                    f[i] = D!CleanPage(gc, f[i - 1], D!Page(b, i - 1))
  BY CleanedDef
<1> DEFINE T == {a \in {f[i] : i \in 0 .. BlockSize} :
                   a = [ssd |-> a.ssd, moved |-> a.moved] /\ Void(fail, a.ssd)}
<1>2. BlockSize \in Nat
  BY ConfigFacts
<1>3. f[0] \in T
  BY <1>1, <1>2
<1>4. ASSUME NEW i \in 0 .. BlockSize, i # 0, f[i - 1] \in T
      PROVE  f[i] \in T
  <2>1. f[i - 1] = [ssd |-> f[i - 1].ssd, moved |-> f[i - 1].moved] /\ Void(fail, f[i - 1].ssd)
    BY <1>4
  <2>2. f[i] = D!CleanPage(gc, f[i - 1], D!Page(b, i - 1))
    BY <1>1, <1>4
  <2>3. f[i] = [ssd |-> f[i].ssd, moved |-> f[i].moved] /\ Void(fail, f[i].ssd)
    <3>1. PICK a : a = f[i - 1]
      BY ONLY TRUE
    <3>2. PICK p : p = D!Page(b, i - 1)
      BY ONLY TRUE
    <3>3. LET r == D!CleanPage(gc, a, p)
          IN  r = [ssd |-> r.ssd, moved |-> r.moved] /\ Void(fail, r.ssd)
      BY ONLY <2>1, <3>1, CleanPageVoid
    <3> QED
      BY ONLY <2>2, <3>1, <3>2, <3>3
  <2> QED
    BY <2>3
<1>5. f[BlockSize] \in T
  <2> HIDE DEF T
  <2> QED
    BY <1>2, <1>3, <1>4, LoopInduction
<1> QED
  BY <1>1, <1>5, MarksRemapped, VoidKept DEF D!Cleanup

LEMMA RoundVoid ==
  ASSUME NEW fail, NEW gc, NEW s, NEW b, Void(fail, s)
  PROVE  Void(fail, D!Round(gc, s, b))
  BY CleanupVoid, MarksErase, VoidKept DEF D!Round

LEMMA CollectFirstVoid ==
  ASSUME NEW fail, NEW s, Void(fail, s)
  PROVE  Void(fail, D!CollectFirst(s))
<1> DEFINE gc == D!InsertEventsByCost
<1> HIDE DEF gc
<1>1. \A t : Void(fail, t) => Void(fail, D!Again(gc, t))
  BY RoundVoid DEF D!Again
<1>2. \A b : Void(fail, D!Round(gc, s, b))
  BY RoundVoid
<1>3. Void(fail, D!Collect(gc, s))
  BY <1>1, <1>2 DEF D!Collect
<1> QED
  BY <1>3 DEF D!CollectFirst, D!InsertByCost, gc

LEMMA GetFreeDataPageVoid ==
  ASSUME NEW fail, NEW s, Void(fail, s)
  PROVE  Void(fail, D!GetFreeDataPage(s)) /\ Void(fail, D!NextPage(s))
<1>1. \A t : Void(fail, t) => Void(fail, D!NextPage(t))
  <2>1. ASSUME NEW t, Void(fail, t) PROVE Void(fail, D!GetBlock(t))
    BY <2>1, MarksStart, MarksTakeBlock, VoidKept, CollectFirstVoid DEF D!GetBlock
  <2> QED
    BY <2>1, MarksStart, VoidKept DEF D!NextPage
<1> QED
  BY <1>1, CollectFirstVoid DEF D!GetFreeDataPage

-----------------------------------------------------------------------------
(* active_cost. First the sequence: an element taken out and put in again  *)
(* behind those with at most its cost.                                     *)

LEMMA RemoveFacts ==
  ASSUME NEW S, NEW q \in Seq(S), NEW k \in 1 .. Len(q)
  PROVE  LET r == D!RemoveAt(q, k)
         IN  /\ r \in Seq(S) /\ Len(r) = Len(q) - 1
             /\ \A m \in 1 .. Len(q) - 1 : r[m] = IF m < k THEN q[m] ELSE q[m + 1]
<1> DEFINE u == SubSeq(q, 1, k - 1)
           v == SubSeq(q, k + 1, Len(q))
<1>1. Len(q) \in Nat /\ \A m \in 1 .. Len(q) : q[m] \in S
  BY LenProperties, ElementOfSeq
<1>2. /\ u \in Seq(S) /\ Len(u) = k - 1
      /\ \A m \in 1 .. k - 1 : u[m] = q[m]
  <2>1. 1 \in Int /\ k - 1 \in Int /\ \A m \in 1 .. k - 1 : q[m] \in S
    BY <1>1
  <2>2. /\ u \in Seq(S) /\ Len(u) = IF 1 <= k - 1 THEN k - 1 - 1 + 1 ELSE 0
        /\ \A m \in 1 .. k - 1 - 1 + 1 : u[m] = q[1 + m - 1]
    BY <2>1, SubSeqProperties
  <2> HIDE DEF u
  <2> QED
    BY <1>1, <2>2
<1>3. /\ v \in Seq(S) /\ Len(v) = Len(q) - k
      /\ \A m \in 1 .. Len(q) - k : v[m] = q[k + m]
  <2>1. k + 1 \in Int /\ Len(q) \in Int /\ \A m \in k + 1 .. Len(q) : q[m] \in S
    BY <1>1
  <2>2. /\ v \in Seq(S) /\ Len(v) = IF k + 1 <= Len(q) THEN Len(q) - (k + 1) + 1 ELSE 0
        /\ \A m \in 1 .. Len(q) - (k + 1) + 1 : v[m] = q[k + 1 + m - 1]
    BY <2>1, SubSeqProperties
  <2> HIDE DEF v
  <2> QED
    BY <1>1, <2>2
<1> HIDE DEF u, v
<1>4. /\ u \o v \in Seq(S) /\ Len(u \o v) = Len(u) + Len(v)
      /\ \A m \in 1 .. Len(u) + Len(v) :
           (u \o v)[m] = IF m <= Len(u) THEN u[m] ELSE v[m - Len(u)]
  BY <1>2, <1>3, ConcatProperties
<1>5. ASSUME NEW m \in 1 .. Len(q) - 1
      PROVE  (u \o v)[m] = IF m < k THEN q[m] ELSE q[m + 1]
  <2>1. (u \o v)[m] = IF m <= k - 1 THEN u[m] ELSE v[m - (k - 1)]
    BY <1>1, <1>2, <1>3, <1>4
  <2>2. CASE m < k
    BY <1>1, <1>2, <2>1, <2>2
  <2>3. CASE ~(m < k)
    <3>1. m - (k - 1) \in 1 .. Len(q) - k /\ k + (m - (k - 1)) = m + 1 /\ ~(m <= k - 1)
      BY <1>1, <2>3
    <3>2. v[m - (k - 1)] = q[k + (m - (k - 1))]
      BY <1>3, <3>1
    <3> QED
      BY <2>1, <2>3, <3>1, <3>2
  <2> QED
    BY <2>2, <2>3
<1>6. Len(u) + Len(v) = Len(q) - 1
  BY <1>1, <1>2, <1>3
<1>7. D!RemoveAt(q, k) = u \o v
  BY DEF D!RemoveAt, u, v
<1> QED
  BY <1>4, <1>5, <1>6, <1>7

Inserts(S, q, k, e, r) ==
  /\ r \in Seq(S) /\ Len(r) = Len(q) + 1
  /\ \A m \in 1 .. Len(q) + 1 :
       r[m] = IF m < k THEN q[m] ELSE IF m = k THEN e ELSE q[m - 1]

LEMMA InsertFacts ==
  ASSUME NEW S, NEW q \in Seq(S), NEW k \in 1 .. Len(q) + 1, NEW e \in S
  PROVE  Inserts(S, q, k, e, D!InsertAt(q, k, e))
<1> DEFINE u == SubSeq(q, 1, k - 1)
           v == SubSeq(q, k, Len(q))
           w == u \o << e >>
<1>1. Len(q) \in Nat /\ \A m \in 1 .. Len(q) : q[m] \in S
  BY LenProperties, ElementOfSeq
<1>2. /\ u \in Seq(S) /\ Len(u) = k - 1
      /\ \A m \in 1 .. k - 1 : u[m] = q[m]
  <2>1. 1 \in Int /\ k - 1 \in Int /\ \A m \in 1 .. k - 1 : q[m] \in S
    BY <1>1
  <2>2. /\ u \in Seq(S) /\ Len(u) = IF 1 <= k - 1 THEN k - 1 - 1 + 1 ELSE 0
        /\ \A m \in 1 .. k - 1 - 1 + 1 : u[m] = q[1 + m - 1]
    BY <2>1, SubSeqProperties
  <2> HIDE DEF u
  <2> QED
    BY <1>1, <2>2
<1>3. /\ v \in Seq(S) /\ Len(v) = Len(q) - k + 1
      /\ \A m \in 1 .. Len(q) - k + 1 : v[m] = q[k + m - 1]
  <2>1. k \in Int /\ Len(q) \in Int /\ \A m \in k .. Len(q) : q[m] \in S
    BY <1>1
  <2>2. /\ v \in Seq(S) /\ Len(v) = IF k <= Len(q) THEN Len(q) - k + 1 ELSE 0
        /\ \A m \in 1 .. Len(q) - k + 1 : v[m] = q[k + m - 1]
    BY <2>1, SubSeqProperties
  <2> HIDE DEF v
  <2> QED
    BY <1>1, <2>2
<1>4. /\ << e >> \in Seq(S) /\ Len(<< e >>) = 1 /\ << e >>[1] = e
  OBVIOUS
<1> HIDE DEF u, v
<1>5. /\ w \in Seq(S) /\ Len(w) = k
      /\ \A m \in 1 .. k : w[m] = IF m < k THEN q[m] ELSE e
  <2>1. /\ w \in Seq(S) /\ Len(w) = Len(u) + Len(<< e >>)
        /\ \A m \in 1 .. Len(u) + Len(<< e >>) :
             w[m] = IF m <= Len(u) THEN u[m] ELSE << e >>[m - Len(u)]
    BY <1>2, <1>4, ConcatProperties
  <2>2. Len(w) = k /\ \A m \in 1 .. k : w[m] = IF m <= k - 1 THEN u[m] ELSE << e >>[m - (k - 1)]
    BY <1>2, <1>4, <2>1
  <2>3. ASSUME NEW m \in 1 .. k PROVE w[m] = IF m < k THEN q[m] ELSE e
    <3>1. CASE m < k
      BY <1>2, <2>2, <3>1
    <3>2. CASE m = k
      <4>1. ~(m <= k - 1) /\ m - (k - 1) = 1 /\ ~(m < k)
        BY <3>2
      <4>2. w[m] = << e >>[1]
        BY <2>2, <4>1
      <4> QED
        BY <1>4, <4>1, <4>2
    <3>3. m < k \/ m = k
      BY <1>1
    <3> QED
      BY <3>1, <3>2, <3>3
  <2> QED
    BY <2>1, <2>2, <2>3
<1> HIDE DEF w
<1>6. /\ w \o v \in Seq(S) /\ Len(w \o v) = Len(w) + Len(v)
      /\ \A m \in 1 .. Len(w) + Len(v) :
           (w \o v)[m] = IF m <= Len(w) THEN w[m] ELSE v[m - Len(w)]
  BY <1>3, <1>5, ConcatProperties
<1>7. ASSUME NEW m \in 1 .. Len(q) + 1
      PROVE  (w \o v)[m] = IF m < k THEN q[m] ELSE IF m = k THEN e ELSE q[m - 1]
  <2>1. (w \o v)[m] = IF m <= k THEN w[m] ELSE v[m - k]
    BY <1>1, <1>3, <1>5, <1>6
  <2>2. CASE m <= k
    <3>1. m \in 1 .. k /\ (~(m < k) => m = k)
      BY <2>2
    <3> QED
      BY <1>5, <2>1, <2>2, <3>1
  <2>3. CASE ~(m <= k)
    <3>1. m - k \in 1 .. Len(q) - k + 1 /\ k + (m - k) - 1 = m - 1 /\ ~(m < k) /\ m # k
      BY <1>1, <2>3
    <3>2. v[m - k] = q[k + (m - k) - 1]
      BY <1>3, <3>1
    <3> QED
      BY <2>1, <2>3, <3>1, <3>2
  <2> QED
    BY <2>2, <2>3
<1>8. Len(w) + Len(v) = Len(q) + 1
  BY <1>1, <1>3, <1>5
<1>9. D!InsertAt(q, k, e) = w \o v
  BY DEF D!InsertAt, u, v, w
<1>10. Inserts(S, q, k, e, w \o v)
  BY ONLY <1>6, <1>7, <1>8 DEF Inserts
<1> QED
  BY ONLY <1>9, <1>10

LEMMA Lower ==
  ASSUME NEW n \in Nat, NEW M \in SUBSET (1 .. n),
         \A j \in M : \A i \in 1 .. n : i < j => i \in M
  PROVE  M = 1 .. Cardinality(M) /\ Cardinality(M) \in 0 .. n
<1> DEFINE U == {x \in Nat : \A m \in M : m <= x}
<1>1. PICK x \in U : \A y \in U : x <= y
  <2>1. n \in U
    OBVIOUS
  <2> QED
    BY <2>1, Least
<1>2. M = 1 .. x
  <2>1. CASE x = 0
    BY <1>1, <2>1
  <2>2. CASE x # 0
    <3>1. x - 1 \notin U /\ x - 1 \in Nat
      BY <1>1, <2>2
    <3>2. PICK m \in M : m > x - 1
      BY <3>1
    <3>4. x \in Nat /\ \A i \in M : i \in 1 .. n /\ i <= x
      BY <1>1
    <3>3. x \in M
      <4>1. m \in 1 .. n /\ m <= x /\ m > x - 1
        BY <3>2, <3>4
      <4>2. m = x
        BY <3>4, <4>1
      <4> QED
        BY <4>2
    <3>5. \A i \in 1 .. n : i < x => i \in M
      BY <3>3
    <3>6. x \in 1 .. n
      BY <3>3
    <3>7. \A i \in M : i \in 1 .. x
      BY <3>4
    <3>8. ASSUME NEW i \in 1 .. x PROVE i \in M
      <4>1. i \in 1 .. n /\ (i < x \/ i = x)
        BY <3>6
      <4> QED
        BY <3>3, <3>5, <4>1
    <3> HIDE DEF U
    <3> QED
      BY <3>7, <3>8
  <2> QED
    BY <2>1, <2>2
<1>3. Cardinality(1 .. x) = x /\ x \in 0 .. n
  <2>1. x \in Nat /\ x <= n
    BY <1>1
  <2>2. Cardinality(1 .. x) = IF 1 > x THEN 0 ELSE x - 1 + 1
    BY <2>1, FS_Interval
  <2> QED
    BY <2>1, <2>2
<1> QED
  BY <1>2, <1>3

(* The costs of the elements, in a sequence in which each is once.         *)
Once(q, n, S) ==
  /\ \A b \in S : \E i \in 1 .. n : q[i] = b
  /\ \A i, j \in 1 .. n : q[i] = q[j] => i = j
Rises(q, n, C) == \A i, j \in 1 .. n : i < j => C[q[i]] <= C[q[j]]
RisesBut(q, n, C, b) ==
  \A i, j \in 1 .. n : i < j /\ q[i] # b /\ q[j] # b => C[q[i]] <= C[q[j]]

(* In a rising sequence r, e stands behind the d elements of at most its   *)
(* cost.                                                                   *)
Placed(S, C, n, e, d, r, t) ==
  /\ \A i \in 1 .. n - 1 : r[i] \in S /\ r[i] # e
  /\ \A i, j \in 1 .. n - 1 : i < j => C[r[i]] <= C[r[j]] /\ r[i] # r[j]
  /\ \A i \in 1 .. n - 1 : i <= d => C[r[i]] <= C[e] /\ t[i] = r[i]
  /\ \A i \in 1 .. n - 1 : i > d => ~(C[r[i]] <= C[e]) /\ t[i + 1] = r[i]
  /\ t[d + 1] = e

LEMMA Inserted ==
  ASSUME NEW S, NEW C \in [S -> Nat], NEW n \in Nat, NEW e \in S, NEW r, NEW t,
         NEW d \in 0 .. n - 1, Placed(S, C, n, e, d, r, t),
         NEW i \in 1 .. n, NEW j \in 1 .. n, i < j
  PROVE  C[t[i]] <= C[t[j]] /\ t[i] # t[j]
<1> USE DEF Placed
<1>1. C[e] \in Nat /\ \A x \in 1 .. n - 1 : C[r[x]] \in Nat
  OBVIOUS
<1>2. CASE j <= d
  <2>1. i \in 1 .. n - 1 /\ j \in 1 .. n - 1 /\ i <= d
    BY ONLY <1>2, i \in 1 .. n, j \in 1 .. n, i < j, n \in Nat, d \in 0 .. n - 1
  <2>2. t[i] = r[i] /\ t[j] = r[j]
    BY <1>2, <2>1
  <2> QED
    BY <2>1, <2>2
<1>3. CASE j = d + 1
  <2>1. i \in 1 .. n - 1 /\ i <= d
    BY ONLY <1>3, i \in 1 .. n, j \in 1 .. n, i < j, n \in Nat, d \in 0 .. n - 1
  <2>2. t[i] = r[i] /\ t[j] = e
    BY <1>3, <2>1
  <2> QED
    BY <2>1, <2>2
<1>4. CASE j > d + 1
  <2>1. j - 1 \in 1 .. n - 1 /\ j - 1 > d /\ j - 1 + 1 = j
    BY ONLY <1>4, j \in 1 .. n, n \in Nat, d \in 0 .. n - 1
  <2>2. t[j] = r[j - 1] /\ ~(C[r[j - 1]] <= C[e]) /\ C[r[j - 1]] \in Nat /\ r[j - 1] # e
    BY <1>1, <2>1
  <2>3. CASE i <= d
    <3>1. i \in 1 .. n - 1 /\ i < j - 1
      BY ONLY <1>4, <2>3, i \in 1 .. n, j \in 1 .. n, n \in Nat, d \in 0 .. n - 1
    <3>2. t[i] = r[i]
      BY <2>3, <3>1
    <3> QED
      BY <2>1, <2>2, <3>1, <3>2
  <2>4. CASE i = d + 1
    <3>1. t[i] = e
      BY <2>4
    <3> QED
      BY ONLY <1>1, <2>2, <3>1
  <2>5. CASE i > d + 1
    <3>1. i - 1 \in 1 .. n - 1 /\ i - 1 > d /\ i - 1 + 1 = i /\ i - 1 < j - 1
      BY ONLY <1>4, <2>5, i < j, i \in 1 .. n, j \in 1 .. n, n \in Nat, d \in 0 .. n - 1
    <3>2. t[i] = r[i - 1]
      BY <3>1
    <3> QED
      BY <2>1, <2>2, <3>1, <3>2
  <2> QED
    BY <2>3, <2>4, <2>5
<1> QED
  BY <1>2, <1>3, <1>4

Replaces(n, C, q, k, r, d, t) ==
  /\ r = D!RemoveAt(q, k)
  /\ d = Cardinality({i \in 1 .. n - 1 : C[r[i]] <= C[q[k]]})
  /\ t = D!InsertAt(r, d + 1, q[k])

LEMMA Replacing ==
  ASSUME NEW S, NEW C \in [S -> Nat], NEW n \in Nat \ {0}, NEW q \in [1 .. n -> S],
         NEW k \in 1 .. n, Once(q, n, S), RisesBut(q, n, C, q[k]),
         NEW r, NEW d, NEW t, Replaces(n, C, q, k, r, d, t)
  PROVE  t \in [1 .. n -> S] /\ Once(t, n, S) /\ Rises(t, n, C)
<1>0. /\ r = D!RemoveAt(q, k)
      /\ d = Cardinality({i \in 1 .. n - 1 : C[r[i]] <= C[q[k]]})
      /\ t = D!InsertAt(r, d + 1, q[k])
  BY DEF Replaces
<1>1. q \in Seq(S) /\ Len(q) = n
  OBVIOUS
<1>2. /\ r \in Seq(S) /\ Len(r) = n - 1
      /\ \A i \in 1 .. n - 1 : r[i] = IF i < k THEN q[i] ELSE q[i + 1]
  BY <1>0, <1>1, RemoveFacts
<1>n. n \in Nat /\ n >= 1 /\ k \in Nat /\ 1 <= k /\ k <= n /\ q[k] \in S
  OBVIOUS
<1>l. /\ \A i \in 1 .. n - 1 : r[i] \in S
      /\ \A i \in 1 .. k - 1 : r[i] = q[i]
      /\ \A i \in k .. n - 1 : r[i] = q[i + 1]
  <2>1. \A i \in 1 .. n - 1 : r[i] \in S
    BY <1>2, ElementOfSeq
  <2>2. ASSUME NEW i \in 1 .. k - 1 PROVE r[i] = q[i]
    <3>1. i \in 1 .. n - 1 /\ i < k
      BY <1>n
    <3> QED
      BY <1>2, <3>1
  <2>3. ASSUME NEW i \in k .. n - 1 PROVE r[i] = q[i + 1]
    <3>1. i \in 1 .. n - 1 /\ ~(i < k)
      BY <1>n
    <3> QED
      BY <1>2, <3>1
  <2> QED
    BY <2>1, <2>2, <2>3
(* Where the elements of r were in q.                                      *)
<1>f. ASSUME NEW i \in 1 .. n - 1
      PROVE  LET x == IF i < k THEN i ELSE i + 1
             IN  x \in 1 .. n /\ x # k /\ r[i] = q[x]
  <2>1. CASE i < k
    <3>1. i \in 1 .. k - 1 /\ i \in 1 .. n /\ i # k
      BY <1>n, <2>1
    <3> QED
      BY <1>l, <2>1, <3>1
  <2>2. CASE ~(i < k)
    <3>1. i \in k .. n - 1 /\ i + 1 \in 1 .. n /\ i + 1 # k
      BY <1>n, <2>2
    <3> QED
      BY <1>l, <2>2, <3>1
  <2> QED
    BY <2>1, <2>2
<1>3. ASSUME NEW i \in 1 .. n - 1 PROVE r[i] \in S /\ r[i] # q[k] /\ C[r[i]] \in Nat
  <2>1. PICK x \in 1 .. n : x # k /\ r[i] = q[x]
    BY <1>f
  <2>2. q[x] # q[k]
    BY <2>1 DEF Once
  <2> QED
    BY <1>l, <2>1, <2>2
<1>4. ASSUME NEW i \in 1 .. n - 1, NEW j \in 1 .. n - 1, i < j
      PROVE  C[r[i]] <= C[r[j]] /\ r[i] # r[j]
  <2> DEFINE x == IF i < k THEN i ELSE i + 1
             y == IF j < k THEN j ELSE j + 1
  <2>1. x \in 1 .. n /\ y \in 1 .. n /\ x < y
    BY <1>4, <1>n
  <2>2. r[i] = q[x] /\ r[j] = q[y]
    BY <1>f
  <2> HIDE DEF x, y
  <2>3. q[x] # q[k] /\ q[y] # q[k]
    BY <1>3, <2>2
  <2> QED
    BY <2>1, <2>2, <2>3 DEF Once, RisesBut
<1> DEFINE M == {i \in 1 .. n - 1 : C[r[i]] <= C[q[k]]}
<1>5. M = 1 .. d /\ d \in 0 .. n - 1
  <2>1. ASSUME NEW j \in M, NEW i \in 1 .. n - 1, i < j PROVE i \in M
    <3>1. j \in 1 .. n - 1 /\ C[r[j]] <= C[q[k]]
      OBVIOUS
    <3>2. C[r[i]] \in Nat /\ C[r[j]] \in Nat /\ C[q[k]] \in Nat
      BY <1>3, <1>n, <3>1
    <3>3. C[r[i]] <= C[r[j]]
      BY <1>4, <2>1, <3>1
    <3>4. C[r[i]] <= C[q[k]]
      BY ONLY <3>1, <3>2, <3>3
    <3> QED
      BY <3>4
  <2>2. n - 1 \in Nat /\ M \in SUBSET (1 .. n - 1)
    BY <1>n
  <2>3. d = Cardinality(M)
    BY <1>0
  <2> HIDE DEF M
  <2> QED
    BY ONLY <2>1, <2>2, <2>3, Lower
<1>8. /\ \A i \in 1 .. d : i \in 1 .. n - 1 /\ C[r[i]] <= C[q[k]]
      /\ \A i \in d + 1 .. n - 1 : i \in 1 .. n - 1 /\ ~(C[r[i]] <= C[q[k]])
  <2>1. \A i \in 1 .. d : i \in M
    <3> HIDE DEF M
    <3> QED
      BY <1>5
  <2>2. \A i \in d + 1 .. n - 1 : i \notin M /\ i \in 1 .. n - 1
    <3> HIDE DEF M
    <3> QED
      BY <1>5, <1>n
  <2> QED
    BY <2>1, <2>2
<1> HIDE DEF M
<1>6. /\ t \in Seq(S) /\ Len(t) = n
      /\ \A i \in 1 .. n : t[i] = IF i < d + 1 THEN r[i] ELSE IF i = d + 1 THEN q[k] ELSE r[i - 1]
  <2>1. d + 1 \in 1 .. Len(r) + 1 /\ q[k] \in S
    BY <1>2, <1>5, <1>n
  <2>2. /\ t \in Seq(S) /\ Len(t) = Len(r) + 1
        /\ \A i \in 1 .. Len(r) + 1 :
             t[i] = IF i < d + 1 THEN r[i] ELSE IF i = d + 1 THEN q[k] ELSE r[i - 1]
    <3>1. Inserts(S, r, d + 1, q[k], D!InsertAt(r, d + 1, q[k]))
      BY ONLY <1>2, <2>1, InsertFacts
    <3>2. t = D!InsertAt(r, d + 1, q[k])
      BY <1>0
    <3> QED
      BY ONLY <3>1, <3>2 DEF Inserts
  <2>3. Len(r) + 1 = n
    BY <1>2, <1>n
  <2> QED
    BY <2>2, <2>3
<1>7. t \in [1 .. n -> S]
  BY ONLY <1>6, LenProperties
<1>t. /\ \A i \in 1 .. d : t[i] = r[i]
      /\ d + 1 \in 1 .. n /\ t[d + 1] = q[k]
      /\ \A i \in d + 1 .. n - 1 : i + 1 \in 1 .. n /\ t[i + 1] = r[i]
  <2>1. ASSUME NEW i \in 1 .. d PROVE t[i] = r[i]
    <3>1. i \in 1 .. n /\ i < d + 1
      BY ONLY <1>5, <1>n, i \in 1 .. d
    <3> QED
      BY ONLY <1>6, <3>1
  <2>2. d + 1 \in 1 .. n /\ t[d + 1] = q[k]
    <3>1. d + 1 \in 1 .. n /\ ~(d + 1 < d + 1)
      BY ONLY <1>5, <1>n
    <3> QED
      BY ONLY <1>6, <3>1
  <2>3. ASSUME NEW i \in d + 1 .. n - 1 PROVE i + 1 \in 1 .. n /\ t[i + 1] = r[i]
    <3>1. i + 1 \in 1 .. n /\ ~(i + 1 < d + 1) /\ i + 1 # d + 1 /\ i + 1 - 1 = i
      BY ONLY <1>5, <1>n, i \in d + 1 .. n - 1
    <3> QED
      BY ONLY <1>6, <3>1
  <2> QED
    BY <2>1, <2>2, <2>3
<1>9. ASSUME NEW i \in 1 .. n, NEW j \in 1 .. n, i < j
      PROVE  C[t[i]] <= C[t[j]] /\ t[i] # t[j]
  <2>1. \A x \in 1 .. n - 1 : x <= d => C[r[x]] <= C[q[k]] /\ t[x] = r[x]
    BY ONLY <1>5, <1>8, <1>n, <1>t
  <2>2. \A x \in 1 .. n - 1 : x > d => ~(C[r[x]] <= C[q[k]]) /\ t[x + 1] = r[x]
    BY ONLY <1>5, <1>8, <1>n, <1>t
  <2>3. Placed(S, C, n, q[k], d, r, t)
    BY ONLY <1>3, <1>4, <1>t, <2>1, <2>2 DEF Placed
  <2> QED
    BY ONLY <1>5, <1>9, <1>n, <2>3, Inserted, C \in [S -> Nat]
<1>10. ASSUME NEW b \in S PROVE \E i \in 1 .. n : t[i] = b
  <2>1. PICK x \in 1 .. n : q[x] = b
    BY DEF Once
  <2>2. CASE x = k
    BY <1>t, <2>1, <2>2
  <2>3. CASE x # k
    <3>1. PICK y \in 1 .. n - 1 : r[y] = b
      <4>1. CASE x < k
        <5>1. x \in 1 .. k - 1 /\ x \in 1 .. n - 1
          BY <1>n, <4>1
        <5> QED
          BY <1>l, <2>1, <5>1
      <4>2. CASE x > k
        <5>1. x - 1 \in k .. n - 1 /\ x - 1 \in 1 .. n - 1 /\ x - 1 + 1 = x
          BY <1>n, <4>2
        <5>2. r[x - 1] = q[x]
          BY <1>l, <5>1
        <5> QED
          BY <2>1, <5>1, <5>2
      <4> QED
        BY <1>n, <2>3, <4>1, <4>2
    <3>2. CASE y <= d
      <4>1. y \in 1 .. d /\ y \in 1 .. n
        BY <1>5, <1>n, <3>2
      <4> QED
        BY <1>t, <3>1, <4>1
    <3>3. CASE ~(y <= d)
      <4>1. y \in d + 1 .. n - 1
        BY <1>5, <1>n, <3>3
      <4> QED
        BY <1>t, <3>1, <4>1
    <3> QED
      BY <3>2, <3>3
  <2> QED
    BY <2>2, <2>3
<1>11. Once(t, n, S)
  <2>1. ASSUME NEW i \in 1 .. n, NEW j \in 1 .. n, t[i] = t[j] PROVE i = j
    <3>1. ~(i < j) /\ ~(j < i)
      BY <1>9, <2>1
    <3> QED
      BY <3>1
  <2> QED
    BY <1>10, <2>1 DEF Once
<1> QED
  BY <1>7, <1>9, <1>11 DEF Rises

-----------------------------------------------------------------------------
(* The parts of the state.                                                 *)

SameFlash(r, s) ==
  r.state = s.state /\ r.data = s.data /\ r.pages_valid = s.pages_valid
SameLists(r, s) ==
  /\ r.current_free = s.current_free /\ r.free_list = s.free_list
  /\ r.data_active = s.data_active
  /\ r.current_page = s.current_page /\ r.current_writing = s.current_writing
SameMaps(r, s)  == r.ppn = s.ppn /\ r.reverse_trans_map = s.reverse_trans_map
SameCache(r, s) == r.cached = s.cached /\ r.cmt = s.cmt
SameCall(r, s)  == r.asserted = s.asserted /\ r.requests = s.requests

LEMMA SpaceSame ==
  ASSUME NEW r, NEW s, SameFlash(r, s), SameLists(r, s), NEW pending, Space(s, pending)
  PROVE  Space(r, pending)
<1>1. Free(r) = Free(s) /\ \A b : IsCurrent(r, b) <=> IsCurrent(s, b)
  BY DEF SameLists, Free, Listed, IsCurrent
<1>2. \A b : Height(r, pending, b) = Height(s, pending, b)
  BY <1>1 DEF SameLists, Height
<1>3. Lists(r) /\ Filled(r)
  BY DEF SameLists, SameFlash, Space, Lists, Filled, StateOf
<1> QED
  BY <1>1, <1>2, <1>3 DEF Space, SameFlash

LEMMA MapsSame ==
  ASSUME NEW r, NEW s, r.state = s.state, r.data = s.data, SameMaps(r, s),
         NEW moved, Maps(s, moved)
  PROVE  Maps(r, moved)
  BY DEF SameMaps, Maps, To

LEMMA CountedSame ==
  ASSUME NEW r, NEW s, SameCache(r, s), Counted(s)
  PROVE  Counted(r)
  BY DEF SameCache, Counted

(* The operator that FiniteSets gives each module is the same.             *)
LEMMA CardinalitySame ==
  ASSUME NEW S
  PROVE  D!Cardinality(S) = Cardinality(S)
  BY DEF D!Cardinality, Cardinality

(* Numbers of invalid pages.                                               *)
Costs(s) == [b \in D!Blocks |-> D!InvalidCount(s, b)]

LEMMA CountTyped ==
  ASSUME NEW s, NEW b
  PROVE  D!InvalidCount(s, b) \in 0 .. BlockSize
<1>1. IsFiniteSet(D!Offsets) /\ Cardinality(D!Offsets) = BlockSize
  <2>1. 0 \in Int /\ BlockSize - 1 \in Int /\ BlockSize \in Int /\ BlockSize >= 1
    BY ConfigFacts
  <2>2. Cardinality(0 .. BlockSize - 1) = IF 0 > BlockSize - 1 THEN 0 ELSE BlockSize - 1 - 0 + 1
    BY <2>1, FS_Interval
  <2>3. IsFiniteSet(0 .. BlockSize - 1)
    BY <2>1, FS_Interval
  <2>4. Cardinality(0 .. BlockSize - 1) = BlockSize
    BY ONLY <2>1, <2>2
  <2> QED
    BY ONLY <2>3, <2>4 DEF D!Offsets
<1> DEFINE T == {i \in D!Offsets : s.state[D!Page(b, i)] = "INVALID"}
<1>2. T \in SUBSET D!Offsets
  <2>1. \A x \in T : x \in D!Offsets
    OBVIOUS
  <2> HIDE DEF T
  <2> QED
    BY <2>1
<1>3. D!InvalidCount(s, b) = Cardinality(T)
  BY CardinalitySame DEF D!InvalidCount
<1> HIDE DEF T
<1>4. IsFiniteSet(T) /\ Cardinality(T) <= Cardinality(D!Offsets)
  BY <1>1, <1>2, FS_Subset
<1>5. Cardinality(T) \in Nat
  BY <1>4, FS_CardinalityType
<1> QED
  BY <1>1, <1>3, <1>4, <1>5, ConfigFacts

LEMMA CostsTyped ==
  ASSUME NEW s
  PROVE  Costs(s) \in [D!Blocks -> Nat]
<1>1. \A b \in D!Blocks : D!InvalidCount(s, b) \in Nat
  BY CountTyped
<1> QED
  BY <1>1 DEF Costs

LEMMA CountSame ==
  ASSUME NEW r, NEW s, NEW b,
         \A i \in D!Offsets : r.state[D!Page(b, i)] = "INVALID" <=> s.state[D!Page(b, i)] = "INVALID"
  PROVE  D!InvalidCount(r, b) = D!InvalidCount(s, b)
<1>1. {i \in D!Offsets : r.state[D!Page(b, i)] = "INVALID"}
        = {i \in D!Offsets : s.state[D!Page(b, i)] = "INVALID"}
  OBVIOUS
<1> QED
  BY <1>1 DEF D!InvalidCount

LEMMA OrderedDef ==
  ASSUME NEW s \in States
  PROVE  Ordered(s) <=> /\ Once(s.active_cost, NumberOfBlocks, D!Blocks)
                        /\ Rises(s.active_cost, NumberOfBlocks, Costs(s))
<1>1. \A n \in 1 .. NumberOfBlocks : s.active_cost[n] \in D!Blocks
  BY DEF States
<1>2. \A n \in 1 .. NumberOfBlocks : Cost(s, n) = Costs(s)[s.active_cost[n]]
  BY <1>1 DEF Cost, Costs
<1> QED
  BY <1>2 DEF Ordered, Once, Rises

(* With invalid pages elsewhere unchanged, only b can be out of order.     *)
LEMMA OrderedBut ==
  ASSUME NEW s \in States, NEW r \in States, Ordered(s), r.active_cost = s.active_cost,
         NEW b, \A c \in D!Blocks \ {b} : \A i \in D!Offsets :
                  r.state[D!Page(c, i)] = "INVALID" <=> s.state[D!Page(c, i)] = "INVALID"
  PROVE  /\ Once(r.active_cost, NumberOfBlocks, D!Blocks)
         /\ RisesBut(r.active_cost, NumberOfBlocks, Costs(r), b)
<1>1. /\ Once(s.active_cost, NumberOfBlocks, D!Blocks)
      /\ Rises(s.active_cost, NumberOfBlocks, Costs(s))
  BY OrderedDef
<1>2. \A c \in D!Blocks : c # b => Costs(r)[c] = Costs(s)[c]
  BY CountSame DEF Costs
<1>3. \A n \in 1 .. NumberOfBlocks : r.active_cost[n] \in D!Blocks
  BY DEF States
<1>4. RisesBut(r.active_cost, NumberOfBlocks, Costs(r), b)
  BY <1>1, <1>2, <1>3 DEF Rises, RisesBut
<1> QED
  BY <1>1, <1>4

LEMMA OrderedKept ==
  ASSUME NEW s \in States, NEW r \in States, Ordered(s), r.active_cost = s.active_cost,
         \A p \in D!Pages : r.state[p] = "INVALID" <=> s.state[p] = "INVALID"
  PROVE  Ordered(r)
<1>1. \A c \in D!Blocks : D!InvalidCount(r, c) = D!InvalidCount(s, c)
  BY CountSame, Addresses
<1>2. \A n \in 1 .. NumberOfBlocks : r.active_cost[n] \in D!Blocks
  BY DEF States
<1>3. \A n \in 1 .. NumberOfBlocks : Cost(r, n) = Cost(s, n)
  BY <1>1, <1>2 DEF Cost
<1> QED
  BY <1>3 DEF Ordered

(* The place of an element in the order, and what its neighbours say.      *)
LEMMA PlaceFacts ==
  ASSUME NEW s \in States, NEW b \in D!Blocks,
         Once(s.active_cost, NumberOfBlocks, D!Blocks)
  PROVE  D!PlaceOf(s, b) \in 1 .. NumberOfBlocks /\ s.active_cost[D!PlaceOf(s, b)] = b
<1>1. \E n \in 1 .. NumberOfBlocks : s.active_cost[n] = b
  BY DEF Once
<1> QED
  BY <1>1 DEF D!PlaceOf

LEMMA BetweenNeighbours ==
  ASSUME NEW n \in Nat, NEW S, NEW C \in [S -> Nat], NEW q \in [1 .. n -> S],
         NEW k \in 1 .. n, Once(q, n, S), RisesBut(q, n, C, q[k]),
         k > 1 => C[q[k - 1]] <= C[q[k]], k < n => C[q[k]] <= C[q[k + 1]]
  PROVE  Rises(q, n, C)
<1>1. \A i \in 1 .. n : C[q[i]] \in Nat
  OBVIOUS
<1>2. \A i \in 1 .. n : q[i] = q[k] => i = k
  BY DEF Once
<1>3. \A i, j \in 1 .. n : i < j /\ i # k /\ j # k => C[q[i]] <= C[q[j]]
  BY <1>2 DEF RisesBut
<1>4. ASSUME NEW j \in 1 .. n, k < j PROVE C[q[k]] <= C[q[j]]
  <2>1. k + 1 \in 1 .. n /\ k + 1 # k /\ j # k /\ (k + 1 < j \/ k + 1 = j) /\ k < n
    BY <1>4
  <2>2. C[q[k]] <= C[q[k + 1]] /\ C[q[k + 1]] <= C[q[j]]
    BY <1>1, <1>3, <2>1
  <2> QED
    BY ONLY <1>1, <2>1, <2>2, k \in 1 .. n, j \in 1 .. n
<1>5. ASSUME NEW i \in 1 .. n, i < k PROVE C[q[i]] <= C[q[k]]
  <2>1. k - 1 \in 1 .. n /\ k - 1 # k /\ i # k /\ (i < k - 1 \/ i = k - 1) /\ k > 1
    BY <1>5
  <2>2. C[q[k - 1]] <= C[q[k]] /\ C[q[i]] <= C[q[k - 1]]
    BY <1>1, <1>3, <2>1
  <2> QED
    BY ONLY <1>1, <2>1, <2>2, k \in 1 .. n, i \in 1 .. n
<1> QED
  BY ONLY <1>3, <1>4, <1>5 DEF Rises

LEMMA UpdateBlockFacts ==
  ASSUME NEW s \in States, NEW b \in D!Blocks,
         Once(s.active_cost, NumberOfBlocks, D!Blocks),
         RisesBut(s.active_cost, NumberOfBlocks, Costs(s), b),
         NEW r, r = D!UpdateBlock(s, b)
  PROVE  /\ r \in States /\ Ordered(r)
         /\ SameFlash(r, s) /\ SameLists(r, s) /\ SameMaps(r, s) /\ SameCache(r, s)
         /\ SameCall(r, s)
<1> DEFINE k == D!PlaceOf(s, b)
           q == s.active_cost
           C == Costs(s)
           n == NumberOfBlocks
<1>1. k \in 1 .. n /\ q[k] = b
  BY PlaceFacts
<1>2. q \in [1 .. n -> D!Blocks] /\ n \in Nat \ {0} /\ C \in [D!Blocks -> Nat]
  BY ConfigFacts, CostsTyped DEF States
<1>3. \A i \in 1 .. n : D!CostAt(s, i) = C[q[i]]
  BY <1>2 DEF D!CostAt, Costs
<1>4. CASE D!InPlace(s, k)
  <2>1. r = s
    BY <1>4 DEF D!UpdateBlock
  <2>2. k > 1 => k - 1 \in 1 .. n /\ C[q[k - 1]] <= C[q[k]]
    <3>1. k > 1 => k - 1 \in 1 .. n /\ D!CostAt(s, k - 1) <= D!CostAt(s, k)
      BY <1>1, <1>2, <1>4 DEF D!InPlace
    <3> QED
      BY ONLY <1>1, <1>3, <3>1
  <2>3. k < n => k + 1 \in 1 .. n /\ C[q[k]] <= C[q[k + 1]]
    <3>1. k < n => k + 1 \in 1 .. n /\ D!CostAt(s, k) <= D!CostAt(s, k + 1)
      BY <1>1, <1>2, <1>4 DEF D!InPlace
    <3> QED
      BY ONLY <1>1, <1>3, <3>1
  <2>4. Once(q, n, D!Blocks) /\ RisesBut(q, n, C, q[k])
    BY <1>1
  <2>5. Rises(q, n, C)
    <3> HIDE DEF q, n, C, k
    <3> QED
      BY ONLY <1>1, <1>2, <2>2, <2>3, <2>4, BetweenNeighbours
  <2>6. Ordered(s)
    BY <2>5, OrderedDef
  <2> QED
    BY <2>1, <2>6 DEF SameFlash, SameLists, SameMaps, SameCache, SameCall
<1>5. CASE ~D!InPlace(s, k)
  <2> DEFINE rest == D!RemoveAt(q, k)
             d    == D!Bound(s, rest, D!InvalidCount(s, b))
             t    == D!InsertAt(rest, d + 1, b)
  <2>1. r = [s EXCEPT !.active_cost = t]
    BY <1>5 DEF D!UpdateBlock, D!Reordered
  <2>2. \A i \in 1 .. n - 1 : rest[i] \in D!Blocks
    <3>1. q \in Seq(D!Blocks) /\ Len(q) = n
      BY <1>2
    <3>2. rest \in Seq(D!Blocks) /\ Len(rest) = n - 1
      <4> HIDE DEF q, n, k
      <4> QED
        BY <1>1, <3>1, RemoveFacts
    <3> QED
      BY <3>2, ElementOfSeq
  <2> HIDE DEF rest
  <2>3. d = Cardinality({i \in 1 .. n - 1 : C[rest[i]] <= C[q[k]]})
    <3>1. \A i \in 1 .. n - 1 : C[rest[i]] = D!InvalidCount(s, rest[i])
      BY <2>2 DEF Costs
    <3>2. C[q[k]] = D!InvalidCount(s, b)
      BY <1>1 DEF Costs
    <3>3. {i \in 1 .. n - 1 : C[rest[i]] <= C[q[k]]}
             = {i \in 1 .. n - 1 : D!InvalidCount(s, rest[i]) <= D!InvalidCount(s, b)}
      BY <3>1, <3>2
    <3> QED
      BY <3>3, CardinalitySame DEF D!Bound
  <2>4. rest = D!RemoveAt(q, k) /\ t = D!InsertAt(rest, d + 1, q[k])
    BY <1>1 DEF rest
  <2>5. Once(q, n, D!Blocks) /\ RisesBut(q, n, C, q[k])
    BY <1>1
  <2> HIDE DEF t, d
  <2>r. Replaces(n, C, q, k, rest, d, t)
    BY ONLY <2>3, <2>4 DEF Replaces
  <2>6. t \in [1 .. n -> D!Blocks] /\ Once(t, n, D!Blocks) /\ Rises(t, n, C)
    <3> HIDE DEF q, n, C, k
    <3> QED
      BY ONLY <1>1, <1>2, <2>5, <2>r, Replacing
  <2>7. /\ r \in States /\ r.active_cost = t
        /\ SameFlash(r, s) /\ SameLists(r, s) /\ SameMaps(r, s) /\ SameCache(r, s)
        /\ SameCall(r, s)
    BY <2>1, <2>6 DEF States, SameFlash, SameLists, SameMaps, SameCache, SameCall
  <2>8. Costs(r) = C
    BY <2>7, CountSame DEF Costs, SameFlash
  <2>9. Ordered(r)
    BY <2>6, <2>7, <2>8, OrderedDef
  <2> QED
    BY <2>7, <2>9
<1> QED
  BY <1>4, <1>5

(* The page p becomes invalid in s, where s has the order of s0 and the    *)
(* same invalid pages but for p.                                           *)
LEMMA InvalidateAtFacts ==
  ASSUME NEW s0 \in States, Ordered(s0), NEW s \in States, s.active_cost = s0.active_cost,
         NEW p \in D!Pages,
         \A q \in D!Pages : q # p => (s.state[q] = "INVALID" <=> s0.state[q] = "INVALID"),
         NEW r, r = D!InvalidateAt(s, p)
  PROVE  /\ r \in States /\ Ordered(r)
         /\ r.state = [s.state EXCEPT ![p] = "INVALID"]
         /\ r.data = s.data /\ r.pages_valid = s.pages_valid
         /\ SameLists(r, s) /\ SameMaps(r, s) /\ SameCache(r, s) /\ SameCall(r, s)
<1> DEFINE t == D!InvalidatePage(s, p)
           b == D!BlockOf(p)
<1>1. t = [s EXCEPT !.state = [s.state EXCEPT ![p] = "INVALID"]]
  BY DEF D!InvalidatePage
<1>2. [s.state EXCEPT ![p] = "INVALID"] \in [D!Pages -> {"EMPTY", "VALID", "INVALID"}]
  BY DEF States
<1> HIDE DEF t
<1>3. /\ t \in States /\ t.active_cost = s.active_cost
      /\ t.state = [s.state EXCEPT ![p] = "INVALID"]
      /\ t.data = s.data /\ t.pages_valid = s.pages_valid
      /\ SameLists(t, s) /\ SameMaps(t, s) /\ SameCache(t, s) /\ SameCall(t, s)
  BY <1>1, <1>2 DEF States, SameLists, SameMaps, SameCache, SameCall
<1>4. ASSUME NEW c \in D!Blocks \ {b}, NEW i \in D!Offsets
      PROVE  t.state[D!Page(c, i)] = "INVALID" <=> s0.state[D!Page(c, i)] = "INVALID"
  <2>1. D!Page(c, i) \in D!Pages /\ D!Page(c, i) # p
    BY Addresses
  <2>2. t.state[D!Page(c, i)] = s.state[D!Page(c, i)]
    BY <1>3, <2>1 DEF States
  <2> QED
    BY <2>1, <2>2
<1>5. /\ Once(t.active_cost, NumberOfBlocks, D!Blocks)
      /\ RisesBut(t.active_cost, NumberOfBlocks, Costs(t), b)
  <2>1. t.active_cost = s0.active_cost
    BY <1>3
  <2> QED
    BY ONLY <1>3, <1>4, <2>1, OrderedBut, s0 \in States, Ordered(s0)
<1>6. b \in D!Blocks /\ r = D!UpdateBlock(t, b)
  BY Addresses DEF D!InvalidateAt, t
<1>7. /\ r \in States /\ Ordered(r)
      /\ SameFlash(r, t) /\ SameLists(r, t) /\ SameMaps(r, t) /\ SameCache(r, t)
      /\ SameCall(r, t)
  BY ONLY <1>3, <1>5, <1>6, UpdateBlockFacts
<1> QED
  BY <1>3, <1>7 DEF SameFlash, SameLists, SameMaps, SameCache, SameCall

-----------------------------------------------------------------------------
(* Allocation.                                                             *)

Taken(r, s) ==
  \/ /\ s.current_free < NumberOfBlocks /\ r.got = s.current_free
     /\ r.current_free = s.current_free + 1 /\ r.free_list = s.free_list
  \/ /\ s.current_free = NumberOfBlocks /\ s.free_list # << >>
     /\ r.current_free = s.current_free
     /\ r.got = Head(s.free_list) /\ r.free_list = Tail(s.free_list)

LEMMA FreeBlocks ==
  ASSUME NEW s \in States
  PROVE  Free(s) \subseteq D!Blocks /\ \A b \in Free(s) : b \in Nat
<1>1. s.current_free \in 0 .. NumberOfBlocks /\ s.free_list \in Seq(D!Blocks)
  BY DEF States
<1>2. \A n \in DOMAIN s.free_list : s.free_list[n] \in D!Blocks
  BY <1>1
<1> QED
  BY <1>1, <1>2, ConfigFacts DEF D!Blocks, Free, Listed

(* A block that was taken is no longer free, and the others are free once. *)
LEMMA FreeTaken ==
  ASSUME NEW s \in States, NEW r \in States, Taken(r, s),
         \A m, n \in DOMAIN s.free_list : s.free_list[m] = s.free_list[n] => m = n,
         \A b \in Listed(s) : b < s.current_free
  PROVE  /\ r.got \in D!Blocks
         /\ Free(s) = Free(r) \cup {r.got}
         /\ r.got \notin Free(r)
         /\ \A m, n \in DOMAIN r.free_list : r.free_list[m] = r.free_list[n] => m = n
         /\ \A b \in Listed(r) : b < r.current_free
         /\ s.current_free <= r.current_free
<1>0. /\ s.current_free \in 0 .. NumberOfBlocks /\ s.free_list \in Seq(D!Blocks)
      /\ NumberOfBlocks \in Nat
      /\ \A b \in Listed(s) : b \in D!Blocks /\ b \in Nat
  <2>1. s.current_free \in 0 .. NumberOfBlocks /\ s.free_list \in Seq(D!Blocks)
    BY DEF States
  <2>2. \A n \in DOMAIN s.free_list : s.free_list[n] \in D!Blocks
    BY <2>1
  <2>3. \A b \in D!Blocks : b \in Nat
    BY ConfigFacts DEF D!Blocks
  <2> QED
    BY <2>1, <2>2, <2>3, ConfigFacts DEF Listed
<1>1. ASSUME s.current_free < NumberOfBlocks, r.got = s.current_free,
             r.current_free = s.current_free + 1, r.free_list = s.free_list
      PROVE  /\ r.got \in D!Blocks
             /\ Free(s) = Free(r) \cup {r.got}
             /\ r.got \notin Free(r)
             /\ \A m, n \in DOMAIN r.free_list : r.free_list[m] = r.free_list[n] => m = n
             /\ \A b \in Listed(r) : b < r.current_free
             /\ s.current_free <= r.current_free
  <2>1. Listed(r) = Listed(s)
    BY <1>1 DEF Listed
  <2>2. s.current_free .. NumberOfBlocks - 1 = (r.current_free .. NumberOfBlocks - 1) \cup {r.got}
    BY <1>0, <1>1
  <2> QED
    BY <1>0, <1>1, <2>1, <2>2 DEF Free, D!Blocks
<1>2. ASSUME s.current_free = NumberOfBlocks, s.free_list # << >>,
             r.current_free = s.current_free,
             r.got = Head(s.free_list), r.free_list = Tail(s.free_list)
      PROVE  /\ r.got \in D!Blocks
             /\ Free(s) = Free(r) \cup {r.got}
             /\ r.got \notin Free(r)
             /\ \A m, n \in DOMAIN r.free_list : r.free_list[m] = r.free_list[n] => m = n
             /\ \A b \in Listed(r) : b < r.current_free
             /\ s.current_free <= r.current_free
  <2> DEFINE q == s.free_list
             t == r.free_list
  <2>1. /\ Len(q) \in Nat \ {0} /\ DOMAIN q = 1 .. Len(q) /\ r.got = q[1] /\ r.got \in D!Blocks
        /\ t \in Seq(D!Blocks) /\ Len(t) = Len(q) - 1 /\ DOMAIN t = 1 .. Len(t)
        /\ \A n \in 1 .. Len(t) : t[n] = q[n + 1]
    BY <1>0, <1>2, HeadTailProperties
  <2>2. Listed(s) = Listed(r) \cup {r.got}
    <3>1. ASSUME NEW n \in DOMAIN q PROVE q[n] \in Listed(r) \cup {r.got}
      <4>1. CASE n = 1
        BY <2>1, <4>1
      <4>2. CASE n # 1
        <5>1. n - 1 \in DOMAIN t /\ t[n - 1] = q[n]
          BY <2>1, <4>2
        <5> QED
          BY <5>1 DEF Listed
      <4> QED
        BY <4>1, <4>2
    <3>2. ASSUME NEW n \in DOMAIN t PROVE t[n] \in Listed(s)
      <4>1. n + 1 \in DOMAIN q /\ t[n] = q[n + 1]
        BY <2>1
      <4> QED
        BY <4>1 DEF Listed
    <3>3. r.got \in Listed(s)
      BY <2>1 DEF Listed
    <3> QED
      BY <3>1, <3>2, <3>3 DEF Listed
  <2>3. r.got \notin Listed(r)
    <3> SUFFICES ASSUME NEW n \in DOMAIN t, t[n] = r.got PROVE FALSE
      BY DEF Listed
    <3>1. n + 1 \in DOMAIN q /\ q[n + 1] = q[1] /\ 1 \in DOMAIN q /\ n + 1 # 1
      BY <2>1
    <3> QED
      BY <3>1
  <2>4. \A m, n \in DOMAIN t : t[m] = t[n] => m = n
    <3> SUFFICES ASSUME NEW m \in DOMAIN t, NEW n \in DOMAIN t, t[m] = t[n] PROVE m = n
      OBVIOUS
    <3>0. m \in 1 .. Len(t) /\ n \in 1 .. Len(t)
      BY <2>1
    <3>1. m + 1 \in DOMAIN q /\ n + 1 \in DOMAIN q
      BY <2>1, <3>0
    <3>2. q[m + 1] = q[n + 1]
      BY <2>1, <3>0
    <3>3. m + 1 = n + 1
      BY <3>1, <3>2
    <3> QED
      BY <2>1, <3>0, <3>3
  <2>5. s.current_free .. NumberOfBlocks - 1 = {}
    BY <1>0, <1>2
  <2>6. Free(s) = Listed(s) /\ Free(r) = Listed(r)
    BY <1>2, <2>5 DEF Free
  <2> QED
    BY <1>0, <1>2, <2>1, <2>2, <2>3, <2>4, <2>6
<1> QED
  BY <1>1, <1>2 DEF Taken

(* A block given back is free once if it was not free before.              *)
LEMMA FreeAppended ==
  ASSUME NEW s \in States, NEW r \in States, NEW b \in D!Blocks,
         r.free_list = Append(s.free_list, b), r.current_free = s.current_free,
         b \notin Free(s),
         \A m, n \in DOMAIN s.free_list : s.free_list[m] = s.free_list[n] => m = n,
         \A c \in Listed(s) : c < s.current_free
  PROVE  /\ Free(r) = Free(s) \cup {b}
         /\ \A m, n \in DOMAIN r.free_list : r.free_list[m] = r.free_list[n] => m = n
         /\ \A c \in Listed(r) : c < r.current_free
<1> DEFINE q == s.free_list
           t == r.free_list
<1>1. /\ s.current_free \in 0 .. NumberOfBlocks /\ q \in Seq(D!Blocks)
      /\ NumberOfBlocks \in Nat /\ b \in Nat /\ b < NumberOfBlocks
  BY ConfigFacts DEF States, D!Blocks
<1>2. /\ Len(q) \in Nat /\ DOMAIN q = 1 .. Len(q)
      /\ t \in Seq(D!Blocks) /\ Len(t) = Len(q) + 1 /\ DOMAIN t = 1 .. Len(t)
      /\ \A n \in 1 .. Len(q) : t[n] = q[n]
      /\ t[Len(q) + 1] = b
  BY <1>1, AppendProperties
<1> HIDE DEF q, t
<1>3. Listed(s) = {q[n] : n \in DOMAIN q} /\ Listed(r) = {t[n] : n \in DOMAIN t}
  BY DEF Listed, q, t
<1>4. Listed(r) = Listed(s) \cup {b}
  <2>1. ASSUME NEW n \in DOMAIN t PROVE t[n] \in Listed(s) \cup {b}
    <3>1. n \in 1 .. Len(q) \/ n = Len(q) + 1
      BY <1>2
    <3> QED
      BY <1>2, <1>3, <3>1
  <2>2. ASSUME NEW n \in DOMAIN q PROVE q[n] \in Listed(r)
    <3>1. n \in DOMAIN t /\ t[n] = q[n]
      BY <1>2
    <3> QED
      BY <1>3, <3>1
  <2>3. b \in Listed(r)
    <3>1. Len(q) + 1 \in DOMAIN t
      BY <1>2
    <3> QED
      BY <1>2, <1>3, <3>1
  <2> QED
    BY <1>3, <2>1, <2>2, <2>3
<1>5. Free(r) = Free(s) \cup {b}
  BY <1>4 DEF Free
<1>6. b < s.current_free
  BY <1>1 DEF Free
<1>7. b \notin Listed(s)
  BY DEF Free
<1>8. \A m, n \in DOMAIN t : t[m] = t[n] => m = n
  <2> SUFFICES ASSUME NEW m \in DOMAIN t, NEW n \in DOMAIN t, t[m] = t[n] PROVE m = n
    OBVIOUS
  <2>1. (m \in DOMAIN q \/ m = Len(q) + 1) /\ (n \in DOMAIN q \/ n = Len(q) + 1)
    BY <1>2
  <2>2. \A j \in DOMAIN q : t[j] = q[j] /\ q[j] # b
    BY <1>2, <1>3, <1>7
  <2>3. \A i, j \in DOMAIN q : q[i] = q[j] => i = j
    BY DEF q
  <2> QED
    BY <1>2, <2>1, <2>2, <2>3
<1>9. \A c \in Listed(r) : c < r.current_free
  BY <1>4, <1>6
<1> QED
  BY <1>5, <1>8, <1>9 DEF t

(* What StartBlock(TakeBlock) changes.                                     *)
LEMMA TakeFields ==
  ASSUME NEW s \in States, s.current_free < NumberOfBlocks \/ s.free_list # << >>,
         NEW o, o = s \/ (o = D!OutOfBlocks(s) /\ ~(s.current_free < NumberOfBlocks)),
         NEW r, r = D!StartBlock(D!TakeBlock(o))
  PROVE  /\ r \in States /\ Taken(r, s)
         /\ r.current_page = D!Page(r.got, 0) /\ r.current_writing = r.got
         /\ r.data_active = s.data_active + 1 /\ r.active_cost = s.active_cost
         /\ SameFlash(r, s) /\ SameMaps(r, s) /\ SameCache(r, s) /\ SameCall(r, s)
<1>0. /\ s.current_free \in 0 .. NumberOfBlocks /\ s.free_list \in Seq(D!Blocks)
      /\ s.data_active \in Int /\ NumberOfBlocks \in Nat
  BY ConfigFacts DEF States
<1>1. CASE s.current_free < NumberOfBlocks
  <2> DEFINE c == s.current_free
             t == [s EXCEPT !.got = c, !.current_free = c + 1, !.current_writing = c,
                            !.data_active = s.data_active + 1, !.current_page = D!Page(c, 0)]
  <2>1. o = s
    BY <1>1
  <2>2. r = t
    BY <1>1, <2>1 DEF D!StartBlock, D!TakeBlock, D!Took, States
  <2>3. c \in D!Blocks /\ c + 1 \in 0 .. NumberOfBlocks
    BY <1>0, <1>1 DEF D!Blocks
  <2>4. D!Page(c, 0) \in D!Pages
    BY <2>3, Addresses, ConfigFacts DEF D!Offsets
  <2> HIDE DEF t
  <2>5. /\ r.got = c /\ r.current_free = c + 1 /\ r.free_list = s.free_list
        /\ r.current_page = D!Page(c, 0) /\ r.current_writing = c
        /\ r.data_active = s.data_active + 1 /\ r.active_cost = s.active_cost
    BY ONLY <2>2, s \in States DEF t, States
  <2>6. SameFlash(r, s) /\ SameMaps(r, s) /\ SameCache(r, s) /\ SameCall(r, s)
    BY ONLY <2>2, s \in States DEF t, States, SameFlash, SameMaps, SameCache, SameCall
  <2>7. s.data_active + 1 \in Int
    BY <1>0
  <2>8. r \in States
    BY ONLY <2>2, <2>3, <2>4, <2>7, s \in States DEF t, States
  <2> QED
    BY <1>1, <2>5, <2>6, <2>8 DEF Taken
<1>2. CASE ~(s.current_free < NumberOfBlocks)
  <2> DEFINE c == Head(s.free_list)
             t == [s EXCEPT !.got = c, !.free_list = Tail(s.free_list),
                            !.out_of_blocks = FALSE, !.current_writing = c,
                            !.data_active = s.data_active + 1, !.current_page = D!Page(c, 0)]
  <2>1. s.current_free = NumberOfBlocks /\ s.free_list # << >>
    BY <1>0, <1>2
  <2>2. r = t
    <3>1. CASE o = s
      BY <1>2, <2>1, <3>1 DEF D!StartBlock, D!TakeBlock, D!TakeFree, D!Took, States
    <3>2. CASE o = [s EXCEPT !.out_of_blocks = TRUE]
      <4>1. /\ o.free_list = s.free_list /\ o.current_free = s.current_free
            /\ o.data_active = s.data_active
        BY <3>2 DEF States
      <4>2. D!TakeBlock(o) = [o EXCEPT !.got = c, !.free_list = Tail(s.free_list),
                                       !.out_of_blocks = FALSE, !.current_writing = c,
                                       !.data_active = s.data_active + 1]
        BY <1>2, <2>1, <3>2, <4>1 DEF D!TakeBlock, D!TakeFree, D!Took, States
      <4>3. D!TakeBlock(o) = [s EXCEPT !.got = c, !.free_list = Tail(s.free_list),
                                       !.out_of_blocks = FALSE, !.current_writing = c,
                                       !.data_active = s.data_active + 1]
        BY <3>2, <4>2 DEF States
      <4> QED
        BY <4>3 DEF D!StartBlock, States
    <3> QED
      BY <3>1, <3>2 DEF D!OutOfBlocks
  <2>3. c \in D!Blocks /\ Tail(s.free_list) \in Seq(D!Blocks)
    BY <1>0, <2>1, HeadTailProperties
  <2>4. D!Page(c, 0) \in D!Pages
    BY <2>3, Addresses, ConfigFacts DEF D!Offsets
  <2> HIDE DEF t
  <2>5. /\ r.got = c /\ r.current_free = s.current_free
        /\ r.free_list = Tail(s.free_list)
        /\ r.current_page = D!Page(c, 0) /\ r.current_writing = c
        /\ r.data_active = s.data_active + 1 /\ r.active_cost = s.active_cost
    BY ONLY <2>2, s \in States DEF t, States
  <2>6. SameFlash(r, s) /\ SameMaps(r, s) /\ SameCache(r, s) /\ SameCall(r, s)
    BY ONLY <2>2, s \in States DEF t, States, SameFlash, SameMaps, SameCache, SameCall
  <2>7. s.data_active + 1 \in Int
    BY <1>0
  <2>8. r \in States
    BY ONLY <2>2, <2>3, <2>4, <2>7, s \in States DEF t, States
  <2> QED
    BY <2>1, <2>5, <2>6, <2>8 DEF Taken
<1> QED
  BY <1>1, <1>2

(* A new block: its first page is the next to be written.                  *)
LEMMA TakeFacts ==
  ASSUME NEW s \in States, Space(s, FALSE), D!AtEnd(s),
         s.current_free < NumberOfBlocks \/ s.free_list # << >>,
         NEW o, o = s \/ (o = D!OutOfBlocks(s) /\ ~(s.current_free < NumberOfBlocks)),
         NEW r, r = D!StartBlock(D!TakeBlock(o))
  PROVE  /\ r \in States /\ Space(r, TRUE)
         /\ r.current_page \in D!Pages /\ D!BlockOf(r.current_page) \in Free(s)
         /\ Free(r) \subseteq Free(s) /\ r.active_cost = s.active_cost
         /\ SameFlash(r, s) /\ SameMaps(r, s) /\ SameCache(r, s) /\ SameCall(r, s)
         /\ s.current_free < NumberOfBlocks /\ s.free_list # << >> => r.free_list # << >>
         /\ Len(s.free_list) > 1 => r.free_list # << >>
<1> DEFINE g == r.got
<1>1. /\ r \in States /\ Taken(r, s)
      /\ r.current_page = D!Page(g, 0) /\ r.current_writing = g
      /\ r.data_active = s.data_active + 1 /\ r.active_cost = s.active_cost
      /\ SameFlash(r, s) /\ SameMaps(r, s) /\ SameCache(r, s) /\ SameCall(r, s)
  BY TakeFields
<1>2. /\ Lists(s) /\ Filled(s)
      /\ \A b \in D!Blocks : s.pages_valid[b] = Height(s, FALSE, b)
      /\ \A b \in Free(s) : ~IsCurrent(s, b)
  BY DEF Space
<1>3. \A b \in Listed(s) : b < s.current_free
  BY <1>2 DEF Lists, Listed
<1>4. /\ g \in D!Blocks /\ Free(s) = Free(r) \cup {g} /\ g \notin Free(r)
      /\ \A m, n \in DOMAIN r.free_list : r.free_list[m] = r.free_list[n] => m = n
      /\ \A b \in Listed(r) : b < r.current_free
  <2>1. \A m, n \in DOMAIN s.free_list : s.free_list[m] = s.free_list[n] => m = n
    BY <1>2 DEF Lists
  <2> QED
    BY ONLY <1>1, <1>3, <2>1, s \in States, FreeTaken
<1>5. D!Page(g, 0) \in D!Pages /\ D!BlockOf(D!Page(g, 0)) = g /\ D!Offset(D!Page(g, 0)) = 0
  BY <1>4, Addresses, ConfigFacts DEF D!Offsets
<1>6. \A b : IsCurrent(r, b) <=> b = g
  <2>1. D!Page(g, 0) # -1
    BY <1>5, ConfigFacts DEF D!Pages
  <2> QED
    BY <1>1, <1>5, <2>1 DEF IsCurrent
<1> HIDE DEF g
<1>7. Lists(r)
  <2>1. r.current_page # -1
    BY <1>1, <1>5, ConfigFacts DEF D!Pages
  <2>2. \A n \in DOMAIN r.free_list : r.free_list[n] < r.current_free
    BY <1>4 DEF Listed
  <2>3. r.current_free <= r.data_active
    BY <1>1, <1>2 DEF Lists, Taken, States
  <2> QED
    BY <1>1, <1>4, <1>5, <2>1, <2>2, <2>3 DEF Lists
<1>8. Filled(r)
  BY <1>1, <1>2 DEF Filled, StateOf, SameFlash
<1>9. ASSUME NEW b \in D!Blocks PROVE r.pages_valid[b] = Height(r, TRUE, b)
  <2>1. r.pages_valid[b] = Height(s, FALSE, b)
    BY <1>1, <1>2 DEF SameFlash
  <2>2. CASE b = g
    <3>1. Height(s, FALSE, b) = 0
      BY <1>2, <1>4, <2>2 DEF Height
    <3>2. Height(r, TRUE, b) = 0
      BY <1>1, <1>5, <1>6, <2>2 DEF Height
    <3> QED
      BY <2>1, <3>1, <3>2
  <2>3. CASE b # g /\ IsCurrent(s, b)
    <3>1. b \notin Free(r)
      BY <1>2, <1>4, <2>3
    <3>2. Height(r, TRUE, b) = BlockSize
      BY <1>6, <2>3, <3>1 DEF Height
    <3>3. Height(s, FALSE, b) = BlockSize - 1 + 1
      BY <2>3 DEF Height, IsCurrent, D!AtEnd
    <3>4. BlockSize - 1 + 1 = BlockSize
      BY ConfigFacts
    <3> QED
      BY ONLY <2>1, <3>2, <3>3, <3>4
  <2>4. CASE b # g /\ ~IsCurrent(s, b)
    BY <1>4, <1>6, <2>1, <2>4 DEF Height
  <2> QED
    BY <2>2, <2>3, <2>4
<1>10. /\ s.current_free < NumberOfBlocks /\ s.free_list # << >> => r.free_list # << >>
       /\ Len(s.free_list) > 1 => r.free_list # << >>
  <2>1. s.free_list \in Seq(D!Blocks)
    BY DEF States
  <2>2. s.free_list # << >> => Len(Tail(s.free_list)) = Len(s.free_list) - 1
    BY <2>1, HeadTailProperties
  <2>3. Len(s.free_list) > 1 => s.free_list # << >> /\ Tail(s.free_list) # << >>
    <3>1. Len(<< >>) = 0
      OBVIOUS
    <3>2. Len(s.free_list) \in Nat
      BY <2>1, LenProperties
    <3>3. ASSUME Len(s.free_list) > 1 PROVE s.free_list # << >> /\ Tail(s.free_list) # << >>
      <4>1. s.free_list # << >>
        BY ONLY <3>1, <3>3
      <4>2. Len(Tail(s.free_list)) # 0
        <5>1. PICK n, m : n = Len(s.free_list) /\ m = Len(Tail(s.free_list))
          BY ONLY TRUE
        <5>2. n \in Nat /\ n > 1 /\ m = n - 1
          BY ONLY <2>2, <3>2, <3>3, <4>1, <5>1
        <5>3. m # 0
          BY ONLY <5>2
        <5> QED
          BY ONLY <5>1, <5>3
      <4> QED
        BY ONLY <3>1, <4>1, <4>2
    <3> QED
      BY <3>3
  <2>4. s.current_free < NumberOfBlocks => s.current_free # NumberOfBlocks
    BY ConfigFacts DEF States
  <2>5. Len(<< >>) = 0 /\ ~(0 > 1)
    OBVIOUS
  <2>6. r.free_list = s.free_list \/ r.free_list = Tail(s.free_list)
    BY <1>1 DEF Taken
  <2>7. s.current_free < NumberOfBlocks => r.free_list = s.free_list
    BY <1>1, <2>4 DEF Taken
  <2> QED
    BY ONLY <2>3, <2>6, <2>7
<1>11. \A b \in Free(r) : ~IsCurrent(r, b)
  BY <1>4, <1>6
<1>12. Space(r, TRUE)
  BY <1>7, <1>8, <1>9, <1>11 DEF Space
<1> QED
  BY <1>1, <1>4, <1>5, <1>10, <1>12

(* The next page of the current block.                                     *)
LEMMA NextInBlockFacts ==
  ASSUME NEW s \in States, Space(s, FALSE), ~D!AtEnd(s),
         NEW r, r = D!NextInBlock(s)
  PROVE  /\ r \in States /\ Space(r, TRUE)
         /\ r.current_page \in D!Pages /\ IsCurrent(s, D!BlockOf(r.current_page))
         /\ Free(r) = Free(s) /\ r.active_cost = s.active_cost
         /\ SameFlash(r, s) /\ SameMaps(r, s) /\ SameCache(r, s) /\ SameCall(r, s)
         /\ r.free_list = s.free_list
<1> DEFINE p == s.current_page
<1>1. p \in D!Pages /\ p # -1 /\ D!Offset(p) # BlockSize - 1
  BY DEF D!AtEnd, States
<1>2. /\ p + 1 \in D!Pages
      /\ D!BlockOf(p + 1) = D!BlockOf(p) /\ D!Offset(p + 1) = D!Offset(p) + 1
  BY <1>1, NextAddress
<1>3. /\ r \in States /\ r.current_page = p + 1 /\ r.active_cost = s.active_cost
      /\ r.current_free = s.current_free /\ r.free_list = s.free_list
      /\ r.data_active = s.data_active /\ r.current_writing = s.current_writing
      /\ SameFlash(r, s) /\ SameMaps(r, s) /\ SameCache(r, s) /\ SameCall(r, s)
  BY <1>2 DEF D!NextInBlock, States, SameFlash, SameMaps, SameCache, SameCall
<1>4. Free(r) = Free(s)
  BY <1>3 DEF Free, Listed
<1>5. p + 1 # -1
  BY <1>2, ConfigFacts DEF D!Pages
<1>6. \A b : IsCurrent(r, b) <=> IsCurrent(s, b)
  BY <1>1, <1>2, <1>3, <1>5 DEF IsCurrent
<1>7. IsCurrent(s, D!BlockOf(p + 1))
  BY <1>1, <1>2 DEF IsCurrent
<1>8. Lists(r)
  BY <1>1, <1>2, <1>3, <1>5 DEF Lists, Space
<1>9. Filled(r)
  BY <1>3 DEF Space, Filled, StateOf, SameFlash
<1>10. ASSUME NEW b \in D!Blocks PROVE r.pages_valid[b] = Height(r, TRUE, b)
  <2>1. r.pages_valid[b] = Height(s, FALSE, b)
    BY <1>3 DEF SameFlash, Space
  <2>2. CASE IsCurrent(s, b)
    <3>1. D!Offset(p) \in Nat
      BY <1>1, Addresses, ConfigFacts DEF D!Offsets
    <3>2. Height(s, FALSE, b) = D!Offset(p) + 1
      BY <2>2 DEF Height
    <3>3. Height(r, TRUE, b) = D!Offset(p) + 1 + 0
      BY <1>2, <1>3, <1>6, <2>2 DEF Height
    <3>4. D!Offset(p) + 1 + 0 = D!Offset(p) + 1
      BY ONLY <3>1
    <3> QED
      BY ONLY <2>1, <3>2, <3>3, <3>4
  <2>3. CASE ~IsCurrent(s, b)
    BY <1>4, <1>6, <2>1, <2>3 DEF Height
  <2> QED
    BY <2>2, <2>3
<1>11. Space(r, TRUE)
  BY <1>4, <1>6, <1>8, <1>9, <1>10 DEF Space
<1> QED
  BY <1>2, <1>3, <1>4, <1>7, <1>11

(* The page for a copy, unless a collection begins. The free list does not *)
(* become empty.                                                           *)
LEMMA NextCopyFacts ==
  ASSUME NEW fail, NEW gc, NEW s \in States, Space(s, FALSE), s.current_page # -1,
         NEW r, r = D!NextCopy(gc, s)
  PROVE  \/ Void(fail, r)
         \/ /\ r \in States /\ Space(r, TRUE)
            /\ r.current_page \in D!Pages
            /\ \/ D!BlockOf(r.current_page) \in Free(s)
               \/ IsCurrent(s, D!BlockOf(r.current_page))
            /\ Free(r) \subseteq Free(s) /\ r.active_cost = s.active_cost
            /\ SameFlash(r, s) /\ SameMaps(r, s) /\ SameCache(r, s) /\ SameCall(r, s)
            /\ s.free_list # << >> => r.free_list # << >>
<1>0. r = D!Copied(gc, s)
  BY DEF D!NextCopy
<1>1. CASE ~D!AtEnd(s)
  <2>1. r = D!NextInBlock(s)
    BY <1>0, <1>1 DEF D!Copied
  <2> QED
    BY ONLY <1>1, <2>1, NextInBlockFacts, s \in States, Space(s, FALSE)
<1>2. CASE D!AtEnd(s) /\ D!RunsOut(s)
  <2>1. r = D!StartBlock(D!TakeBlock(D!Nested(gc, D!OutOfBlocks(s))))
    BY <1>0, <1>2 DEF D!Copied
  <2>2. "nested" \in DOMAIN D!OutOfBlocks(s)
    BY DEF D!OutOfBlocks, States
  <2>3. Void(fail, D!Nested(gc, D!OutOfBlocks(s)))
    BY <2>2, NestedVoid
  <2>4. Void(fail, r)
    BY ONLY <2>1, <2>3, MarksTakeBlock, MarksStart, VoidKept
  <2> QED
    BY <2>4
<1>3. CASE D!AtEnd(s) /\ ~D!RunsOut(s)
  <2>1. r = D!StartBlock(D!TakeBlock(s))
    BY <1>0, <1>3 DEF D!Copied
  <2>2. s.current_free < NumberOfBlocks \/ Len(s.free_list) > 1
    <3>1. Len(s.free_list) \in Nat /\ s.out_of_blocks = FALSE
          /\ s.current_free \in Nat /\ NumberOfBlocks \in Nat
      <4>1. /\ s.free_list \in Seq(D!Blocks) /\ s.out_of_blocks \in {FALSE}
            /\ s.current_free \in 0 .. NumberOfBlocks
        BY DEF States
      <4>2. Len(s.free_list) \in Nat
        BY ONLY <4>1, LenProperties
      <4>3. s.out_of_blocks = FALSE
        BY ONLY <4>1
      <4>4. s.current_free \in Nat /\ NumberOfBlocks \in Nat
        BY ONLY <4>1, ConfigFacts
      <4> QED
        BY <4>2, <4>3, <4>4
    <3>2. ~(s.current_free >= NumberOfBlocks /\ Len(s.free_list) <= 1)
      BY ONLY <1>3, <3>1 DEF D!RunsOut
    <3> QED
      BY ONLY <3>1, <3>2
  <2>3. Len(s.free_list) > 1 => s.free_list # << >>
    OBVIOUS
  <2> QED
    BY ONLY <1>3, <2>1, <2>2, <2>3, TakeFacts, s \in States, Space(s, FALSE)
<1> QED
  BY <1>1, <1>2, <1>3

-----------------------------------------------------------------------------
(* Writing the current page.                                               *)

LEMMA LpnFacts ==
  /\ \A l \in D!Lpns : l \in Nat /\ l # -1
  /\ \A p \in D!Pages : p \in Nat /\ p # -1
  BY ConfigFacts DEF D!Lpns, D!Pages

LEMMA CurrentEmpty ==
  ASSUME NEW s \in States, Space(s, TRUE), s.current_page \in D!Pages
  PROVE  /\ s.state[s.current_page] = "EMPTY"
         /\ s.pages_valid[D!BlockOf(s.current_page)] = D!Offset(s.current_page)
<1> DEFINE q == s.current_page
           b == D!BlockOf(q)
<1>1. b \in D!Blocks /\ D!Offset(q) \in D!Offsets /\ q = D!Page(b, D!Offset(q))
  BY Addresses
<1>2. IsCurrent(s, b)
  BY LpnFacts DEF IsCurrent
<1>3. s.pages_valid[b] = D!Offset(q) + 0 /\ D!Offset(q) \in Int
  BY <1>1, <1>2, ConfigFacts DEF Space, Height, D!Offsets
<1>4. s.pages_valid[b] = D!Offset(q)
  BY ONLY <1>3
<1>5. StateOf(s, b, D!Offset(q)) = "EMPTY" <=> s.pages_valid[b] <= D!Offset(q)
  BY <1>1 DEF Space, Filled
<1> QED
  BY <1>1, <1>3, <1>4, <1>5 DEF StateOf

LEMMA SpacePut ==
  ASSUME NEW s \in States, Space(s, TRUE), s.current_page \in D!Pages,
         NEW r, SameLists(r, s),
         \A p \in D!Pages :
           r.state[p] = "EMPTY" <=> (s.state[p] = "EMPTY" /\ p # s.current_page),
         r.pages_valid = [s.pages_valid EXCEPT ![D!BlockOf(s.current_page)] = @ + 1]
  PROVE  Space(r, FALSE)
<1> DEFINE q == s.current_page
           c == D!BlockOf(q)
<1>1. c \in D!Blocks /\ D!Offset(q) \in D!Offsets /\ q = D!Page(c, D!Offset(q))
  BY Addresses
<1>2. s.pages_valid[c] = D!Offset(q)
  BY CurrentEmpty
<1>3. /\ \A b \in D!Blocks : b # c => r.pages_valid[b] = s.pages_valid[b]
      /\ r.pages_valid[c] = D!Offset(q) + 1
  BY <1>1, <1>2 DEF States
<1>4. Free(r) = Free(s) /\ \A b : IsCurrent(r, b) <=> IsCurrent(s, b)
  BY DEF SameLists, Free, Listed, IsCurrent
<1>5. \A b : IsCurrent(s, b) <=> b = c
  BY LpnFacts DEF IsCurrent
<1>6. ASSUME NEW b \in D!Blocks PROVE r.pages_valid[b] = Height(r, FALSE, b)
  <2>1. CASE b = c
    <3>1. r.current_page = q
      BY DEF SameLists
    <3> QED
      BY <1>3, <1>4, <1>5, <2>1, <3>1 DEF Height
  <2>2. CASE b # c
    <3>1. s.pages_valid[b] = IF b \in Free(s) THEN 0 ELSE BlockSize
      BY <1>5, <2>2 DEF Space, Height
    <3> QED
      BY <1>3, <1>4, <1>5, <2>2, <3>1 DEF Height
  <2> QED
    BY <2>1, <2>2
<1>7. ASSUME NEW b \in D!Blocks, NEW i \in D!Offsets
      PROVE  StateOf(r, b, i) = "EMPTY" <=> r.pages_valid[b] <= i
  <2>1. /\ D!Page(b, i) \in D!Pages
        /\ D!Page(b, i) = q <=> (b = c /\ i = D!Offset(q))
    BY <1>1, Addresses
  <2>2. StateOf(s, b, i) = "EMPTY" <=> s.pages_valid[b] <= i
    BY DEF Space, Filled
  <2>3. StateOf(r, b, i) = "EMPTY" <=> (StateOf(s, b, i) = "EMPTY" /\ D!Page(b, i) # q)
    BY <2>1 DEF StateOf
  <2>4. i \in Int /\ D!Offset(q) \in Int
    BY <1>1, ConfigFacts DEF D!Offsets
  <2>5. CASE b = c
    <3>1. StateOf(r, b, i) = "EMPTY" <=> (D!Offset(q) <= i /\ i # D!Offset(q))
      BY <1>2, <2>1, <2>2, <2>3, <2>5
    <3>2. (D!Offset(q) <= i /\ i # D!Offset(q)) <=> D!Offset(q) + 1 <= i
      BY ONLY <2>4
    <3> QED
      BY <1>3, <2>5, <3>1, <3>2
  <2>6. CASE b # c
    BY <1>3, <2>1, <2>2, <2>3, <2>6
  <2> QED
    BY <2>5, <2>6
<1>8. Lists(r)
  BY DEF Space, Lists, SameLists
<1> QED
  BY <1>4, <1>6, <1>7, <1>8 DEF Space, Filled

LEMMA SpaceInvalid ==
  ASSUME NEW s \in States, NEW pending, Space(s, pending), NEW r, SameLists(r, s),
         r.pages_valid = s.pages_valid,
         \A p \in D!Pages : r.state[p] = "EMPTY" <=> s.state[p] = "EMPTY"
  PROVE  Space(r, pending)
<1>1. Free(r) = Free(s) /\ \A b : IsCurrent(r, b) <=> IsCurrent(s, b)
  BY DEF SameLists, Free, Listed, IsCurrent
<1>2. \A b : Height(r, pending, b) = Height(s, pending, b)
  BY <1>1 DEF SameLists, Height
<1>3. Lists(r)
  BY DEF SameLists, Space, Lists
<1>4. Filled(r)
  BY Addresses DEF Space, Filled, StateOf
<1> QED
  BY <1>1, <1>2, <1>3, <1>4 DEF Space

(* The data of page p, copied to page q.                                   *)
Copied(s, r, p, q) ==
  /\ r.state = [[s.state EXCEPT ![q] = "VALID"] EXCEPT ![p] = "INVALID"]
  /\ r.data = [s.data EXCEPT ![q] = s.data[p]]
  /\ SameMaps(r, s)

LEMMA MapsCopied ==
  ASSUME NEW s \in States, NEW moved, Maps(s, moved), NEW p \in D!Pages, NEW q \in D!Pages,
         p # q, s.state[p] = "VALID", s.state[q] = "EMPTY",
         NEW l, l = s.data[p], moved[l] = -1, NEW r, Copied(s, r, p, q)
  PROVE  /\ l \in D!Lpns /\ s.ppn[l] = p /\ s.reverse_trans_map[p] = l
         /\ Maps(r, [moved EXCEPT ![l] = q])
<1> DEFINE m == [moved EXCEPT ![l] = q]
<1>0. /\ s.state \in [D!Pages -> {"EMPTY", "VALID", "INVALID"}]
      /\ s.data \in [D!Pages -> D!Lpns \cup {-1}]
      /\ s.ppn \in [D!Lpns -> D!Pages \cup {-1}]
      /\ moved \in [D!Lpns \cup {-1} -> D!Pages \cup {-1}] /\ moved[-1] = -1
  BY DEF States, Maps
<1>s. /\ \A k \in D!Lpns : To(s, moved, k) # -1 =>
           s.state[To(s, moved, k)] = "VALID" /\ s.data[To(s, moved, k)] = k
      /\ \A x \in D!Pages : s.state[x] = "VALID" =>
           s.data[x] \in D!Lpns /\ To(s, moved, s.data[x]) = x
      /\ \A k \in D!Lpns : moved[k] = -1 /\ s.ppn[k] # -1 => s.reverse_trans_map[s.ppn[k]] = k
  BY DEF Maps
<1>r. /\ r.state = [[s.state EXCEPT ![q] = "VALID"] EXCEPT ![p] = "INVALID"]
      /\ r.data = [s.data EXCEPT ![q] = s.data[p]]
      /\ SameMaps(r, s)
  BY DEF Copied
<1>1. l \in D!Lpns /\ To(s, moved, l) = p
  BY <1>s
<1>2. s.ppn[l] = p /\ p # -1 /\ q # -1 /\ l # -1
  BY <1>1, LpnFacts DEF To
<1>3. s.reverse_trans_map[p] = l
  BY <1>1, <1>2, <1>s
<1>4. \A x \in D!Pages : /\ r.state[x] = IF x = p THEN "INVALID" ELSE IF x = q THEN "VALID"
                                         ELSE s.state[x]
                         /\ r.data[x] = IF x = q THEN l ELSE s.data[x]
  BY <1>0, <1>r
<1>5. /\ m \in [D!Lpns \cup {-1} -> D!Pages \cup {-1}]
      /\ \A k \in D!Lpns \cup {-1} : m[k] = IF k = l THEN q ELSE moved[k]
  BY <1>0, <1>1
<1> HIDE DEF m
<1>6. \A k \in D!Lpns : To(r, m, k) = IF k = l THEN q ELSE To(s, moved, k)
  BY <1>2, <1>5, <1>r DEF To, SameMaps
<1>7. ASSUME NEW k \in D!Lpns, To(r, m, k) # -1
      PROVE  r.state[To(r, m, k)] = "VALID" /\ r.data[To(r, m, k)] = k
  <2>1. CASE k = l
    BY <1>4, <1>6, <2>1
  <2>2. CASE k # l
    <3>1. PICK x : x = To(s, moved, k)
      BY ONLY TRUE
    <3>2. To(r, m, k) = x /\ x # -1
      BY <1>6, <1>7, <2>2, <3>1
    <3>3. x \in D!Pages
      BY <1>0, <3>1, <3>2 DEF To
    <3>4. s.state[x] = "VALID" /\ s.data[x] = k
      BY <1>s, <3>1, <3>2
    <3>5. x # p /\ x # q
      BY <2>2, <3>4
    <3> QED
      BY <1>4, <3>2, <3>3, <3>4, <3>5
  <2> QED
    BY <2>1, <2>2
<1>8. ASSUME NEW x \in D!Pages, r.state[x] = "VALID"
      PROVE  r.data[x] \in D!Lpns /\ To(r, m, r.data[x]) = x
  <2>1. x # p
    BY <1>4, <1>8
  <2>2. CASE x = q
    BY <1>1, <1>4, <1>6, <2>2
  <2>3. CASE x # q
    <3>1. s.state[x] = "VALID" /\ r.data[x] = s.data[x]
      BY <1>4, <1>8, <2>1, <2>3
    <3>2. s.data[x] \in D!Lpns /\ To(s, moved, s.data[x]) = x
      BY <1>s, <3>1
    <3>3. s.data[x] # l
      BY <1>1, <2>1, <3>2
    <3> QED
      BY <1>6, <3>1, <3>2, <3>3
  <2> QED
    BY <2>2, <2>3
<1>9. ASSUME NEW k \in D!Lpns, m[k] = -1, r.ppn[k] # -1
      PROVE  r.reverse_trans_map[r.ppn[k]] = k
  <2>1. k # l /\ moved[k] = -1
    BY <1>2, <1>5, <1>9
  <2> QED
    BY <1>9, <1>r, <1>s, <2>1 DEF SameMaps
<1>10. m[-1] = -1
  BY <1>0, <1>2, <1>5
<1>11. Maps(r, m)
  BY ONLY <1>5, <1>7, <1>8, <1>9, <1>10 DEF Maps
<1> QED
  BY <1>1, <1>2, <1>3, <1>11 DEF m

(* cleanup_block copies a valid page of block b, which is not the current  *)
(* page's.                                                                 *)
CopyOf(c, s, moved, p) ==
  LET r == c.ssd
      q == s.current_page
  IN  /\ c = [ssd |-> r, moved |-> [moved EXCEPT ![s.data[p]] = q]]
      /\ Good(r, c.moved, FALSE)
      /\ s.data[p] \in D!Lpns /\ s.ppn[s.data[p]] = p
      /\ SameLists(r, s) /\ SameMaps(r, s) /\ SameCache(r, s) /\ SameCall(r, s)
      /\ r.state = [[s.state EXCEPT ![q] = "VALID"] EXCEPT ![p] = "INVALID"]

LEMMA CopyPageFacts ==
  ASSUME NEW s, NEW moved, Good(s, moved, TRUE), NEW p \in D!Pages,
         s.current_page \in D!Pages, D!BlockOf(s.current_page) # D!BlockOf(p),
         s.state[p] = "VALID", moved[s.data[p]] = -1,
         NEW c, c = D!CopyPage(s, moved, p)
  PROVE  CopyOf(c, s, moved, p)
<1> DEFINE q == s.current_page
           t == D!WriteCopy(s, p, q)
           r == c.ssd
           b == D!BlockOf(q)
<1>1. /\ s \in States /\ s.asserted = TRUE
      /\ Space(s, TRUE) /\ Maps(s, moved) /\ Ordered(s) /\ Counted(s)
  BY DEF Good, Sane
<1>2. s.state[q] = "EMPTY" /\ s.pages_valid[b] = D!Offset(q)
  BY <1>1, CurrentEmpty
<1>3. b \in D!Blocks /\ p # q /\ D!Offset(q) + 1 \in 0 .. BlockSize
  BY Addresses, ConfigFacts DEF D!Offsets
<1>4. t = [s EXCEPT !.asserted = (s.asserted /\ s.state[q] = "EMPTY"),
                    !.state = [s.state EXCEPT ![q] = "VALID"],
                    !.data = [s.data EXCEPT ![q] = s.data[p]],
                    !.pages_valid = [s.pages_valid EXCEPT ![b] = @ + 1]]
  BY <1>1 DEF D!WriteCopy, States
<1>5. /\ [s.state EXCEPT ![q] = "VALID"] \in [D!Pages -> {"EMPTY", "VALID", "INVALID"}]
      /\ [s.data EXCEPT ![q] = s.data[p]] \in [D!Pages -> D!Lpns \cup {-1}]
      /\ [s.pages_valid EXCEPT ![b] = @ + 1] \in [D!Blocks -> 0 .. BlockSize]
  BY <1>1, <1>2, <1>3 DEF States
<1>6. (s.asserted /\ s.state[q] = "EMPTY") = TRUE
  BY <1>1, <1>2
<1> HIDE DEF t
<1>7. /\ t.state = [s.state EXCEPT ![q] = "VALID"]
      /\ t.data = [s.data EXCEPT ![q] = s.data[p]]
      /\ t.pages_valid = [s.pages_valid EXCEPT ![b] = @ + 1]
      /\ t.active_cost = s.active_cost
  BY ONLY <1>1, <1>4 DEF States
<1>8. SameLists(t, s) /\ SameMaps(t, s) /\ SameCache(t, s)
  BY ONLY <1>1, <1>4 DEF States, SameLists, SameMaps, SameCache
<1>9. t.asserted = TRUE /\ t.requests = s.requests
  BY ONLY <1>1, <1>4, <1>6 DEF States
<1>10. t \in States
  BY ONLY <1>1, <1>4, <1>5, <1>6 DEF States
<1>11. /\ r = D!InvalidateAt(t, p)
       /\ c = [ssd |-> r, moved |-> [moved EXCEPT ![s.reverse_trans_map[p]] = q]]
  BY DEF D!CopyPage, t
<1> HIDE DEF r
<1>12. ASSUME NEW x \in D!Pages
       PROVE  x # p => (t.state[x] = "INVALID" <=> s.state[x] = "INVALID")
  BY <1>1, <1>2, <1>7 DEF States
<1>13. /\ r \in States /\ Ordered(r)
       /\ r.state = [t.state EXCEPT ![p] = "INVALID"]
       /\ r.data = t.data /\ r.pages_valid = t.pages_valid
       /\ SameLists(r, t) /\ SameMaps(r, t) /\ SameCache(r, t) /\ SameCall(r, t)
  <2>1. t.active_cost = s.active_cost
    BY <1>7
  <2>2. r = D!InvalidateAt(t, p)
    BY <1>11
  <2> QED
    BY ONLY <1>1, <1>10, <1>12, <2>1, <2>2, InvalidateAtFacts, p \in D!Pages
<1>14. /\ r.state = [[s.state EXCEPT ![q] = "VALID"] EXCEPT ![p] = "INVALID"]
       /\ r.data = [s.data EXCEPT ![q] = s.data[p]]
       /\ r.pages_valid = [s.pages_valid EXCEPT ![b] = @ + 1]
  BY ONLY <1>7, <1>13
<1>15. /\ SameLists(r, s) /\ SameMaps(r, s) /\ SameCache(r, s)
       /\ r.asserted = TRUE /\ SameCall(r, s)
  BY ONLY <1>1, <1>8, <1>9, <1>13 DEF SameLists, SameMaps, SameCache, SameCall
<1>16. /\ s.data[p] \in D!Lpns /\ s.ppn[s.data[p]] = p /\ s.reverse_trans_map[p] = s.data[p]
       /\ Maps(r, [moved EXCEPT ![s.data[p]] = q])
  <2>1. PICK l : l = s.data[p]
    BY ONLY TRUE
  <2>2. moved[l] = -1 /\ s.state[p] = "VALID" /\ p \in D!Pages /\ q \in D!Pages
    BY <2>1
  <2>4. Copied(s, r, p, q)
    BY ONLY <1>14, <1>15 DEF Copied
  <2> HIDE DEF q
  <2>3. /\ l \in D!Lpns /\ s.ppn[l] = p /\ s.reverse_trans_map[p] = l
        /\ Maps(r, [moved EXCEPT ![l] = q])
    BY ONLY <1>1, <1>2, <1>3, <2>1, <2>2, <2>4, MapsCopied
  <2> QED
    BY ONLY <2>1, <2>3
<1>17. Space(r, FALSE)
  <2>1. ASSUME NEW x \in D!Pages
        PROVE  r.state[x] = "EMPTY" <=> (s.state[x] = "EMPTY" /\ x # q)
    BY <1>1, <1>14 DEF States
  <2>2. q \in D!Pages
    OBVIOUS
  <2> QED
    BY ONLY <1>1, <1>14, <1>15, <2>1, <2>2, SpacePut
<1>18. Counted(r)
  BY <1>1, <1>15, CountedSame
<1>19. c.moved = [moved EXCEPT ![s.data[p]] = q]
  BY <1>11, <1>16
<1> HIDE DEF q
<1>20. Good(r, c.moved, FALSE)
  BY ONLY <1>13, <1>15, <1>16, <1>17, <1>18, <1>19 DEF Good, Sane
<1>21. c = [ssd |-> r, moved |-> [moved EXCEPT ![s.data[p]] = q]]
  BY ONLY <1>11, <1>16
<1> QED
  BY ONLY <1>14, <1>15, <1>16, <1>20, <1>21 DEF CopyOf, q, r

-----------------------------------------------------------------------------
(* cleanup_block.                                                          *)

(* Block b of s0, in use and not being written, when i of its pages have   *)
(* been read.                                                              *)
Cleans(fail, s0, b, i, a) ==
  /\ a = [ssd |-> a.ssd, moved |-> a.moved]
  /\ \/ Void(fail, a.ssd)
     \/ /\ Good(a.ssd, a.moved, FALSE) /\ a.ssd.current_page # -1
        /\ b \notin Free(a.ssd) /\ ~IsCurrent(a.ssd, b)
        /\ \A j \in D!Offsets :
             j < i \/ StateOf(s0, b, j) = "INVALID" => StateOf(a.ssd, b, j) = "INVALID"
        /\ \A l \in D!Lpns : a.moved[l] # -1 => D!BlockOf(a.moved[l]) # b /\ s0.ppn[l] # -1
        /\ SameMaps(a.ssd, s0) /\ SameCache(a.ssd, s0) /\ a.ssd.requests = s0.requests
        /\ s0.free_list # << >> => a.ssd.free_list # << >>

LEMMA UsedFilled ==
  ASSUME NEW s, Space(s, FALSE), NEW b \in D!Blocks, b \notin Free(s), ~IsCurrent(s, b)
  PROVE  /\ s.pages_valid[b] = BlockSize
         /\ \A i \in D!Offsets : StateOf(s, b, i) # "EMPTY"
<1>1. s.pages_valid[b] = BlockSize
  BY DEF Space, Height
<1>2. \A i \in D!Offsets : ~(BlockSize <= i)
  BY ConfigFacts DEF D!Offsets
<1> QED
  BY <1>1, <1>2 DEF Space, Filled

LEMMA CleanPageFacts ==
  ASSUME NEW fail, NEW gc, NEW s0, NEW b \in D!Blocks, NEW i \in D!Offsets,
         NEW a, Cleans(fail, s0, b, i, a),
         NEW c, c = D!CleanPage(gc, a, D!Page(b, i))
  PROVE  Cleans(fail, s0, b, i + 1, c)
<1> DEFINE p == D!Page(b, i)
           s == a.ssd
           moved == a.moved
<1>1. CASE Void(fail, s)
  <2>1. a = [ssd |-> a.ssd, moved |-> a.moved]
    BY DEF Cleans
  <2>2. c = [ssd |-> c.ssd, moved |-> c.moved] /\ Void(fail, c.ssd)
    <3>1. PICK x : x = D!Page(b, i)
      BY ONLY TRUE
    <3>2. c = D!CleanPage(gc, a, x)
      BY <3>1
    <3>3. Void(fail, a.ssd)
      BY <1>1
    <3> QED
      BY ONLY <2>1, <3>2, <3>3, CleanPageVoid
  <2> QED
    BY ONLY <2>2 DEF Cleans
<1>2. CASE ~Void(fail, s)
  <2>1. /\ Good(s, moved, FALSE) /\ s.current_page # -1
        /\ b \notin Free(s) /\ ~IsCurrent(s, b)
        /\ \A j \in D!Offsets :
             j < i \/ StateOf(s0, b, j) = "INVALID" => StateOf(s, b, j) = "INVALID"
        /\ \A l \in D!Lpns : moved[l] # -1 => D!BlockOf(moved[l]) # b /\ s0.ppn[l] # -1
        /\ SameMaps(s, s0) /\ SameCache(s, s0) /\ s.requests = s0.requests
        /\ s0.free_list # << >> => s.free_list # << >>
        /\ a = [ssd |-> s, moved |-> moved]
    BY <1>2 DEF Cleans
  <2>2. /\ s \in States /\ s.asserted = TRUE
        /\ Space(s, FALSE) /\ Maps(s, moved) /\ Ordered(s) /\ Counted(s)
    BY <2>1 DEF Good, Sane
  <2>3. p \in D!Pages /\ D!BlockOf(p) = b /\ D!Offset(p) = i
    BY Addresses
  <2>4. s.state[p] # "EMPTY" /\ s.state[p] \in {"EMPTY", "VALID", "INVALID"}
    BY <2>1, <2>2, <2>3, UsedFilled DEF StateOf, States
  <2>5. CASE s.state[p] = "INVALID"
    <3>1. c = a
      BY <2>5 DEF D!CleanPage
    <3>2. \A j \in D!Offsets :
            j < i + 1 \/ StateOf(s0, b, j) = "INVALID" => StateOf(s, b, j) = "INVALID"
      <4>1. \A j \in D!Offsets : j < i + 1 => j < i \/ j = i
        BY ConfigFacts DEF D!Offsets
      <4> QED
        BY <2>1, <2>5, <4>1 DEF StateOf
    <3> QED
      BY <2>1, <3>1, <3>2 DEF Cleans
  <2>6. CASE s.state[p] = "VALID"
    <3> DEFINE t == D!NextCopy(gc, s)
    <3>1. c = D!CopyPage(t, moved, p)
      BY <2>6 DEF D!CleanPage
    <3> HIDE DEF t
    <3>2. CASE Void(fail, t)
      <4>1. c = [ssd |-> c.ssd, moved |-> c.moved]
        BY <3>1 DEF D!CopyPage
      <4>2. Void(fail, c.ssd)
        <5>1. Marks(c.ssd, t)
          BY <3>1, MarksCopy
        <5> QED
          BY ONLY <3>2, <5>1, VoidKept
      <4> QED
        BY ONLY <4>1, <4>2 DEF Cleans
    <3>3. CASE ~Void(fail, t)
      <4>1. /\ t \in States /\ Space(t, TRUE)
            /\ t.current_page \in D!Pages
            /\ \/ D!BlockOf(t.current_page) \in Free(s)
               \/ IsCurrent(s, D!BlockOf(t.current_page))
            /\ Free(t) \subseteq Free(s) /\ t.active_cost = s.active_cost
            /\ SameFlash(t, s) /\ SameMaps(t, s) /\ SameCache(t, s) /\ SameCall(t, s)
            /\ s.free_list # << >> => t.free_list # << >>
        <5>1. t = D!NextCopy(gc, s)
          BY DEF t
        <5> HIDE DEF s
        <5> QED
          BY ONLY <2>1, <2>2, <3>3, <5>1, NextCopyFacts
      <4>2. D!BlockOf(t.current_page) # b
        BY <2>1, <4>1
      <4>3. Maps(t, moved)
        BY ONLY <2>2, <4>1, MapsSame DEF SameFlash
      <4>4. Ordered(t)
        BY ONLY <2>2, <4>1, OrderedKept DEF SameFlash
      <4>5. Counted(t)
        BY ONLY <2>2, <4>1, CountedSame
      <4>6. Good(t, moved, TRUE)
        BY ONLY <2>2, <4>1, <4>3, <4>4, <4>5 DEF Good, Sane, SameCall
      <4>7. t.state[p] = "VALID"
        BY <2>6, <4>1 DEF SameFlash
      <4>8. moved[t.data[p]] = -1 /\ t.data[p] \in D!Lpns
        <5>1. t.data[p] \in D!Lpns /\ To(t, moved, t.data[p]) = p
          BY <2>3, <4>3, <4>7 DEF Maps
        <5> QED
          BY <2>1, <2>3, <5>1 DEF To
      <4> DEFINE q == t.current_page
                 l == t.data[p]
                 r == c.ssd
      <4>9. /\ c = [ssd |-> r, moved |-> [moved EXCEPT ![l] = q]]
            /\ Good(r, c.moved, FALSE)
            /\ l \in D!Lpns /\ t.ppn[l] = p
            /\ SameLists(r, t) /\ SameMaps(r, t) /\ SameCache(r, t) /\ SameCall(r, t)
            /\ r.state = [[t.state EXCEPT ![q] = "VALID"] EXCEPT ![p] = "INVALID"]
        <5>1. q \in D!Pages /\ D!BlockOf(q) # D!BlockOf(p)
          BY <2>3, <4>1, <4>2
        <5>2. CopyOf(c, t, moved, p)
          <6> HIDE DEF moved, p
          <6> QED
            BY ONLY <2>3, <3>1, <4>1, <4>6, <4>7, <4>8, <5>1, CopyPageFacts
        <5> QED
          BY ONLY <5>2 DEF CopyOf
      <4>10. c = [ssd |-> c.ssd, moved |-> c.moved]
        BY <3>1 DEF D!CopyPage
      <4>11. q # -1 /\ p # -1
        BY <2>3, <4>1, LpnFacts
      <4>12. /\ r.current_page # -1 /\ b \notin Free(r) /\ ~IsCurrent(r, b)
             /\ s0.free_list # << >> => r.free_list # << >>
        BY <2>1, <4>1, <4>2, <4>9, <4>11 DEF SameLists, Free, Listed, IsCurrent
      <4>13. ASSUME NEW j \in D!Offsets, j < i + 1 \/ StateOf(s0, b, j) = "INVALID"
             PROVE  StateOf(r, b, j) = "INVALID"
        <5>1. D!Page(b, j) \in D!Pages /\ D!BlockOf(D!Page(b, j)) = b /\ D!Offset(D!Page(b, j)) = j
          BY Addresses
        <5>2. D!Page(b, j) # q
          BY <4>2, <5>1
        <5>3. CASE j = i
          BY <2>3, <4>1, <4>9, <5>3 DEF StateOf, States
        <5>4. CASE j # i
          <6>1. j < i \/ StateOf(s0, b, j) = "INVALID"
            <7>1. j < i + 1 => j < i
              BY <5>4, ConfigFacts DEF D!Offsets
            <7> QED
              BY <4>13, <7>1
          <6>2. D!Page(b, j) # p /\ t.state[D!Page(b, j)] = "INVALID"
            BY <2>1, <2>3, <4>1, <5>1, <5>4, <6>1 DEF StateOf, SameFlash
          <6> QED
            BY <4>1, <4>9, <5>1, <5>2, <6>2 DEF StateOf, States
        <5> QED
          BY <5>3, <5>4
      <4>14. ASSUME NEW k \in D!Lpns, c.moved[k] # -1
             PROVE  D!BlockOf(c.moved[k]) # b /\ s0.ppn[k] # -1
        <5>1. moved \in [D!Lpns \cup {-1} -> D!Pages \cup {-1}]
          BY <4>3 DEF Maps
        <5>2. c.moved = [moved EXCEPT ![l] = q]
          BY <4>9
        <5>3. CASE k = l
          <6>1. c.moved[k] = q
            BY <5>1, <5>2, <5>3
          <6>2. s0.ppn[k] = p
            BY <2>1, <4>1, <4>9, <5>3 DEF SameMaps
          <6> QED
            BY <4>2, <4>11, <6>1, <6>2
        <5>4. CASE k # l
          <6>1. c.moved[k] = moved[k]
            BY <5>1, <5>2, <5>4
          <6> QED
            BY <2>1, <4>14, <6>1
        <5> QED
          BY <5>3, <5>4
      <4>15. SameMaps(r, s0) /\ SameCache(r, s0) /\ r.requests = s0.requests
        BY <2>1, <4>1, <4>9 DEF SameMaps, SameCache, SameCall
      <4> QED
        BY ONLY <4>9, <4>10, <4>12, <4>13, <4>14, <4>15 DEF Cleans
    <3> QED
      BY <3>2, <3>3
  <2> QED
    BY <2>4, <2>5, <2>6
<1> QED
  BY <1>1, <1>2

LEMMA CleanedFacts ==
  ASSUME NEW fail, NEW gc, NEW s, Good(s, D!NoneMoved, FALSE),
         NEW b \in D!Blocks, b \notin Free(s), ~IsCurrent(s, b)
  PROVE  Cleans(fail, s, b, BlockSize, D!Cleaned(gc, s, b))
<1>1. PICK f : /\ D!Cleaned(gc, s, b) = f[BlockSize]
               /\ f[0] = [ssd |-> s, moved |-> D!NoneMoved]
               /\ \A i \in 0 .. BlockSize : i # 0 =>
                    f[i] = D!CleanPage(gc, f[i - 1], D!Page(b, i - 1))
  BY CleanedDef
<1> DEFINE N == {i \in Nat : i <= BlockSize => Cleans(fail, s, b, i, f[i])}
<1>2. BlockSize \in Nat /\ NumberOfBlocks \in Nat
  BY ConfigFacts
<1>3. 0 \in N
  <2>1. f[0].ssd = s /\ f[0].moved = D!NoneMoved
    BY <1>1
  <2>2. \A i \in D!Offsets : ~(i < 0)
    BY <1>2 DEF D!Offsets
  <2>3. \A l \in D!Lpns : D!NoneMoved[l] = -1
    BY DEF D!NoneMoved
  <2>4. s.current_page # -1
    <3>1. s.current_page = -1 => s.current_free = 0
      BY DEF Good, Sane, Space, Lists
    <3>2. b \notin s.current_free .. NumberOfBlocks - 1
      BY DEF Free
    <3> QED
      BY <1>2, <3>1, <3>2 DEF D!Blocks
  <2>5. SameMaps(s, s) /\ SameCache(s, s)
    BY DEF SameMaps, SameCache
  <2>6. f[0] = [ssd |-> f[0].ssd, moved |-> f[0].moved]
    BY <1>1
  <2>7. Cleans(fail, s, b, 0, f[0])
    BY <2>1, <2>2, <2>3, <2>4, <2>5, <2>6 DEF Cleans
  <2> QED
    BY <2>7
<1>4. ASSUME NEW i \in Nat, i \in N PROVE i + 1 \in N
  <2> SUFFICES ASSUME i + 1 <= BlockSize PROVE Cleans(fail, s, b, i + 1, f[i + 1])
    OBVIOUS
  <2>1. i <= BlockSize /\ i \in D!Offsets /\ i + 1 \in 0 .. BlockSize /\ i + 1 # 0 /\ i + 1 - 1 = i
    BY <1>2 DEF D!Offsets
  <2>2. Cleans(fail, s, b, i, f[i])
    BY <1>4, <2>1
  <2>3. f[i + 1] = D!CleanPage(gc, f[i], D!Page(b, i))
    BY <1>1, <2>1
  <2>4. PICK a, c : a = f[i] /\ c = f[i + 1]
    BY ONLY TRUE
  <2>5. Cleans(fail, s, b, i, a) /\ c = D!CleanPage(gc, a, D!Page(b, i))
    BY ONLY <2>2, <2>3, <2>4
  <2>6. Cleans(fail, s, b, i + 1, c)
    BY ONLY <2>1, <2>5, CleanPageFacts, b \in D!Blocks
  <2> QED
    BY ONLY <2>4, <2>6
<1>5. \A i \in Nat : i \in N
  <2> HIDE DEF N
  <2> QED
    BY <1>3, <1>4, NatSetInduction
<1> QED
  BY <1>1, <1>2, <1>5

(* The new maps.                                                           *)
Remaps(r, s) ==
  /\ Good(r, D!NoneMoved, FALSE)
  /\ \A l \in D!Lpns : r.ppn[l] # -1 <=> s.ppn[l] # -1
  /\ SameFlash(r, s) /\ SameLists(r, s) /\ SameCall(r, s)

Newly(moved) == {l \in D!Lpns : moved[l] # -1}
RemapFields(r, s, moved) ==
  /\ r \in States /\ r.asserted = TRUE
  /\ SameFlash(r, s) /\ SameLists(r, s) /\ SameCall(r, s) /\ r.active_cost = s.active_cost
  /\ \A l \in D!Lpns : r.ppn[l] = To(s, moved, l)
  /\ \A l \in D!Lpns : To(s, moved, l) # -1 => r.reverse_trans_map[To(s, moved, l)] = l
  /\ r.cached = s.cached \cup Newly(moved)
  /\ r.cmt = s.cmt + Cardinality(Newly(moved) \ s.cached)

LEMMA RemappedFields ==
  ASSUME NEW s, NEW moved, Good(s, moved, FALSE)
  PROVE  RemapFields(D!Remapped(s, moved), s, moved)
<1> DEFINE new == Newly(moved)
           r == D!Remapped(s, moved)
<1>n. new = {l \in D!Lpns : moved[l] # -1}
  BY DEF Newly
<1> HIDE DEF new
<1> DEFINE at(p) == {l \in new : moved[l] = p}
           ppn == [l \in D!Lpns |-> IF l \in new THEN moved[l] ELSE s.ppn[l]]
           rev == [p \in D!Pages |-> IF at(p) # {} THEN D!Max(at(p)) ELSE s.reverse_trans_map[p]]
<1>1. /\ s \in States /\ s.asserted = TRUE /\ Maps(s, moved)
      /\ moved \in [D!Lpns \cup {-1} -> D!Pages \cup {-1}] /\ moved[-1] = -1
  BY DEF Good, Sane, Maps
<1>2. \A l \in D!Lpns : ppn[l] = To(s, moved, l)
  BY <1>n DEF To
<1>3. ppn \in [D!Lpns -> D!Pages \cup {-1}]
  BY <1>1 DEF States
<1>4. ASSUME NEW p \in D!Pages, NEW l \in at(p) PROVE at(p) = {l} /\ D!Max(at(p)) = l
  <2>1. \A k \in at(p) : k \in D!Lpns /\ moved[k] = p /\ moved[k] # -1
    BY <1>n
  <2>2. \A k \in at(p) : s.data[p] = k
    BY <1>1, <2>1 DEF Maps, To
  <2>3. at(p) = {l}
    BY <2>2
  <2>4. l \in Nat
    BY <2>1, LpnFacts
  <2>5. D!Max({l}) = l
    BY <2>4 DEF D!Max
  <2> HIDE DEF at
  <2> QED
    BY <2>3, <2>5
<1>5. ASSUME NEW p \in D!Pages
      PROVE  rev[p] \in D!Lpns \cup {-1}
  <2>1. CASE at(p) = {}
    BY <1>1, <2>1 DEF States
  <2>2. CASE at(p) # {}
    <3>1. PICK l : l \in at(p)
      BY <2>2
    <3>2. rev[p] = D!Max(at(p)) /\ l \in D!Lpns
      BY <1>n, <2>2, <3>1
    <3> HIDE DEF at, rev
    <3> QED
      BY <1>4, <3>1, <3>2
  <2> QED
    BY <2>1, <2>2
<1>6. ASSUME NEW l \in D!Lpns, To(s, moved, l) # -1
      PROVE  rev[To(s, moved, l)] = l
  <2>1. PICK p : p = To(s, moved, l)
    BY ONLY TRUE
  <2>2. p \in D!Pages /\ p # -1
    BY <1>1, <1>6, <2>1 DEF To, States
  <2>3. CASE l \in new
    <3>1. l \in at(p)
      BY <1>n, <2>1, <2>3 DEF To
    <3>2. rev[p] = D!Max(at(p))
      BY <2>2, <3>1
    <3> HIDE DEF at, rev
    <3> QED
      BY <1>4, <2>1, <2>2, <3>1, <3>2
  <2>4. CASE l \notin new
    <3>1. moved[l] = -1 /\ s.ppn[l] = p
      BY <1>n, <2>1, <2>4 DEF To
    <3>2. s.data[p] = l /\ s.reverse_trans_map[p] = l
      BY <1>1, <1>6, <2>1, <2>2, <3>1 DEF Maps
    <3>3. \A k \in at(p) : s.data[p] = k
      BY <1>1, <1>n, <2>2 DEF Maps, To
    <3>4. at(p) = {}
      BY <2>4, <3>2, <3>3
    <3>5. rev[p] = s.reverse_trans_map[p]
      BY <2>2, <3>4
    <3> QED
      BY <2>1, <3>2, <3>5
  <2> QED
    BY <2>3, <2>4
<1>7. Cardinality(new \ s.cached) \in Nat /\ D!Cardinality(new \ s.cached) = Cardinality(new \ s.cached)
  <2>1. IsFiniteSet(D!Lpns)
    BY ConfigFacts, FS_Interval DEF D!Lpns
  <2>2. new \ s.cached \in SUBSET D!Lpns
    BY <1>n
  <2> QED
    BY ONLY <2>1, <2>2, FS_Subset, FS_CardinalityType, CardinalitySame
<1>8. rev \in [D!Pages -> D!Lpns \cup {-1}]
  <2> HIDE DEF at
  <2> QED
    BY <1>5
<1>9. r = [s EXCEPT !.asserted = (s.asserted /\ moved[-1] = -1), !.ppn = ppn,
                    !.reverse_trans_map = rev, !.cached = s.cached \cup new,
                    !.cmt = s.cmt + D!Cardinality(new \ s.cached)]
  BY <1>1, <1>n DEF D!Remapped, D!Unset, States
<1>10. (s.asserted /\ moved[-1] = -1) = TRUE
  BY <1>1
<1>11. new \subseteq D!Lpns
  BY <1>n
<1> HIDE DEF ppn, rev, at, r
<1>12. r \in States
  <2>1. s.cmt + D!Cardinality(new \ s.cached) \in Int
    BY <1>1, <1>7 DEF States
  <2> QED
    BY ONLY <1>1, <1>3, <1>8, <1>9, <1>10, <1>11, <2>1 DEF States
<1>13. /\ r.asserted = TRUE /\ r.ppn = ppn /\ r.reverse_trans_map = rev
       /\ r.cached = s.cached \cup new /\ r.cmt = s.cmt + D!Cardinality(new \ s.cached)
  BY ONLY <1>1, <1>9, <1>10 DEF States
<1>14. /\ SameFlash(r, s) /\ SameLists(r, s) /\ r.active_cost = s.active_cost
       /\ r.requests = s.requests
  BY ONLY <1>1, <1>9 DEF States, SameFlash, SameLists
<1> QED
  BY ONLY <1>1, <1>2, <1>6, <1>7, <1>12, <1>13, <1>14 DEF SameCall, RemapFields, r, new

LEMMA RemappedFacts ==
  ASSUME NEW s, NEW moved, Good(s, moved, FALSE),
         \A l \in D!Lpns : moved[l] # -1 => s.ppn[l] # -1,
         NEW r, r = D!Remapped(s, moved)
  PROVE  Remaps(r, s)
<1> DEFINE new == Newly(moved)
<1>0. new = {l \in D!Lpns : moved[l] # -1}
  BY DEF Newly
<1> HIDE DEF new
<1>1. /\ r \in States /\ r.asserted = TRUE
      /\ SameFlash(r, s) /\ SameLists(r, s) /\ SameCall(r, s) /\ r.active_cost = s.active_cost
      /\ \A l \in D!Lpns : r.ppn[l] = To(s, moved, l)
      /\ \A l \in D!Lpns : To(s, moved, l) # -1 => r.reverse_trans_map[To(s, moved, l)] = l
      /\ r.cached = s.cached \cup new
      /\ r.cmt = s.cmt + Cardinality(new \ s.cached)
  <2>1. RemapFields(r, s, moved)
    BY RemappedFields
  <2> QED
    BY ONLY <2>1 DEF RemapFields, new
<1>2. /\ s \in States /\ s.asserted = TRUE
      /\ Space(s, FALSE) /\ Maps(s, moved) /\ Ordered(s) /\ Counted(s)
  BY DEF Good, Sane
<1>3. Space(r, FALSE)
  BY ONLY <1>1, <1>2, SpaceSame
<1>4. Ordered(r)
  BY ONLY <1>1, <1>2, OrderedKept DEF SameFlash
<1>5. Counted(r)
  <2>1. IsFiniteSet(s.cached) /\ IsFiniteSet(new \ s.cached)
    <3>1. IsFiniteSet(D!Lpns)
      <4>1. 0 \in Int /\ DftlLogicalBlocks * BlockSize - 1 \in Int
        BY ConfigFacts
      <4> QED
        BY ONLY <4>1, FS_Interval DEF D!Lpns
    <3>2. s.cached \in SUBSET D!Lpns /\ new \ s.cached \in SUBSET D!Lpns
      BY <1>0, <1>2 DEF States
    <3> QED
      BY ONLY <3>1, <3>2, FS_Subset
  <2>2. Cardinality(s.cached \cup (new \ s.cached))
          = Cardinality(s.cached) + Cardinality(new \ s.cached)
            - Cardinality(s.cached \cap (new \ s.cached))
    BY ONLY <2>1, FS_Union
  <2>3. s.cached \cap (new \ s.cached) = {} /\ s.cached \cup (new \ s.cached) = r.cached
    BY <1>1
  <2>4. Cardinality(s.cached) \in Nat /\ Cardinality(new \ s.cached) \in Nat /\ Cardinality({}) = 0
    <3>1. Cardinality(s.cached) \in Nat
      BY ONLY <2>1, FS_CardinalityType
    <3>2. Cardinality(new \ s.cached) \in Nat
      BY ONLY <2>1, FS_CardinalityType
    <3>3. Cardinality({}) = 0
      BY ONLY FS_EmptySet
    <3> QED
      BY <3>1, <3>2, <3>3
  <2>5. Cardinality(r.cached) = Cardinality(s.cached) + Cardinality(new \ s.cached)
    <3>1. Cardinality(s.cached \cup (new \ s.cached))
            = Cardinality(s.cached) + Cardinality(new \ s.cached) - 0
      BY ONLY <2>2, <2>3, <2>4, Zenon
    <3>2. Cardinality(s.cached) + Cardinality(new \ s.cached) - 0
            = Cardinality(s.cached) + Cardinality(new \ s.cached)
      BY ONLY <2>4
    <3> QED
      BY ONLY <2>3, <3>1, <3>2
  <2>6. s.cmt \in Int
    BY <1>2 DEF States
  <2> QED
    BY ONLY <1>1, <1>2, <2>4, <2>5, <2>6 DEF Counted
<1>6. \A l \in D!Lpns : r.ppn[l] # -1 <=> s.ppn[l] # -1
  BY <1>1 DEF To
<1>7. Maps(r, D!NoneMoved)
  <2>1. /\ D!NoneMoved \in [D!Lpns \cup {-1} -> D!Pages \cup {-1}]
        /\ \A l \in D!Lpns \cup {-1} : D!NoneMoved[l] = -1
    BY DEF D!NoneMoved, D!Unset
  <2>2. \A l \in D!Lpns : To(r, D!NoneMoved, l) = To(s, moved, l) /\ r.ppn[l] = To(s, moved, l)
    BY <1>1, <2>1 DEF To
  <2>3. ASSUME NEW l \in D!Lpns, To(r, D!NoneMoved, l) # -1
        PROVE  r.state[To(r, D!NoneMoved, l)] = "VALID" /\ r.data[To(r, D!NoneMoved, l)] = l
    BY <1>1, <1>2, <2>2, <2>3 DEF Maps, SameFlash
  <2>4. ASSUME NEW p \in D!Pages, r.state[p] = "VALID"
        PROVE  r.data[p] \in D!Lpns /\ To(r, D!NoneMoved, r.data[p]) = p
    BY <1>1, <1>2, <2>2, <2>4 DEF Maps, SameFlash
  <2>5. ASSUME NEW l \in D!Lpns, r.ppn[l] # -1 PROVE r.reverse_trans_map[r.ppn[l]] = l
    BY <1>1, <2>5
  <2> QED
    BY ONLY <2>1, <2>3, <2>4, <2>5 DEF Maps
<1> QED
  BY ONLY <1>1, <1>3, <1>4, <1>5, <1>6, <1>7 DEF Remaps, Good, Sane

(* What a cleanup of block b, in use and not being written, leaves.        *)
CleanedUp(r, s, b) ==
  /\ Good(r, D!NoneMoved, FALSE) /\ r.current_page # -1
  /\ b \notin Free(r) /\ ~IsCurrent(r, b)
  /\ \A j \in D!Offsets : StateOf(r, b, j) = "INVALID"
  /\ \A l \in D!Lpns : r.ppn[l] # -1 <=> s.ppn[l] # -1
  /\ r.requests = s.requests
  /\ s.free_list # << >> => r.free_list # << >>

LEMMA CleanupFacts ==
  ASSUME NEW fail, NEW gc, NEW s, Good(s, D!NoneMoved, FALSE),
         NEW b \in D!Blocks, b \notin Free(s), ~IsCurrent(s, b)
  PROVE  Void(fail, D!Cleanup(gc, s, b)) \/ CleanedUp(D!Cleanup(gc, s, b), s, b)
<1> DEFINE a == D!Cleaned(gc, s, b)
           t == a.ssd
           moved == a.moved
           r == D!Remapped(t, moved)
<1>1. Cleans(fail, s, b, BlockSize, a)
  BY CleanedFacts
<1>2. D!Cleanup(gc, s, b) = r
  BY DEF D!Cleanup
<1> HIDE DEF a
<1>3. CASE Void(fail, t)
  <2>1. Marks(r, t)
    BY MarksRemapped
  <2>2. Void(fail, r)
    <3> HIDE DEF r, t
    <3> QED
      BY ONLY <1>3, <2>1, VoidKept
  <2> QED
    BY ONLY <1>2, <2>2
<1>4. CASE ~Void(fail, t)
  <2>1. /\ Good(t, moved, FALSE) /\ t.current_page # -1
        /\ b \notin Free(t) /\ ~IsCurrent(t, b)
        /\ \A j \in D!Offsets :
             j < BlockSize \/ StateOf(s, b, j) = "INVALID" => StateOf(t, b, j) = "INVALID"
        /\ \A l \in D!Lpns : moved[l] # -1 => D!BlockOf(moved[l]) # b /\ s.ppn[l] # -1
        /\ SameMaps(t, s) /\ t.requests = s.requests
        /\ s.free_list # << >> => t.free_list # << >>
    BY ONLY <1>1, <1>4 DEF Cleans
  <2>2. \A l \in D!Lpns : moved[l] # -1 => t.ppn[l] # -1
    BY ONLY <2>1 DEF SameMaps
  <2> HIDE DEF t, moved
  <2>3. Remaps(r, t)
    <3>1. PICK x : x = D!Remapped(t, moved)
      BY ONLY TRUE
    <3>2. Remaps(x, t)
      BY ONLY <2>1, <2>2, <3>1, RemappedFacts
    <3> QED
      BY ONLY <3>1, <3>2
  <2> HIDE DEF r
  <2>4. /\ Good(r, D!NoneMoved, FALSE)
        /\ \A l \in D!Lpns : r.ppn[l] # -1 <=> t.ppn[l] # -1
        /\ SameFlash(r, t) /\ SameLists(r, t) /\ SameCall(r, t)
    BY ONLY <2>3 DEF Remaps
  <2>5. \A j \in D!Offsets : j < BlockSize
    BY ConfigFacts DEF D!Offsets
  <2>6. \A j \in D!Offsets : StateOf(r, b, j) = "INVALID"
    BY ONLY <2>1, <2>4, <2>5 DEF StateOf, SameFlash
  <2>7. b \notin Free(r) /\ ~IsCurrent(r, b) /\ r.current_page # -1
    BY ONLY <2>1, <2>4 DEF SameLists, Free, Listed, IsCurrent
  <2>8. \A l \in D!Lpns : r.ppn[l] # -1 <=> s.ppn[l] # -1
    BY ONLY <2>1, <2>4 DEF SameMaps
  <2>9. r.requests = s.requests /\ (s.free_list # << >> => r.free_list # << >>)
    BY ONLY <2>1, <2>4 DEF SameCall, SameLists
  <2>10. CleanedUp(r, s, b)
    BY ONLY <2>4, <2>6, <2>7, <2>8, <2>9 DEF CleanedUp
  <2> QED
    BY ONLY <1>2, <2>10
<1> QED
  BY <1>3, <1>4

(* The block is erased, and free.                                          *)
Collected(r, s, b) ==
  /\ Good(r, D!NoneMoved, FALSE)
  /\ r.ppn = s.ppn /\ r.requests = s.requests
  /\ r.free_list = Append(s.free_list, b)
  /\ r.current_free = s.current_free /\ r.current_page = s.current_page

Emptied(s, b) == [D!Erase(s, b) EXCEPT !.free_list = Append(@, b)]
EmptiedFrom(r, s, b) ==
  /\ r \in States /\ r.active_cost = s.active_cost
  /\ \A p \in D!Pages :
       /\ r.state[p] = IF D!BlockOf(p) = b THEN "EMPTY" ELSE s.state[p]
       /\ D!BlockOf(p) # b => r.data[p] = s.data[p]
  /\ r.pages_valid = [s.pages_valid EXCEPT ![b] = 0]
  /\ r.free_list = Append(s.free_list, b)
  /\ r.current_free = s.current_free /\ r.data_active = s.data_active
  /\ r.current_page = s.current_page /\ r.current_writing = s.current_writing
  /\ SameMaps(r, s) /\ SameCache(r, s) /\ SameCall(r, s)

LEMMA EmptiedFields ==
  ASSUME NEW s \in States, NEW b \in D!Blocks
  PROVE  EmptiedFrom(Emptied(s, b), s, b)
<1>0. PICK r : r = Emptied(s, b)
  BY ONLY TRUE
<1> DEFINE st == D!With(s.state, D!PagesOf(b), "EMPTY")
           da == D!With(s.data, D!PagesOf(b), -1)
           pv == [s.pages_valid EXCEPT ![b] = 0]
           fl == Append(s.free_list, b)
           er == D!Wear(s, {b})
           wo == s.worn_out \/ D!IsWornOut(s, {b})
<1>1. r = [s EXCEPT !.state = st, !.data = da, !.pages_valid = pv,
                    !.erases_remaining = er, !.worn_out = wo, !.free_list = fl]
  BY <1>0 DEF Emptied, D!Erase, D!Junk, States
<1>2. /\ s.state \in [D!Pages -> {"EMPTY", "VALID", "INVALID"}]
      /\ s.data \in [D!Pages -> D!Lpns \cup {-1}]
      /\ s.pages_valid \in [D!Blocks -> 0 .. BlockSize]
      /\ s.erases_remaining \in [D!Blocks -> 0 .. BlockErases] /\ s.worn_out \in BOOLEAN
      /\ s.free_list \in Seq(D!Blocks)
  BY DEF States
<1>3. \A p \in D!Pages : p \in D!PagesOf(b) <=> D!BlockOf(p) = b
  BY PagesOfBlock
<1>4. /\ st \in [D!Pages -> {"EMPTY", "VALID", "INVALID"}]
      /\ \A p \in D!Pages : st[p] = IF D!BlockOf(p) = b THEN "EMPTY" ELSE s.state[p]
  BY ONLY <1>2, <1>3 DEF D!With
<1>5. /\ da \in [D!Pages -> D!Lpns \cup {-1}]
      /\ \A p \in D!Pages : D!BlockOf(p) # b => da[p] = s.data[p]
  BY ONLY <1>2, <1>3 DEF D!With
<1>6. pv \in [D!Blocks -> 0 .. BlockSize] /\ fl \in Seq(D!Blocks)
  BY <1>2, ConfigFacts, AppendProperties
<1>10. er \in [D!Blocks -> 0 .. BlockErases] /\ wo \in BOOLEAN
  BY <1>2, ConfigFacts DEF D!Wear, D!IsWornOut
<1> HIDE DEF st, da, pv, fl, er, wo
<1>7. r \in States
  BY ONLY <1>1, <1>4, <1>5, <1>6, <1>10, s \in States DEF States
<1>8. /\ r.active_cost = s.active_cost
      /\ r.state = st /\ r.data = da /\ r.pages_valid = pv /\ r.free_list = fl
      /\ r.current_free = s.current_free /\ r.data_active = s.data_active
      /\ r.current_page = s.current_page /\ r.current_writing = s.current_writing
  BY ONLY <1>1, s \in States DEF States
<1>9. SameMaps(r, s) /\ SameCache(r, s) /\ SameCall(r, s)
  BY ONLY <1>1, s \in States DEF States, SameMaps, SameCache, SameCall
<1> QED
  BY ONLY <1>0, <1>4, <1>5, <1>7, <1>8, <1>9 DEF EmptiedFrom, pv, fl

LEMMA EraseCollectedFacts ==
  ASSUME NEW s, Good(s, D!NoneMoved, FALSE),
         NEW b \in D!Blocks, b \notin Free(s), ~IsCurrent(s, b),
         \A j \in D!Offsets : StateOf(s, b, j) = "INVALID"
  PROVE  Collected(D!EraseCollected(s, b), s, b)
<1>1. /\ s \in States /\ s.asserted = TRUE
      /\ Space(s, FALSE) /\ Maps(s, D!NoneMoved) /\ Ordered(s) /\ Counted(s)
  BY DEF Good, Sane
<1>2. PICK t : t = Emptied(s, b)
  BY ONLY TRUE
<1>3. /\ t \in States /\ t.active_cost = s.active_cost
      /\ \A p \in D!Pages :
           /\ t.state[p] = IF D!BlockOf(p) = b THEN "EMPTY" ELSE s.state[p]
           /\ D!BlockOf(p) # b => t.data[p] = s.data[p]
      /\ t.pages_valid = [s.pages_valid EXCEPT ![b] = 0]
      /\ t.free_list = Append(s.free_list, b)
      /\ t.current_free = s.current_free /\ t.data_active = s.data_active
      /\ t.current_page = s.current_page /\ t.current_writing = s.current_writing
      /\ SameMaps(t, s) /\ SameCache(t, s) /\ SameCall(t, s)
  <2>1. EmptiedFrom(t, s, b)
    BY ONLY <1>1, <1>2, b \in D!Blocks, EmptiedFields
  <2> QED
    BY ONLY <2>1 DEF EmptiedFrom
<1>4. PICK r : r = D!UpdateBlock(t, b)
  BY ONLY TRUE
<1>5. D!EraseCollected(s, b) = r
  BY <1>2, <1>4 DEF D!EraseCollected, Emptied
<1>6. /\ Free(t) = Free(s) \cup {b}
      /\ \A m, n \in DOMAIN t.free_list : t.free_list[m] = t.free_list[n] => m = n
      /\ \A c \in Listed(t) : c < t.current_free
  <2>1. /\ \A m, n \in DOMAIN s.free_list : s.free_list[m] = s.free_list[n] => m = n
        /\ \A c \in Listed(s) : c < s.current_free
    BY <1>1 DEF Space, Lists, Listed
  <2> QED
    BY ONLY <1>1, <1>3, <2>1, FreeAppended, b \in D!Blocks, b \notin Free(s)
<1>7. \A c : IsCurrent(t, c) <=> IsCurrent(s, c)
  BY ONLY <1>3 DEF IsCurrent
<1>8. Space(t, FALSE)
  <2>1. Lists(t)
    BY ONLY <1>1, <1>3, <1>6 DEF Space, Lists, Listed
  <2>2. ASSUME NEW c \in D!Blocks, NEW i \in D!Offsets
        PROVE  StateOf(t, c, i) = "EMPTY" <=> t.pages_valid[c] <= i
    <3>1. D!Page(c, i) \in D!Pages /\ D!BlockOf(D!Page(c, i)) = c
      BY Addresses
    <3>2. s.pages_valid \in [D!Blocks -> 0 .. BlockSize]
      BY <1>1 DEF States
    <3>3. CASE c = b
      <4>1. t.pages_valid[c] = 0 /\ 0 <= i
        BY <1>3, <3>2, <3>3, ConfigFacts DEF D!Offsets
      <4> QED
        BY <1>3, <3>1, <3>3, <4>1 DEF StateOf
    <3>4. CASE c # b
      BY <1>1, <1>3, <3>1, <3>2, <3>4 DEF StateOf, Space, Filled
    <3> QED
      BY <3>3, <3>4
  <2>3. ASSUME NEW c \in D!Blocks PROVE t.pages_valid[c] = Height(t, FALSE, c)
    <3>1. s.pages_valid \in [D!Blocks -> 0 .. BlockSize]
      BY <1>1 DEF States
    <3>2. CASE c = b
      <4>1. t.pages_valid[c] = 0
        BY <1>3, <3>1, <3>2
      <4>2. Height(t, FALSE, c) = 0
        BY <1>6, <1>7, <3>2 DEF Height
      <4> QED
        BY ONLY <4>1, <4>2
    <3>3. CASE c # b
      <4>1. t.pages_valid[c] = s.pages_valid[c]
        BY <1>3, <3>1, <3>3
      <4>2. Height(t, FALSE, c) = Height(s, FALSE, c)
        BY <1>3, <1>6, <1>7, <3>3 DEF Height
      <4>3. s.pages_valid[c] = Height(s, FALSE, c)
        BY <1>1 DEF Space
      <4> QED
        BY ONLY <4>1, <4>2, <4>3
    <3> QED
      BY <3>2, <3>3
  <2>4. \A c \in Free(t) : ~IsCurrent(t, c)
    BY <1>1, <1>6, <1>7 DEF Space
  <2> QED
    BY ONLY <2>1, <2>2, <2>3, <2>4 DEF Space, Filled
<1>9. Maps(t, D!NoneMoved)
  <2>1. \A p \in D!Pages : D!BlockOf(p) = b => s.state[p] = "INVALID"
    BY Addresses DEF StateOf
  <2>2. \A l : To(t, D!NoneMoved, l) = To(s, D!NoneMoved, l)
    BY ONLY <1>3 DEF To, SameMaps
  <2>3. \A l \in D!Lpns : To(s, D!NoneMoved, l) # -1 => To(s, D!NoneMoved, l) \in D!Pages
    BY <1>1 DEF States, Maps, To
  <2> HIDE DEF D!NoneMoved
  <2>4. ASSUME NEW l \in D!Lpns, To(t, D!NoneMoved, l) # -1
        PROVE  /\ t.state[To(t, D!NoneMoved, l)] = "VALID"
               /\ t.data[To(t, D!NoneMoved, l)] = l
    <3>1. PICK p : p = To(t, D!NoneMoved, l)
      BY ONLY TRUE
    <3>2. p \in D!Pages /\ s.state[p] = "VALID" /\ s.data[p] = l
      BY <1>1, <2>2, <2>3, <2>4, <3>1 DEF Maps
    <3>3. D!BlockOf(p) # b
      BY <2>1, <3>2
    <3> QED
      BY <1>3, <3>1, <3>2, <3>3
  <2>5. ASSUME NEW p \in D!Pages, t.state[p] = "VALID"
        PROVE  t.data[p] \in D!Lpns /\ To(t, D!NoneMoved, t.data[p]) = p
    <3>1. D!BlockOf(p) # b /\ s.state[p] = "VALID" /\ t.data[p] = s.data[p]
      BY <1>3, <2>5
    <3> QED
      BY <1>1, <2>2, <3>1 DEF Maps
  <2> QED
    BY <1>1, <1>3, <2>4, <2>5 DEF Maps, SameMaps
<1>10. /\ r \in States /\ Ordered(r)
       /\ SameFlash(r, t) /\ SameLists(r, t) /\ SameMaps(r, t) /\ SameCache(r, t)
       /\ SameCall(r, t)
  <2>1. ASSUME NEW c \in D!Blocks \ {b}, NEW i \in D!Offsets
        PROVE  t.state[D!Page(c, i)] = "INVALID" <=> s.state[D!Page(c, i)] = "INVALID"
    BY <1>3, Addresses
  <2>2. /\ Once(t.active_cost, NumberOfBlocks, D!Blocks)
        /\ RisesBut(t.active_cost, NumberOfBlocks, Costs(t), b)
    BY ONLY <1>1, <1>3, <2>1, OrderedBut
  <2> QED
    BY ONLY <1>3, <1>4, <2>2, UpdateBlockFacts, b \in D!Blocks
<1>11. Good(r, D!NoneMoved, FALSE)
  <2>1. Space(r, FALSE)
    BY ONLY <1>8, <1>10, SpaceSame
  <2>2. Maps(r, D!NoneMoved)
    BY ONLY <1>9, <1>10, MapsSame DEF SameFlash
  <2>3. Counted(t)
    BY ONLY <1>1, <1>3, CountedSame
  <2>4. Counted(r)
    BY ONLY <2>3, <1>10, CountedSame
  <2>5. r.asserted = TRUE
    BY ONLY <1>1, <1>3, <1>10 DEF SameCall
  <2> QED
    BY ONLY <1>10, <2>1, <2>2, <2>4, <2>5 DEF Good, Sane
<1>12. Collected(r, s, b)
  BY ONLY <1>3, <1>10, <1>11 DEF Collected, SameMaps, SameCall, SameLists
<1> QED
  BY ONLY <1>5, <1>12

(* A round of a collection: nothing, or one more block is free.            *)
Kept(r, s) ==
  /\ Good(r, D!NoneMoved, FALSE)
  /\ \A l \in D!Lpns : r.ppn[l] # -1 <=> s.ppn[l] # -1
  /\ r.requests = s.requests
Freed(r, s) ==
  /\ Kept(r, s) /\ r.free_list # << >>
  /\ s.free_list # << >> => Len(r.free_list) > 1
Passed(s, b) == ~D!IsCollectable(s, b) \/ b = s.current_writing

LEMMA RoundFacts ==
  ASSUME NEW fail, NEW gc, NEW s, Good(s, D!NoneMoved, FALSE), NEW b \in D!Blocks
  PROVE  \/ D!Round(gc, s, b) = s /\ Passed(s, b)
         \/ Void(fail, D!Round(gc, s, b))
         \/ Freed(D!Round(gc, s, b), s)
<1>1. CASE Passed(s, b)
  BY <1>1 DEF D!Round, Passed
<1>2. CASE ~Passed(s, b)
  <2> DEFINE t == D!Cleanup(gc, s, b)
             r == D!EraseCollected(t, b)
  <2>0. s \in States /\ s.asserted = TRUE /\ Space(s, FALSE)
    BY DEF Good, Sane
  <2>1. D!Round(gc, s, b) = r
    BY <1>2, <2>0 DEF D!Round, Passed
  <2>2. b \notin Free(s) /\ ~IsCurrent(s, b)
    <3>1. s.pages_valid[b] = BlockSize /\ BlockSize # 0 /\ b # s.current_writing
      BY <1>2, ConfigFacts DEF Passed, D!IsCollectable
    <3>2. ~IsCurrent(s, b)
      BY <2>0, <3>1 DEF IsCurrent, Space, Lists
    <3>3. s.pages_valid[b] = Height(s, FALSE, b)
      BY <2>0 DEF Space
    <3>4. b \in Free(s) => Height(s, FALSE, b) = 0
      BY <3>2 DEF Height
    <3> QED
      BY ONLY <3>1, <3>2, <3>3, <3>4
  <2> HIDE DEF t
  <2>3. Void(fail, t) \/ CleanedUp(t, s, b)
    BY <2>2, CleanupFacts DEF t
  <2>4. CASE Void(fail, t)
    <3>1. Marks(r, t)
      BY MarksErase
    <3> HIDE DEF r
    <3>2. Void(fail, r)
      BY ONLY <2>4, <3>1, VoidKept
    <3> QED
      BY ONLY <2>1, <3>2
  <2>5. CASE CleanedUp(t, s, b)
    <3>1. /\ Good(t, D!NoneMoved, FALSE)
          /\ b \notin Free(t) /\ ~IsCurrent(t, b)
          /\ \A j \in D!Offsets : StateOf(t, b, j) = "INVALID"
          /\ \A l \in D!Lpns : t.ppn[l] # -1 <=> s.ppn[l] # -1
          /\ t.requests = s.requests
          /\ s.free_list # << >> => t.free_list # << >>
      BY ONLY <2>5 DEF CleanedUp
    <3>2. Collected(r, t, b)
      BY ONLY <3>1, EraseCollectedFacts, b \in D!Blocks
    <3> HIDE DEF r
    <3>3. /\ Good(r, D!NoneMoved, FALSE) /\ r.ppn = t.ppn /\ r.requests = t.requests
          /\ r.free_list = Append(t.free_list, b)
      BY ONLY <3>2 DEF Collected
    <3>4. t.free_list \in Seq(D!Blocks)
      BY <3>1 DEF Good, Sane, States
    <3>5. r.free_list # << >> /\ (t.free_list # << >> => Len(r.free_list) > 1)
      <4>1. /\ r.free_list \in Seq(D!Blocks)
            /\ Len(r.free_list) = Len(t.free_list) + 1
        BY ONLY <3>3, <3>4, AppendProperties, b \in D!Blocks
      <4>2. PICK n : n = Len(t.free_list)
        BY ONLY TRUE
      <4>3. n \in Nat /\ (t.free_list # << >> => n # 0)
        BY ONLY <3>4, <4>2, LenProperties, EmptySeq
      <4>4. Len(<< >>) = 0
        OBVIOUS
      <4>5. n + 1 # 0 /\ (n # 0 => n + 1 > 1)
        BY ONLY <4>3
      <4> QED
        BY ONLY <4>1, <4>2, <4>3, <4>4, <4>5
    <3>6. Freed(r, s)
      BY ONLY <3>1, <3>3, <3>5 DEF Freed, Kept
    <3> QED
      BY ONLY <2>1, <3>6
  <2> QED
    BY ONLY <2>3, <2>4, <2>5
<1> QED
  BY <1>1, <1>2

(* A collection: in the end a second one would find nothing to do.         *)
Settled(s) ==
  \/ ~D!IsUsed(s) \/ Len(s.free_list) > 1
  \/ ~D!IsCollectable(s, D!Last(s.active_cost)) \/ ~D!IsCollectable(s, D!Costliest(s))

LEMMA LastFacts ==
  ASSUME NEW s \in States
  PROVE  /\ D!Last(s.active_cost) = s.active_cost[NumberOfBlocks]
         /\ D!Last(s.active_cost) \in D!Blocks /\ D!Costliest(s) \in D!Blocks
         /\ Ordered(s) => D!Costliest(s) # s.current_writing
<1>1. /\ s.active_cost \in [1 .. NumberOfBlocks -> D!Blocks]
      /\ NumberOfBlocks \in 1 .. NumberOfBlocks /\ NumberOfBlocks - 1 \in 1 .. NumberOfBlocks
      /\ NumberOfBlocks \in Nat /\ NumberOfBlocks # NumberOfBlocks - 1
  BY ConfigFacts DEF States
<1>2. Len(s.active_cost) = NumberOfBlocks
  BY ONLY <1>1
<1>3. D!Last(s.active_cost) = s.active_cost[NumberOfBlocks]
  BY <1>2 DEF D!Last
<1>4. Ordered(s) => s.active_cost[NumberOfBlocks] # s.active_cost[NumberOfBlocks - 1]
  BY <1>1 DEF Ordered
<1> QED
  BY ONLY <1>1, <1>3, <1>4 DEF D!Costliest

LEMMA KeptTwice ==
  ASSUME NEW r, NEW t, NEW s, Kept(r, t), Kept(t, s)
  PROVE  Kept(r, s)
  BY DEF Kept

LEMMA AgainFacts ==
  ASSUME NEW fail, NEW gc, NEW s, Good(s, D!NoneMoved, FALSE)
  PROVE  \/ D!Again(gc, s) = s /\ ~D!IsCollectable(s, D!Costliest(s))
         \/ Void(fail, D!Again(gc, s))
         \/ Freed(D!Again(gc, s), s)
<1>1. s \in States /\ Ordered(s)
  BY DEF Good, Sane
<1>2. D!Costliest(s) \in D!Blocks /\ D!Costliest(s) # s.current_writing
  BY <1>1, LastFacts
<1>3. PICK b : b = D!Costliest(s)
  BY ONLY TRUE
<1>4. D!Again(gc, s) = D!Round(gc, s, b)
  BY <1>3 DEF D!Again
<1>5. \/ D!Round(gc, s, b) = s /\ Passed(s, b)
      \/ Void(fail, D!Round(gc, s, b))
      \/ Freed(D!Round(gc, s, b), s)
  BY ONLY <1>2, <1>3, RoundFacts, Good(s, D!NoneMoved, FALSE)
<1> QED
  BY ONLY <1>2, <1>3, <1>4, <1>5 DEF Passed

LEMMA AgainKept ==
  ASSUME NEW fail, NEW gc, NEW s0, NEW s, Void(fail, s) \/ Kept(s, s0)
  PROVE  Void(fail, D!Again(gc, s)) \/ Kept(D!Again(gc, s), s0)
<1>1. CASE Void(fail, s)
  BY <1>1, RoundVoid DEF D!Again
<1>2. CASE Kept(s, s0)
  <2>1. PICK r : r = D!Again(gc, s)
    BY ONLY TRUE
  <2>2. Good(s, D!NoneMoved, FALSE)
    BY <1>2 DEF Kept
  <2>3. r = s \/ Void(fail, r) \/ Kept(r, s)
    BY ONLY <2>1, <2>2, AgainFacts DEF Freed
  <2>4. Void(fail, r) \/ Kept(r, s0)
    BY ONLY <1>2, <2>3, KeptTwice
  <2> QED
    BY ONLY <2>1, <2>4
<1> QED
  BY ONLY <1>1, <1>2, Void(fail, s) \/ Kept(s, s0)

LEMMA AgainVoid ==
  ASSUME NEW fail, NEW gc, NEW s, Void(fail, s)
  PROVE  Void(fail, D!Again(gc, s))
  BY RoundVoid DEF D!Again

LEMMA AgainTwice ==
  ASSUME NEW fail, NEW gc, NEW s0, NEW s, Void(fail, s) \/ Kept(s, s0),
         NEW r, r = D!Again(gc, D!Again(gc, s))
  PROVE  Void(fail, r) \/ (Kept(r, s0) /\ Settled(r))
<1>1. PICK t : t = D!Again(gc, s)
  BY ONLY TRUE
<1>2. r = D!Again(gc, t)
  BY <1>1
<1>3. Void(fail, t) \/ Kept(t, s0)
  BY ONLY <1>1, AgainKept, Void(fail, s) \/ Kept(s, s0)
<1>4. Void(fail, r) \/ Kept(r, s0)
  BY ONLY <1>2, <1>3, AgainKept
<1>5. CASE ~Void(fail, r)
  <2>1. ~Void(fail, t)
    BY ONLY <1>2, <1>5, AgainVoid
  <2>2. ~Void(fail, s)
    BY ONLY <1>1, <2>1, AgainVoid
  <2>3. Good(s, D!NoneMoved, FALSE) /\ Good(t, D!NoneMoved, FALSE)
    BY <1>3, <2>1, <2>2 DEF Kept
  <2>4. (t = s /\ ~D!IsCollectable(s, D!Costliest(s))) \/ Freed(t, s)
    BY ONLY <1>1, <2>1, <2>3, AgainFacts
  <2>5. (r = t /\ ~D!IsCollectable(t, D!Costliest(t))) \/ Freed(r, t)
    BY ONLY <1>2, <1>5, <2>3, AgainFacts
  <2>6. CASE r = t /\ ~D!IsCollectable(t, D!Costliest(t))
    BY <1>4, <1>5, <2>6 DEF Settled
  <2>7. CASE Freed(r, t) /\ Freed(t, s)
    BY <1>4, <1>5, <2>7 DEF Settled, Freed
  <2>8. CASE t = s /\ ~D!IsCollectable(s, D!Costliest(s))
    <3>1. r = t
      BY ONLY <1>1, <1>2, <2>8
    <3> QED
      BY <1>4, <1>5, <2>8, <3>1 DEF Settled
  <2> QED
    BY ONLY <2>4, <2>5, <2>6, <2>7, <2>8
<1> QED
  BY ONLY <1>5

LEMMA CollectFacts ==
  ASSUME NEW fail, NEW gc, NEW s, Good(s, D!NoneMoved, FALSE),
         NEW r, r = D!InsertByCost(gc, s)
  PROVE  Void(fail, r) \/ (Kept(r, s) /\ Settled(r))
<1>1. Kept(s, s)
  BY DEF Kept
<1>2. CASE ~D!IsUsed(s)
  BY <1>1, <1>2 DEF D!InsertByCost, Settled
<1>3. CASE ~D!IsCollectable(s, D!Last(s.active_cost))
  BY <1>1, <1>3 DEF D!InsertByCost, D!Collect, Settled
<1>4. CASE D!IsUsed(s) /\ D!IsCollectable(s, D!Last(s.active_cost))
  <2>1. PICK t : t = D!Round(gc, s, D!Last(s.active_cost))
    BY ONLY TRUE
  <2>2. PICK u : u = D!Again(gc, D!Again(gc, t))
    BY ONLY TRUE
  <2>3. r = D!Again(gc, D!Again(gc, u))
    BY <1>4, <2>1, <2>2 DEF D!InsertByCost, D!Collect
  <2>4. Void(fail, t) \/ Kept(t, s)
    <3>1. PICK b : b = D!Last(s.active_cost)
      BY ONLY TRUE
    <3>2. b \in D!Blocks
      BY <3>1, LastFacts DEF Good, Sane
    <3>3. t = s \/ Void(fail, t) \/ Freed(t, s)
      BY ONLY <2>1, <3>1, <3>2, RoundFacts, Good(s, D!NoneMoved, FALSE)
    <3> QED
      BY ONLY <1>1, <3>3 DEF Freed
  <2>5. Void(fail, u) \/ Kept(u, s)
    BY ONLY <2>2, <2>4, AgainTwice
  <2> QED
    BY ONLY <2>3, <2>5, AgainTwice
<1> QED
  BY ONLY <1>2, <1>3, <1>4

(* So a second collection, as get_page_block starts it, changes nothing.   *)
LEMMA SettledAgain ==
  ASSUME NEW gc, NEW s \in States, Ordered(s), Settled(s), Len(s.free_list) <= 1
  PROVE  D!InsertByCost(gc, D!OutOfBlocks(s)) = D!OutOfBlocks(s)
<1>1. PICK o : o = D!OutOfBlocks(s)
  BY ONLY TRUE
<1>2. /\ o.active_cost = s.active_cost /\ o.current_writing = s.current_writing
      /\ o.state = s.state /\ o.pages_valid = s.pages_valid
      /\ o.invalid_list = s.invalid_list /\ o.log_active = s.log_active
      /\ o.data_active = s.data_active /\ o.free_list = s.free_list
  BY <1>1 DEF D!OutOfBlocks, States
<1>3. D!IsUsed(o) <=> D!IsUsed(s)
  BY ONLY <1>2 DEF D!IsUsed
<1>4. \A b : D!IsCollectable(o, b) <=> D!IsCollectable(s, b)
  BY ONLY <1>2 DEF D!IsCollectable, D!InvalidCount
<1>5. D!Costliest(o) = D!Costliest(s)
  BY ONLY <1>2 DEF D!Costliest
<1>6. Len(s.free_list) \in Nat
  BY LenProperties DEF States
<1>7. CASE ~D!IsUsed(s)
  BY ONLY <1>1, <1>3, <1>7 DEF D!InsertByCost
<1>8. CASE ~D!IsCollectable(s, D!Last(s.active_cost))
  BY ONLY <1>1, <1>2, <1>4, <1>8 DEF D!InsertByCost, D!Collect
<1>9. CASE /\ ~D!IsCollectable(s, D!Costliest(s))
           /\ D!IsCollectable(s, D!Last(s.active_cost))
  <2>1. D!Last(s.active_cost) = s.current_writing
    BY ONLY <1>9 DEF D!Costliest
  <2>2. D!Round(gc, o, D!Last(o.active_cost)) = o
    BY ONLY <1>2, <2>1 DEF D!Round
  <2>3. D!Again(gc, o) = o
    BY ONLY <1>4, <1>5, <1>9 DEF D!Again, D!Round
  <2>4. D!Collect(gc, o) = o
    BY ONLY <2>2, <2>3 DEF D!Collect
  <2> QED
    BY ONLY <1>1, <2>4 DEF D!InsertByCost
<1> QED
  BY ONLY <1>6, <1>7, <1>8, <1>9, Settled(s), Len(s.free_list) <= 1 DEF Settled

-----------------------------------------------------------------------------
(* Room to spare.                                                          *)

(* The valid pages are of different lpns, so no more of them than lpns.    *)
LEMMA Packed ==
  ASSUME NEW s \in States, Maps(s, D!NoneMoved),
         NEW full \in SUBSET D!Blocks, IsFiniteSet(full), NEW T, IsFiniteSet(T),
         Cardinality(T) < Cardinality(full) * BlockSize,
         \A b \in full, i \in D!Offsets :
           StateOf(s, b, i) = "VALID" /\ s.data[D!Page(b, i)] \in T
  PROVE  FALSE
<1> DEFINE at(x) == D!Page(x[1], x[2])
           S == full \X D!Offsets
           f == [x \in S |-> s.data[at(x)]]
<1>1. ASSUME NEW x \in S
      PROVE  f[x] \in T /\ s.ppn[f[x]] = at(x)
  <2>1. x[1] \in full /\ x[2] \in D!Offsets
    BY ONLY TRUE
  <2>2. at(x) \in D!Pages /\ s.state[at(x)] = "VALID" /\ s.data[at(x)] \in T
    BY <2>1, Addresses DEF StateOf
  <2>3. s.data[at(x)] \in D!Lpns /\ To(s, D!NoneMoved, s.data[at(x)]) = at(x)
    BY ONLY <2>2, Maps(s, D!NoneMoved) DEF Maps
  <2>4. \A l \in D!Lpns : To(s, D!NoneMoved, l) = s.ppn[l]
    BY DEF To, D!NoneMoved
  <2> QED
    BY <2>2, <2>3, <2>4
<1>2. ASSUME NEW x \in S, NEW y \in S, f[x] = f[y] PROVE x = y
  <2>1. at(x) = at(y)
    BY ONLY <1>1, <1>2
  <2>2. /\ x = <<x[1], x[2]>> /\ x[1] \in D!Blocks /\ x[2] \in D!Offsets
        /\ y = <<y[1], y[2]>> /\ y[1] \in D!Blocks /\ y[2] \in D!Offsets
    BY ONLY full \in SUBSET D!Blocks
  <2>3. x[1] = y[1] /\ x[2] = y[2]
    <3>1. /\ D!BlockOf(at(x)) = x[1] /\ D!Offset(at(x)) = x[2]
          /\ D!BlockOf(at(y)) = y[1] /\ D!Offset(at(y)) = y[2]
      BY ONLY <2>2, Addresses
    <3> QED
      BY ONLY <2>1, <3>1
  <2> QED
    BY ONLY <2>2, <2>3
<1>3. IsFiniteSet(D!Offsets) /\ Cardinality(D!Offsets) = BlockSize
  <2>1. /\ IsFiniteSet(0 .. BlockSize - 1)
        /\ Cardinality(0 .. BlockSize - 1) = IF 0 > BlockSize - 1 THEN 0 ELSE BlockSize - 1 - 0 + 1
    BY ONLY ConfigFacts, FS_Interval
  <2>2. (IF 0 > BlockSize - 1 THEN 0 ELSE BlockSize - 1 - 0 + 1) = BlockSize
    BY ONLY ConfigFacts
  <2> QED
    BY ONLY <2>1, <2>2 DEF D!Offsets
<1>4. IsFiniteSet(S) /\ Cardinality(S) = Cardinality(full) * BlockSize
  BY ONLY <1>3, FS_Product, IsFiniteSet(full)
<1>5. Cardinality(T) < Cardinality(S)
  BY ONLY <1>4, Cardinality(T) < Cardinality(full) * BlockSize
<1>6. f \in [S -> T]
  BY ONLY <1>1
<1> HIDE DEF S, f
<1>7. \E x, y \in S : x # y /\ f[x] = f[y]
  BY ONLY <1>4, <1>5, <1>6, FS_PigeonHole, IsFiniteSet(T)
<1> QED
  BY ONLY <1>2, <1>7

LEMMA LpnsFinite ==
  /\ IsFiniteSet(D!Lpns) /\ Cardinality(D!Lpns) = DftlLogicalBlocks * BlockSize
  /\ DftlLogicalBlocks * BlockSize \in Nat
<1>1. PICK m : m = DftlLogicalBlocks * BlockSize
  BY ONLY TRUE
<1>2. m \in Nat
  BY <1>1, ConfigFacts
<1>3. D!Lpns = 0 .. m - 1
  BY <1>1 DEF D!Lpns
<1>4. IsFiniteSet(0 .. m - 1) /\ Cardinality(0 .. m - 1) = IF 0 > m - 1 THEN 0 ELSE m - 1 - 0 + 1
  BY ONLY <1>2, FS_Interval
<1>5. (IF 0 > m - 1 THEN 0 ELSE m - 1 - 0 + 1) = m
  BY ONLY <1>2
<1> QED
  BY ONLY <1>1, <1>2, <1>3, <1>4, <1>5

(* No more blocks than the host has can be full of valid pages; and if as  *)
(* many are, then all lpns are mapped there.                               *)
LEMMA Crowded ==
  ASSUME NEW s \in States, Maps(s, D!NoneMoved),
         NEW full \in SUBSET D!Blocks, IsFiniteSet(full),
         \A b \in full, i \in D!Offsets : StateOf(s, b, i) = "VALID"
  PROVE  /\ Cardinality(full) <= DftlLogicalBlocks
         /\ Cardinality(full) = DftlLogicalBlocks =>
              \A l \in D!Lpns : \E b \in full, i \in D!Offsets : s.ppn[l] = D!Page(b, i)
<1>1. PICK n : n = Cardinality(full)
  BY ONLY TRUE
<1>2. n \in Nat /\ DftlLogicalBlocks \in Nat /\ BlockSize \in Nat \ {0}
  BY ONLY <1>1, FS_CardinalityType, ConfigFacts, IsFiniteSet(full)
<1>3. ASSUME NEW b \in full, NEW i \in D!Offsets
      PROVE  /\ s.data[D!Page(b, i)] \in D!Lpns
             /\ s.ppn[s.data[D!Page(b, i)]] = D!Page(b, i)
  <2>1. PICK p : p = D!Page(b, i)
    BY ONLY TRUE
  <2>2. p \in D!Pages /\ s.state[p] = "VALID"
    BY <2>1, Addresses DEF StateOf
  <2>3. s.data[p] \in D!Lpns /\ To(s, D!NoneMoved, s.data[p]) = p
    BY ONLY <2>2, Maps(s, D!NoneMoved) DEF Maps
  <2>4. \A l \in D!Lpns : To(s, D!NoneMoved, l) = s.ppn[l]
    BY DEF To, D!NoneMoved
  <2> QED
    BY ONLY <2>1, <2>3, <2>4
<1>4. ASSUME ~(n <= DftlLogicalBlocks) PROVE FALSE
  <2>1. PICK e \in Nat \ {0} : n = DftlLogicalBlocks + e
    <3>1. n - DftlLogicalBlocks \in Nat \ {0} /\ n = DftlLogicalBlocks + (n - DftlLogicalBlocks)
      BY ONLY <1>2, <1>4
    <3> QED
      BY ONLY <3>1
  <2>2. n * BlockSize = DftlLogicalBlocks * BlockSize + e * BlockSize
    BY ONLY <1>2, <2>1
  <2>3. e * BlockSize > 0 /\ e * BlockSize \in Int /\ DftlLogicalBlocks * BlockSize \in Int
    BY ONLY <1>2, <2>1
  <2>4. DftlLogicalBlocks * BlockSize < n * BlockSize
    BY ONLY <2>2, <2>3
  <2>5. Cardinality(D!Lpns) < Cardinality(full) * BlockSize
    BY ONLY <1>1, <2>4, LpnsFinite
  <2>6. \A b \in full, i \in D!Offsets :
          StateOf(s, b, i) = "VALID" /\ s.data[D!Page(b, i)] \in D!Lpns
    BY ONLY <1>3, \A b \in full, i \in D!Offsets : StateOf(s, b, i) = "VALID"
  <2> QED
    BY ONLY <2>5, <2>6, LpnsFinite, Packed, s \in States, Maps(s, D!NoneMoved),
            full \in SUBSET D!Blocks, IsFiniteSet(full)
<1>5. ASSUME n = DftlLogicalBlocks, NEW l \in D!Lpns,
             \A b \in full, i \in D!Offsets : s.ppn[l] # D!Page(b, i)
      PROVE  FALSE
  <2>1. PICK T : T = D!Lpns \ {l}
    BY ONLY TRUE
  <2>2. IsFiniteSet(T) /\ Cardinality(T) = Cardinality(D!Lpns) - 1
    BY ONLY <2>1, LpnsFinite, FS_RemoveElement, l \in D!Lpns
  <2>3. Cardinality(T) < Cardinality(full) * BlockSize
    <3>1. PICK m : m = DftlLogicalBlocks * BlockSize
      BY ONLY TRUE
    <3>2. m \in Nat /\ Cardinality(T) = m - 1 /\ Cardinality(full) * BlockSize = m
      BY ONLY <1>1, <1>5, <2>2, <3>1, LpnsFinite
    <3> QED
      BY ONLY <3>2
  <2>4. \A b \in full, i \in D!Offsets :
          StateOf(s, b, i) = "VALID" /\ s.data[D!Page(b, i)] \in T
    BY ONLY <1>3, <1>5, <2>1, \A b \in full, i \in D!Offsets : StateOf(s, b, i) = "VALID"
  <2> QED
    BY ONLY <2>2, <2>3, <2>4, Packed, s \in States, Maps(s, D!NoneMoved),
            full \in SUBSET D!Blocks, IsFiniteSet(full)
<1> QED
  BY ONLY <1>1, <1>4, <1>5

(* With all blocks in use, or free, all but at most one of them have no    *)
(* invalid page when a collection finds nothing to collect.                *)
LEMMA SettledCosts ==
  ASSUME NEW s \in States, Ordered(s),
         ~D!IsCollectable(s, D!Last(s.active_cost)) \/ ~D!IsCollectable(s, D!Costliest(s)),
         \A b \in D!Blocks : D!InvalidCount(s, b) > 0 => s.pages_valid[b] = BlockSize
  PROVE  \E c \in D!Blocks : \A b \in D!Blocks : b # c => D!InvalidCount(s, b) = 0
<1> DEFINE q == s.active_cost
           n == NumberOfBlocks
<1>1. n \in Nat /\ n > 1 /\ n \in 1 .. n /\ n - 1 \in 1 .. n
  BY ConfigFacts
<1>2. \A k \in 1 .. n : q[k] \in D!Blocks
  BY DEF States
<1>3. \A b : D!InvalidCount(s, b) \in Nat
  BY CountTyped
<1>4. \A b \in D!Blocks : ~D!IsCollectable(s, b) => D!InvalidCount(s, b) = 0
  <2>1. ASSUME NEW b \in D!Blocks, ~D!IsCollectable(s, b) PROVE D!InvalidCount(s, b) = 0
    <3>1. ~(D!InvalidCount(s, b) > 0)
      BY <2>1 DEF D!IsCollectable
    <3> QED
      BY ONLY <1>3, <3>1
  <2> QED
    BY ONLY <2>1
<1>5. D!Last(s.active_cost) = q[n] /\ (D!Costliest(s) = q[n] \/ D!Costliest(s) = q[n - 1])
  BY LastFacts DEF D!Costliest
<1>6. D!InvalidCount(s, q[n]) = 0 \/ D!InvalidCount(s, q[n - 1]) = 0
  BY <1>1, <1>2, <1>4, <1>5
<1>7. ASSUME NEW k \in 1 .. n, k # n PROVE D!InvalidCount(s, q[k]) = 0
  <2>1. k < n /\ (k < n - 1 \/ k = n - 1) /\ n - 1 < n
    BY <1>1, <1>7
  <2>2. \A i, j \in 1 .. n : i < j => D!InvalidCount(s, q[i]) <= D!InvalidCount(s, q[j])
    BY DEF Ordered, Cost
  <2>3. D!InvalidCount(s, q[k]) <= D!InvalidCount(s, q[n])
    BY ONLY <1>1, <2>1, <2>2, k \in 1 .. n
  <2>4. k = n - 1 \/ D!InvalidCount(s, q[k]) <= D!InvalidCount(s, q[n - 1])
    BY ONLY <1>1, <2>1, <2>2, k \in 1 .. n
  <2> HIDE DEF q, n
  <2>5. CASE D!InvalidCount(s, q[n]) = 0
    BY ONLY <1>3, <2>3, <2>5
  <2>6. CASE D!InvalidCount(s, q[n - 1]) = 0
    BY ONLY <1>3, <2>4, <2>6
  <2> QED
    BY ONLY <1>6, <2>5, <2>6
<1>8. ASSUME NEW b \in D!Blocks, b # q[n] PROVE D!InvalidCount(s, b) = 0
  <2>1. PICK k \in 1 .. n : q[k] = b
    BY DEF Ordered
  <2> QED
    BY <1>7, <1>8, <2>1
<1> QED
  BY <1>1, <1>2, <1>8

LEMMA NoneInvalid ==
  ASSUME NEW s, NEW b, D!InvalidCount(s, b) = 0, NEW i \in D!Offsets
  PROVE  StateOf(s, b, i) # "INVALID"
<1> DEFINE T == {j \in D!Offsets : s.state[D!Page(b, j)] = "INVALID"}
<1>1. IsFiniteSet(D!Offsets)
  BY ConfigFacts, FS_Interval DEF D!Offsets
<1>2. IsFiniteSet(T)
  <2>1. T \in SUBSET D!Offsets
    OBVIOUS
  <2> HIDE DEF T
  <2> QED
    BY ONLY <1>1, <2>1, FS_Subset
<1>3. Cardinality(T) = 0
  BY CardinalitySame DEF D!InvalidCount
<1>4. T = {}
  <2> HIDE DEF T
  <2> QED
    BY ONLY <1>2, <1>3, FS_EmptySet
<1> QED
  BY <1>4 DEF StateOf

LEMMA BlocksFinite == IsFiniteSet(D!Blocks) /\ Cardinality(D!Blocks) = NumberOfBlocks
<1>1. /\ IsFiniteSet(0 .. NumberOfBlocks - 1)
      /\ Cardinality(0 .. NumberOfBlocks - 1)
           = IF 0 > NumberOfBlocks - 1 THEN 0 ELSE NumberOfBlocks - 1 - 0 + 1
  BY ONLY ConfigFacts, FS_Interval
<1>2. (IF 0 > NumberOfBlocks - 1 THEN 0 ELSE NumberOfBlocks - 1 - 0 + 1) = NumberOfBlocks
  BY ONLY ConfigFacts
<1> QED
  BY ONLY <1>1, <1>2 DEF D!Blocks

(* With fewer logical blocks than that, a block is free.                   *)
LEMMA RoomFacts ==
  ASSUME NEW s, Good(s, D!NoneMoved, FALSE), Settled(s), D!AtEnd(s),
         ~(s.current_free < NumberOfBlocks), Roomy
  PROVE  s.free_list # << >>
<1> SUFFICES ASSUME s.free_list = << >> PROVE FALSE
  OBVIOUS
<1>1. /\ s \in States /\ Space(s, FALSE) /\ Maps(s, D!NoneMoved) /\ Ordered(s)
  BY DEF Good, Sane
<1>2. /\ s.current_free = NumberOfBlocks /\ s.data_active \in Int
      /\ s.invalid_list = << >> /\ s.log_active = 0
      /\ NumberOfBlocks \in Nat /\ NumberOfBlocks > 1 /\ BlockSize \in Nat
  BY <1>1, ConfigFacts DEF States
<1>3. s.current_page # -1 /\ D!Offset(s.current_page) = BlockSize - 1
      /\ s.current_free <= s.data_active
  BY <1>1, <1>2 DEF Space, Lists, D!AtEnd
<1>4. D!IsUsed(s) /\ Len(s.free_list) = 0
  <2>1. Len(<< >>) = 0
    OBVIOUS
  <2>2. 10 * (0 + 0 + s.data_active - 0) > 9 * NumberOfBlocks
    BY ONLY <1>2, <1>3
  <2> QED
    BY <1>2, <2>1, <2>2 DEF D!IsUsed
<1>5. Free(s) = {}
  <2>1. Listed(s) = {}
    BY DEF Listed
  <2> QED
    BY <1>2, <2>1 DEF Free
<1>6. \A b \in D!Blocks : s.pages_valid[b] = BlockSize
  <2>1. ASSUME NEW b \in D!Blocks PROVE s.pages_valid[b] = BlockSize
    <3>1. s.pages_valid[b] = Height(s, FALSE, b)
      BY <1>1 DEF Space
    <3>2. CASE IsCurrent(s, b)
      <4>1. Height(s, FALSE, b) = BlockSize - 1 + 1
        BY <1>3, <3>2 DEF Height
      <4>2. BlockSize - 1 + 1 = BlockSize
        BY ONLY <1>2
      <4> QED
        BY ONLY <3>1, <4>1, <4>2
    <3>3. CASE ~IsCurrent(s, b)
      BY <1>5, <3>1, <3>3 DEF Height
    <3> QED
      BY ONLY <3>2, <3>3
  <2> QED
    BY ONLY <2>1
<1>7. ~D!IsCollectable(s, D!Last(s.active_cost)) \/ ~D!IsCollectable(s, D!Costliest(s))
  <2>1. ~(Len(s.free_list) > 1)
    BY ONLY <1>4
  <2> QED
    BY ONLY <1>4, <2>1, Settled(s) DEF Settled
<1>8. PICK c \in D!Blocks : \A b \in D!Blocks : b # c => D!InvalidCount(s, b) = 0
  BY ONLY <1>1, <1>6, <1>7, SettledCosts
<1>9. ASSUME NEW b \in D!Blocks \ {c}, NEW i \in D!Offsets
      PROVE  StateOf(s, b, i) = "VALID"
  <2>1. StateOf(s, b, i) # "INVALID"
    BY <1>8, NoneInvalid
  <2>2. StateOf(s, b, i) # "EMPTY"
    <3>1. s.pages_valid[b] = BlockSize /\ ~(BlockSize <= i)
      BY <1>6, ConfigFacts DEF D!Offsets
    <3> QED
      BY <1>1, <3>1 DEF Space, Filled
  <2> QED
    BY <1>1, <2>1, <2>2, Addresses DEF StateOf, States
<1>10. /\ IsFiniteSet(D!Blocks \ {c}) /\ Cardinality(D!Blocks \ {c}) = NumberOfBlocks - 1
  BY ONLY BlocksFinite, FS_RemoveElement, c \in D!Blocks
<1>11. PICK full : full = D!Blocks \ {c}
  BY ONLY TRUE
<1>12. Cardinality(full) <= DftlLogicalBlocks
  BY ONLY <1>1, <1>9, <1>10, <1>11, Crowded
<1> QED
  BY ONLY <1>2, <1>10, <1>11, <1>12, ConfigFacts, Roomy DEF Roomy

-----------------------------------------------------------------------------
(* get_free_data_page, in a write.                                         *)

GotPage(r, s) ==
  /\ Good(r, D!NoneMoved, TRUE) /\ r.current_page \in D!Pages
  /\ \A l \in D!Lpns : r.ppn[l] # -1 <=> s.ppn[l] # -1
  /\ r.requests = s.requests

LEMMA GotSame ==
  ASSUME NEW s, NEW r, Good(s, D!NoneMoved, FALSE),
         r \in States, Space(r, TRUE), r.current_page \in D!Pages,
         r.active_cost = s.active_cost,
         SameFlash(r, s), SameMaps(r, s), SameCache(r, s), SameCall(r, s)
  PROVE  GotPage(r, s)
<1>1. /\ s \in States /\ s.asserted = TRUE
      /\ Maps(s, D!NoneMoved) /\ Ordered(s) /\ Counted(s)
  BY DEF Good, Sane
<1>2. Maps(r, D!NoneMoved)
  BY <1>1, MapsSame DEF SameFlash
<1>3. Ordered(r)
  <2>1. \A p \in D!Pages : r.state[p] = "INVALID" <=> s.state[p] = "INVALID"
    BY DEF SameFlash
  <2> QED
    BY ONLY <1>1, <2>1, OrderedKept, r \in States, r.active_cost = s.active_cost
<1>4. Counted(r)
  BY <1>1, CountedSame
<1>5. r.asserted = TRUE /\ r.requests = s.requests /\ r.ppn = s.ppn
  BY <1>1 DEF SameCall, SameMaps
<1> QED
  BY <1>2, <1>3, <1>4, <1>5 DEF GotPage, Good, Sane

LEMMA GotKept ==
  ASSUME NEW r, NEW t, NEW s, GotPage(r, t), Kept(t, s)
  PROVE  GotPage(r, s)
  BY DEF GotPage, Kept

(* With no block left the assertion of get_page_block fails.               *)
LEMMA TakeNone ==
  ASSUME NEW s \in States, ~(s.current_free < NumberOfBlocks), s.free_list = << >>,
         NEW o, o = s \/ o = D!OutOfBlocks(s)
  PROVE  Failed(D!StartBlock(D!TakeBlock(o)))
<1>1. /\ {"nested", "asserted"} \subseteq DOMAIN o /\ o.nested = FALSE
      /\ o.current_free = s.current_free /\ o.free_list = << >>
  BY DEF D!OutOfBlocks, States
<1>2. PICK t : t = D!TakeFree(o)
  BY ONLY TRUE
<1>3. Failed(t)
  BY ONLY <1>1, <1>2 DEF D!TakeFree, Failed
<1>4. D!TakeBlock(o) = D!Took(t)
  BY ONLY <1>1, <1>2, ~(s.current_free < NumberOfBlocks) DEF D!TakeBlock
<1> QED
  BY ONLY <1>3, <1>4 DEF D!Took, D!StartBlock, Failed

LEMMA NextPageFacts ==
  ASSUME NEW s, Good(s, D!NoneMoved, FALSE), D!AtEnd(s) => Settled(s)
  PROVE  Void(~Roomy, D!NextPage(s)) \/ GotPage(D!NextPage(s), s)
<1> DEFINE r == D!NextPage(s)
<1>0. s \in States /\ Space(s, FALSE) /\ Ordered(s)
  BY DEF Good, Sane
<1>1. CASE ~D!AtEnd(s)
  <2>1. PICK x : x = D!NextInBlock(s)
    BY ONLY TRUE
  <2>2. /\ x \in States /\ Space(x, TRUE)
        /\ x.current_page \in D!Pages /\ x.active_cost = s.active_cost
        /\ SameFlash(x, s) /\ SameMaps(x, s) /\ SameCache(x, s) /\ SameCall(x, s)
    BY ONLY <1>0, <1>1, <2>1, NextInBlockFacts
  <2>3. GotPage(x, s)
    BY ONLY <2>2, GotSame, Good(s, D!NoneMoved, FALSE)
  <2>4. r = x
    BY <1>1, <2>1 DEF D!NextPage
  <2> QED
    BY ONLY <2>3, <2>4
<1>2. CASE D!AtEnd(s)
  <2> DEFINE gc == D!InsertEventsByCost
  <2> HIDE DEF gc
  <2>1. PICK o : o = IF D!RunsOut(s) THEN D!CollectFirst(D!OutOfBlocks(s)) ELSE s
    BY ONLY TRUE
  <2>2. PICK x : x = D!StartBlock(D!TakeBlock(o))
    BY ONLY TRUE
  <2>3. r = x
    BY <1>2, <2>1, <2>2 DEF D!NextPage, D!GetBlock
  <2>4. o = s \/ (o = D!OutOfBlocks(s) /\ ~(s.current_free < NumberOfBlocks))
    <3>1. CASE ~D!RunsOut(s)
      BY ONLY <2>1, <3>1
    <3>2. CASE D!RunsOut(s)
      <4>1. Len(s.free_list) <= 1 /\ s.current_free >= NumberOfBlocks
        BY ONLY <3>2 DEF D!RunsOut
      <4>2. D!InsertByCost(gc, D!OutOfBlocks(s)) = D!OutOfBlocks(s)
        BY ONLY <1>0, <1>2, <4>1, SettledAgain, D!AtEnd(s) => Settled(s)
      <4>3. D!CollectFirst(D!OutOfBlocks(s)) = D!InsertByCost(gc, D!OutOfBlocks(s))
        BY DEF D!CollectFirst, gc
      <4>4. s.current_free \in Nat /\ NumberOfBlocks \in Nat
        BY <1>0, ConfigFacts DEF States
      <4>5. ~(s.current_free < NumberOfBlocks)
        BY ONLY <4>1, <4>4
      <4> QED
        BY ONLY <2>1, <3>2, <4>2, <4>3, <4>5
    <3> QED
      BY ONLY <3>1, <3>2
  <2>5. CASE s.current_free < NumberOfBlocks \/ s.free_list # << >>
    <3>1. /\ x \in States /\ Space(x, TRUE)
          /\ x.current_page \in D!Pages /\ x.active_cost = s.active_cost
          /\ SameFlash(x, s) /\ SameMaps(x, s) /\ SameCache(x, s) /\ SameCall(x, s)
      BY ONLY <1>0, <1>2, <2>2, <2>4, <2>5, TakeFacts
    <3>2. GotPage(x, s)
      BY ONLY <3>1, GotSame, Good(s, D!NoneMoved, FALSE)
    <3> QED
      BY ONLY <2>3, <3>2
  <2>6. CASE ~(s.current_free < NumberOfBlocks) /\ s.free_list = << >>
    <3>1. ~Roomy
      BY ONLY <1>2, <2>6, RoomFacts, Good(s, D!NoneMoved, FALSE), D!AtEnd(s) => Settled(s)
    <3>2. Failed(x)
      <4>1. o = s \/ o = D!OutOfBlocks(s)
        BY ONLY <2>4
      <4> QED
        BY ONLY <1>0, <2>2, <2>6, <4>1, TakeNone
    <3> QED
      BY ONLY <2>3, <3>1, <3>2 DEF Void
  <2> QED
    BY ONLY <2>5, <2>6
<1> QED
  BY ONLY <1>1, <1>2

LEMMA GetFreeDataPageFacts ==
  ASSUME NEW s, Good(s, D!NoneMoved, FALSE)
  PROVE  Void(~Roomy, D!GetFreeDataPage(s)) \/ GotPage(D!GetFreeDataPage(s), s)
<1> DEFINE gc == D!InsertEventsByCost
<1> HIDE DEF gc
<1>1. PICK t : t = IF D!AtEnd(s) THEN D!CollectFirst(s) ELSE s
  BY ONLY TRUE
<1>2. D!GetFreeDataPage(s) = D!NextPage(t)
  BY <1>1 DEF D!GetFreeDataPage
<1>3. Void(~Roomy, t) \/ (Kept(t, s) /\ (D!AtEnd(t) => Settled(t)))
  <2>1. CASE ~D!AtEnd(s)
    BY <1>1, <2>1 DEF Kept
  <2>2. CASE D!AtEnd(s)
    <3>1. t = D!InsertByCost(gc, s)
      BY <1>1, <2>2 DEF D!CollectFirst, gc
    <3>2. Void(~Roomy, t) \/ (Kept(t, s) /\ Settled(t))
      BY ONLY <3>1, CollectFacts, Good(s, D!NoneMoved, FALSE)
    <3> QED
      BY ONLY <3>2
  <2> QED
    BY ONLY <2>1, <2>2
<1>4. CASE Void(~Roomy, t)
  <2>1. Void(~Roomy, D!NextPage(t))
    BY ONLY <1>4, GetFreeDataPageVoid
  <2> QED
    BY ONLY <1>2, <2>1
<1>5. CASE Kept(t, s) /\ (D!AtEnd(t) => Settled(t))
  <2>1. Good(t, D!NoneMoved, FALSE)
    BY ONLY <1>5 DEF Kept
  <2>2. Void(~Roomy, D!NextPage(t)) \/ GotPage(D!NextPage(t), t)
    BY ONLY <1>5, <2>1, NextPageFacts
  <2>3. GotPage(D!NextPage(t), t) => GotPage(D!NextPage(t), s)
    BY ONLY <1>5, GotKept
  <2> QED
    BY ONLY <1>2, <2>2, <2>3
<1> QED
  BY ONLY <1>3, <1>4, <1>5

-----------------------------------------------------------------------------
(* The requests. A write of l to page p, before the old page is invalid.   *)

Written(r, s, l, p) ==
  /\ r \in States /\ r.asserted = TRUE /\ r.requests = s.requests
  /\ r.active_cost = s.active_cost
  /\ r.state = [s.state EXCEPT ![p] = "VALID"]
  /\ \A q \in D!Pages : r.data[q] = IF q = p THEN l ELSE IF s.data[q] = l THEN -1 ELSE s.data[q]
  /\ r.pages_valid = [s.pages_valid EXCEPT ![D!BlockOf(p)] = @ + 1]
  /\ r.ppn = [s.ppn EXCEPT ![l] = p]
  /\ r.reverse_trans_map = [s.reverse_trans_map EXCEPT ![p] = l]
  /\ SameLists(r, s) /\ SameCache(r, s)

LEMMA WrittenFields ==
  ASSUME NEW s, Good(s, D!NoneMoved, TRUE), NEW p \in D!Pages, p = s.current_page,
         NEW l \in D!Lpns
  PROVE  Written(D!WritePage(D!UpdateTranslationMap(s, l, p), p, l), s, l, p)
<1> DEFINE b == D!BlockOf(p)
           st == [s.state EXCEPT ![p] = "VALID"]
           old == {q \in D!Pages : s.data[q] = l}
           da == [D!With(s.data, old, -1) EXCEPT ![p] = l]
           pv == [s.pages_valid EXCEPT ![b] = @ + 1]
           pn == [s.ppn EXCEPT ![l] = p]
           rv == [s.reverse_trans_map EXCEPT ![p] = l]
           r == D!WritePage(D!UpdateTranslationMap(s, l, p), p, l)
<1>1. s \in States /\ s.asserted = TRUE /\ Space(s, TRUE)
  BY DEF Good, Sane
<1>2. s.state[p] = "EMPTY" /\ s.pages_valid[b] = D!Offset(p)
  BY <1>1, CurrentEmpty
<1>3. b \in D!Blocks /\ D!Offset(p) + 1 \in 0 .. BlockSize /\ p # -1
  BY Addresses, LpnFacts, ConfigFacts DEF D!Offsets
<1>4. PICK u : u = [s EXCEPT !.ppn = pn, !.reverse_trans_map = rv]
  BY ONLY TRUE
<1>5. D!UpdateTranslationMap(s, l, p) = u
  BY <1>1, <1>3, <1>4 DEF D!UpdateTranslationMap, States
<1>6. /\ u.state = s.state /\ u.data = s.data /\ u.pages_valid = s.pages_valid
      /\ u.asserted = s.asserted
  BY ONLY <1>1, <1>4 DEF States
<1>7. PICK v : v = [u EXCEPT !.asserted = (s.asserted /\ s.state[p] = "EMPTY"),
                             !.state = st, !.data = da]
  BY ONLY TRUE
<1>8. D!Program(u, p, l) = v
  <2>1. u \in States
    <3>1. /\ pn \in [D!Lpns -> D!Pages \cup {-1}]
          /\ rv \in [D!Pages -> D!Lpns \cup {-1}]
      BY <1>1 DEF States
    <3> HIDE DEF pn, rv
    <3> QED
      BY ONLY <1>1, <1>4, <3>1 DEF States
  <2>2. D!Program(u, p, l)
          = [u EXCEPT !.asserted = (u.asserted /\ u.state[p] = "EMPTY"),
                      !.state = [u.state EXCEPT ![p] = "VALID"],
                      !.data = [D!With(u.data, {q \in D!Pages : u.data[q] = l}, -1)
                                  EXCEPT ![p] = l]]
    BY ONLY <2>1 DEF D!Program, D!Junk, States
  <2>3. /\ st = [u.state EXCEPT ![p] = "VALID"]
        /\ da = [D!With(u.data, {q \in D!Pages : u.data[q] = l}, -1) EXCEPT ![p] = l]
        /\ (s.asserted /\ s.state[p] = "EMPTY") = (u.asserted /\ u.state[p] = "EMPTY")
    BY ONLY <1>6, Zenon
  <2> HIDE DEF st, da
  <2> QED
    BY ONLY <1>7, <2>2, <2>3
<1>9. v = [s EXCEPT !.ppn = pn, !.reverse_trans_map = rv,
                    !.asserted = (s.asserted /\ s.state[p] = "EMPTY"),
                    !.state = st, !.data = da]
  BY ONLY <1>1, <1>4, <1>7 DEF States
<1>10. v.pages_valid = s.pages_valid
  BY ONLY <1>1, <1>9 DEF States
<1>11. r = [v EXCEPT !.pages_valid = pv]
  BY <1>5, <1>8, <1>10 DEF D!WritePage
<1>12. (s.asserted /\ s.state[p] = "EMPTY") = TRUE
  BY <1>1, <1>2
<1>13. r = [s EXCEPT !.ppn = pn, !.reverse_trans_map = rv, !.asserted = TRUE,
                     !.state = st, !.data = da, !.pages_valid = pv]
  <2> HIDE DEF pn, rv, st, da, pv, r
  <2> QED
    BY ONLY <1>1, <1>9, <1>11, <1>12 DEF States
<1>14. /\ pn \in [D!Lpns -> D!Pages \cup {-1}]
       /\ rv \in [D!Pages -> D!Lpns \cup {-1}]
       /\ st \in [D!Pages -> {"EMPTY", "VALID", "INVALID"}]
  BY <1>1 DEF States
<1>15. pv \in [D!Blocks -> 0 .. BlockSize]
  BY <1>1, <1>2, <1>3 DEF States
<1>16. /\ da \in [D!Pages -> D!Lpns \cup {-1}]
       /\ \A q \in D!Pages : da[q] = IF q = p THEN l ELSE IF s.data[q] = l THEN -1 ELSE s.data[q]
  <2>1. s.data \in [D!Pages -> D!Lpns \cup {-1}]
    BY <1>1 DEF States
  <2> QED
    BY ONLY <2>1, p \in D!Pages, l \in D!Lpns DEF D!With
<1> HIDE DEF pn, rv, st, da, pv, r
<1>17. r \in States
  BY ONLY <1>1, <1>13, <1>14, <1>15, <1>16 DEF States
<1>18. /\ r.asserted = TRUE /\ r.requests = s.requests /\ r.active_cost = s.active_cost
       /\ r.state = st /\ r.data = da /\ r.pages_valid = pv /\ r.ppn = pn
       /\ r.reverse_trans_map = rv
  BY ONLY <1>1, <1>13 DEF States
<1>19. SameLists(r, s) /\ SameCache(r, s)
  BY ONLY <1>1, <1>13 DEF States, SameLists, SameCache
<1> QED
  BY ONLY <1>16, <1>17, <1>18, <1>19 DEF Written, pn, rv, st, pv, r

(* Of the pages of l, the new one is valid, and it is the only one.        *)
Rewritten(r, s, l, p) ==
  /\ \A q \in D!Pages : r.state[q] = IF q = p THEN "VALID"
                                     ELSE IF q = s.ppn[l] THEN "INVALID" ELSE s.state[q]
  /\ \A q \in D!Pages : r.data[q] = IF q = p THEN l ELSE IF s.data[q] = l THEN -1 ELSE s.data[q]
  /\ r.ppn = [s.ppn EXCEPT ![l] = p]
  /\ r.reverse_trans_map = [s.reverse_trans_map EXCEPT ![p] = l]

LEMMA MapsRewritten ==
  ASSUME NEW s \in States, Maps(s, D!NoneMoved), NEW l \in D!Lpns, NEW p \in D!Pages,
         s.state[p] = "EMPTY", NEW r, Rewritten(r, s, l, p)
  PROVE  Maps(r, D!NoneMoved)
<1>1. /\ D!NoneMoved \in [D!Lpns \cup {-1} -> D!Pages \cup {-1}]
      /\ D!NoneMoved[-1] = -1 /\ \A k \in D!Lpns : D!NoneMoved[k] = -1
  BY DEF D!NoneMoved, D!Unset
<1>2. \A k \in D!Lpns : To(s, D!NoneMoved, k) = s.ppn[k] /\ To(r, D!NoneMoved, k) = r.ppn[k]
  BY ONLY <1>1 DEF To
<1>3. /\ \A k \in D!Lpns : s.ppn[k] # -1 =>
           /\ s.ppn[k] \in D!Pages /\ s.state[s.ppn[k]] = "VALID" /\ s.data[s.ppn[k]] = k
           /\ s.reverse_trans_map[s.ppn[k]] = k
      /\ \A q \in D!Pages : s.state[q] = "VALID" => s.data[q] \in D!Lpns /\ s.ppn[s.data[q]] = q
  BY <1>1, <1>2 DEF Maps, States
<1>4. /\ \A q \in D!Pages : r.state[q] = IF q = p THEN "VALID"
                                         ELSE IF q = s.ppn[l] THEN "INVALID" ELSE s.state[q]
      /\ \A q \in D!Pages : r.data[q] = IF q = p THEN l
                                        ELSE IF s.data[q] = l THEN -1 ELSE s.data[q]
      /\ \A k \in D!Lpns : r.ppn[k] = IF k = l THEN p ELSE s.ppn[k]
      /\ \A q \in D!Pages : r.reverse_trans_map[q] = IF q = p THEN l ELSE s.reverse_trans_map[q]
  BY DEF Rewritten, States
<1>5. p # -1 /\ l # -1
  BY LpnFacts
<1>6. ASSUME NEW k \in D!Lpns, r.ppn[k] # -1
      PROVE  /\ r.state[r.ppn[k]] = "VALID" /\ r.data[r.ppn[k]] = k
             /\ r.reverse_trans_map[r.ppn[k]] = k
  <2>1. CASE k = l
    BY ONLY <1>4, <2>1, p \in D!Pages, l \in D!Lpns
  <2>2. CASE k # l
    <3>1. PICK q : q = s.ppn[k]
      BY ONLY TRUE
    <3>2. r.ppn[k] = q /\ q # -1
      BY <1>4, <1>6, <2>2, <3>1
    <3>3. /\ q \in D!Pages /\ s.state[q] = "VALID" /\ s.data[q] = k
          /\ s.reverse_trans_map[q] = k
      BY ONLY <1>3, <3>1, <3>2, k \in D!Lpns
    <3>4. q # p /\ q # s.ppn[l]
      BY ONLY <1>3, <2>2, <3>2, <3>3, s.state[p] = "EMPTY", l \in D!Lpns
    <3> QED
      BY ONLY <1>4, <2>2, <3>2, <3>3, <3>4
  <2> QED
    BY ONLY <2>1, <2>2
<1>7. ASSUME NEW q \in D!Pages, r.state[q] = "VALID"
      PROVE  r.data[q] \in D!Lpns /\ r.ppn[r.data[q]] = q
  <2>1. CASE q = p
    BY ONLY <1>4, <2>1, p \in D!Pages, l \in D!Lpns
  <2>2. CASE q # p
    <3>1. q # s.ppn[l] /\ s.state[q] = "VALID"
      BY <1>4, <1>7, <2>2
    <3>2. s.data[q] \in D!Lpns /\ s.ppn[s.data[q]] = q /\ s.data[q] # l
      BY <1>3, <3>1
    <3> QED
      BY <1>4, <2>2, <3>2
  <2> QED
    BY ONLY <2>1, <2>2
<1>8. ASSUME NEW k \in D!Lpns, To(r, D!NoneMoved, k) # -1
      PROVE  r.state[To(r, D!NoneMoved, k)] = "VALID" /\ r.data[To(r, D!NoneMoved, k)] = k
  BY <1>2, <1>6, <1>8
<1>9. ASSUME NEW q \in D!Pages, r.state[q] = "VALID"
      PROVE  r.data[q] \in D!Lpns /\ To(r, D!NoneMoved, r.data[q]) = q
  BY <1>2, <1>7, <1>9
<1>10. ASSUME NEW k \in D!Lpns, r.ppn[k] # -1 PROVE r.reverse_trans_map[r.ppn[k]] = k
  BY ONLY <1>6, <1>10
<1> QED
  BY ONLY <1>1, <1>8, <1>9, <1>10 DEF Maps

Stored(r, s, l) ==
  /\ Good(r, D!NoneMoved, FALSE) /\ r.state[s.current_page] = "VALID"
  /\ \A k \in D!Lpns : r.ppn[k] # -1 <=> (k = l \/ s.ppn[k] # -1)
  /\ r.requests = s.requests

LEMMA StoreFacts ==
  ASSUME NEW s, Good(s, D!NoneMoved, TRUE), s.current_page \in D!Pages, NEW l \in D!Lpns
  PROVE  Stored(D!StoreNext(s, l), s, l)
<1>1. /\ s \in States /\ Space(s, TRUE) /\ Maps(s, D!NoneMoved) /\ Ordered(s) /\ Counted(s)
      /\ s.requests \in Nat
  BY DEF Good, Sane, States
<1>2. PICK p : p = s.current_page
  BY ONLY TRUE
<1>3. p \in D!Pages /\ p # -1
  BY <1>2, LpnFacts
<1>4. s.state[p] = "EMPTY"
  BY <1>1, <1>2, CurrentEmpty
<1>5. PICK w : w = D!WritePage(D!UpdateTranslationMap(s, l, p), p, l)
  BY ONLY TRUE
<1>6. Written(w, s, l, p)
  BY ONLY <1>2, <1>3, <1>5, WrittenFields, l \in D!Lpns, Good(s, D!NoneMoved, TRUE)
<1>7. /\ w \in States /\ w.asserted = TRUE /\ w.requests = s.requests
      /\ w.active_cost = s.active_cost
      /\ w.state = [s.state EXCEPT ![p] = "VALID"]
      /\ \A q \in D!Pages : w.data[q] = IF q = p THEN l
                                        ELSE IF s.data[q] = l THEN -1 ELSE s.data[q]
      /\ w.pages_valid = [s.pages_valid EXCEPT ![D!BlockOf(p)] = @ + 1]
      /\ w.ppn = [s.ppn EXCEPT ![l] = p]
      /\ w.reverse_trans_map = [s.reverse_trans_map EXCEPT ![p] = l]
      /\ SameLists(w, s) /\ SameCache(w, s)
  BY ONLY <1>6 DEF Written
<1>8. PICK old : old = s.ppn[l]
  BY ONLY TRUE
<1>9. PICK r : r = D!Replaced(w, old)
  BY ONLY TRUE
<1>10. D!StoreNext(s, l) = r
  BY <1>2, <1>5, <1>8, <1>9 DEF D!StoreNext, D!Store
<1>11. \A q \in D!Pages : w.state[q] = IF q = p THEN "VALID" ELSE s.state[q]
  BY <1>1, <1>3, <1>7 DEF States
<1>12. old # -1 => old \in D!Pages /\ s.state[old] = "VALID" /\ old # p
  <2>1. old # -1 => old \in D!Pages
    BY <1>1, <1>8 DEF States
  <2>2. To(s, D!NoneMoved, l) = old
    BY <1>8 DEF To, D!NoneMoved
  <2>3. old # -1 => s.state[old] = "VALID"
    BY <1>1, <2>2 DEF Maps
  <2> QED
    BY ONLY <1>4, <2>1, <2>3
<1>13. /\ r \in States /\ Ordered(r)
       /\ \A q \in D!Pages : r.state[q] = IF q = p THEN "VALID"
                                          ELSE IF q = old THEN "INVALID" ELSE s.state[q]
       /\ r.data = w.data /\ r.pages_valid = w.pages_valid
       /\ SameLists(r, w) /\ SameMaps(r, w) /\ SameCache(r, w) /\ SameCall(r, w)
  <2>1. CASE old = -1
    <3>1. r = w
      BY ONLY <1>9, <2>1 DEF D!Replaced
    <3>2. \A q \in D!Pages : w.state[q] = "INVALID" <=> s.state[q] = "INVALID"
      BY ONLY <1>4, <1>11
    <3>3. Ordered(w)
      BY ONLY <1>1, <1>7, <3>2, OrderedKept
    <3>4. \A q \in D!Pages : q # old
      BY <2>1, LpnFacts
    <3> QED
      BY ONLY <1>7, <1>11, <3>1, <3>3, <3>4 DEF SameLists, SameMaps, SameCache, SameCall
  <2>2. CASE old # -1
    <3>1. r = D!InvalidateAt(w, old)
      BY ONLY <1>9, <2>2 DEF D!Replaced
    <3>2. \A q \in D!Pages : q # old => (w.state[q] = "INVALID" <=> s.state[q] = "INVALID")
      BY ONLY <1>4, <1>11
    <3>3. old \in D!Pages /\ old # p
      BY ONLY <1>12, <2>2
    <3>4. /\ r \in States /\ Ordered(r)
          /\ r.state = [w.state EXCEPT ![old] = "INVALID"]
          /\ r.data = w.data /\ r.pages_valid = w.pages_valid
          /\ SameLists(r, w) /\ SameMaps(r, w) /\ SameCache(r, w) /\ SameCall(r, w)
      <4>1. w \in States /\ w.active_cost = s.active_cost
        BY ONLY <1>7
      <4>2. s \in States /\ Ordered(s)
        BY ONLY <1>1
      <4> QED
        BY ONLY <3>1, <3>2, <3>3, <4>1, <4>2, InvalidateAtFacts
    <3>5. \A q \in D!Pages : r.state[q] = IF q = p THEN "VALID"
                                          ELSE IF q = old THEN "INVALID" ELSE s.state[q]
      <4>1. w.state \in [D!Pages -> {"EMPTY", "VALID", "INVALID"}]
        BY <1>7 DEF States
      <4> QED
        BY ONLY <1>11, <3>3, <3>4, <4>1
    <3> QED
      BY ONLY <3>4, <3>5
  <2> QED
    BY ONLY <2>1, <2>2
<1>14. Space(r, FALSE)
  <2>1. \A q \in D!Pages : r.state[q] = "EMPTY" <=> (s.state[q] = "EMPTY" /\ q # p)
    <3>1. \A q \in D!Pages : q = old => s.state[q] = "VALID"
      BY <1>12, LpnFacts
    <3> QED
      BY ONLY <1>13, <3>1
  <2>2. SameLists(r, s)
    BY ONLY <1>7, <1>13 DEF SameLists
  <2>3. r.pages_valid = [s.pages_valid EXCEPT ![D!BlockOf(s.current_page)] = @ + 1]
    BY ONLY <1>2, <1>7, <1>13
  <2> QED
    BY ONLY <1>1, <1>2, <2>1, <2>2, <2>3, SpacePut, s.current_page \in D!Pages
<1>15. Rewritten(r, s, l, p)
  BY ONLY <1>7, <1>8, <1>13 DEF Rewritten, SameMaps
<1>16. Maps(r, D!NoneMoved)
  BY ONLY <1>1, <1>3, <1>4, <1>15, MapsRewritten, l \in D!Lpns
<1>17. Counted(r)
  <2>1. SameCache(r, s)
    BY ONLY <1>7, <1>13 DEF SameCache
  <2> QED
    BY ONLY <1>1, <2>1, CountedSame
<1>18. r.asserted = TRUE /\ r.requests = s.requests
  BY ONLY <1>7, <1>13 DEF SameCall
<1>19. \A k \in D!Lpns : r.ppn[k] # -1 <=> (k = l \/ s.ppn[k] # -1)
  <2>1. r.ppn = [s.ppn EXCEPT ![l] = p]
    BY ONLY <1>7, <1>13 DEF SameMaps
  <2>2. s.ppn \in [D!Lpns -> D!Pages \cup {-1}]
    BY <1>1 DEF States
  <2>3. \A k \in D!Lpns : r.ppn[k] = IF k = l THEN p ELSE s.ppn[k]
    BY ONLY <2>1, <2>2
  <2> QED
    BY ONLY <1>3, <2>3
<1>20. r.state[s.current_page] = "VALID"
  BY ONLY <1>2, <1>3, <1>13
<1>21. Good(r, D!NoneMoved, FALSE)
  BY ONLY <1>13, <1>14, <1>16, <1>17, <1>18 DEF Good, Sane
<1> QED
  BY ONLY <1>10, <1>18, <1>19, <1>20, <1>21 DEF Stored

(* resolve_mapping: there are always as many entries as are to be evicted. *)
Mapped(r, s) ==
  /\ Good(r, D!NoneMoved, FALSE)
  /\ r.ppn = s.ppn /\ r.requests = s.requests + 1

LEMMA CachedFinite ==
  ASSUME NEW s \in States, NEW T \in SUBSET D!Lpns
  PROVE  IsFiniteSet(T) /\ Cardinality(T) \in Nat
<1>1. IsFiniteSet(D!Lpns)
  BY ConfigFacts, FS_Interval DEF D!Lpns
<1>2. IsFiniteSet(T)
  BY ONLY <1>1, FS_Subset, T \in SUBSET D!Lpns
<1> QED
  BY ONLY <1>2, FS_CardinalityType

LEMMA EvictedCount ==
  ASSUME NEW s \in States, Counted(s), NEW out \in D!Evictable(s)
  PROVE  /\ out \in SUBSET s.cached /\ out \in SUBSET D!Lpns
         /\ Cardinality(out) = D!Excess(s)
<1>1. s.cached \in SUBSET D!Lpns /\ s.cmt \in Int
  BY DEF States
<1>2. Cardinality(s.cached) \in Nat
  BY ONLY <1>1, CachedFinite, s \in States
<1>3. s.cmt <= Cardinality(s.cached)
  BY DEF Counted
<1>4. D!Excess(s) = IF s.cmt < CmtLimit THEN 0 ELSE s.cmt - CmtLimit + 1
  BY DEF D!Excess
<1>5. D!Excess(s) <= Cardinality(s.cached)
  <2>1. CmtLimit \in Nat \ {0}
    BY ConfigFacts
  <2>2. PICK c : c = Cardinality(s.cached)
    BY ONLY TRUE
  <2>3. (IF s.cmt < CmtLimit THEN 0 ELSE s.cmt - CmtLimit + 1) <= c
    BY ONLY <1>1, <1>2, <1>3, <2>1, <2>2
  <2> QED
    BY ONLY <1>4, <2>2, <2>3
<1>6. D!Evictable(s) = D!kSubset(D!Excess(s), s.cached)
  BY <1>5, CardinalitySame DEF D!Evictable
<1>7. out \in SUBSET s.cached /\ D!Cardinality(out) = D!Excess(s)
  BY <1>6 DEF D!kSubset
<1> QED
  BY <1>1, <1>7, CardinalitySame

LEMMA ResolvedCount ==
  ASSUME NEW C \in SUBSET D!Lpns, NEW out \in SUBSET C, NEW l \in D!Lpns
  PROVE  Cardinality((C \ out) \cup (IF l \in C THEN {} ELSE {l}))
           = Cardinality(C) - Cardinality(out) + IF l \in C THEN 0 ELSE 1
<1>1. IsFiniteSet(C) /\ IsFiniteSet(out) /\ IsFiniteSet(C \ out)
  <2>1. IsFiniteSet(D!Lpns)
    BY ConfigFacts, FS_Interval DEF D!Lpns
  <2>2. IsFiniteSet(C)
    BY ONLY <2>1, FS_Subset, C \in SUBSET D!Lpns
  <2>3. C \ out \in SUBSET C
    OBVIOUS
  <2> QED
    BY ONLY <2>2, <2>3, FS_Subset, out \in SUBSET C
<1>2. Cardinality(C \ out) = Cardinality(C) - Cardinality(out)
  <2>1. Cardinality(C \ out) = Cardinality(C) - Cardinality(C \cap out)
    BY ONLY <1>1, FS_Difference
  <2>2. C \cap out = out
    OBVIOUS
  <2> QED
    BY ONLY <2>1, <2>2, Zenon
<1>3. CASE l \in C
  <2>1. (C \ out) \cup (IF l \in C THEN {} ELSE {l}) = C \ out
    BY <1>3
  <2>2. Cardinality(C) \in Nat /\ Cardinality(out) \in Nat
    BY ONLY <1>1, FS_CardinalityType
  <2>3. Cardinality(C) - Cardinality(out) + 0 = Cardinality(C) - Cardinality(out)
    BY ONLY <2>2
  <2> QED
    BY ONLY <1>2, <1>3, <2>1, <2>3, Zenon
<1>4. CASE l \notin C
  <2>1. (C \ out) \cup (IF l \in C THEN {} ELSE {l}) = (C \ out) \cup {l}
    BY <1>4
  <2>2. l \notin C \ out
    BY <1>4
  <2>3. Cardinality((C \ out) \cup {l}) = Cardinality(C \ out) + 1
    BY ONLY <1>1, <2>2, FS_AddElement
  <2> QED
    BY ONLY <1>2, <1>4, <2>1, <2>3, Zenon
<1> QED
  BY ONLY <1>3, <1>4

LEMMA ServedFacts ==
  ASSUME NEW s, Good(s, D!NoneMoved, FALSE)
  PROVE  Mapped(D!Served(s), s)
<1>1. /\ s \in States /\ s.asserted = TRUE /\ s.requests \in Nat
      /\ Space(s, FALSE) /\ Maps(s, D!NoneMoved) /\ Ordered(s) /\ Counted(s)
  BY DEF Good, Sane, States
<1>2. PICK r : r = [s EXCEPT !.requests = s.requests + 1]
  BY ONLY TRUE
<1>3. D!Served(s) = r
  BY <1>2 DEF D!Served
<1>4. /\ r.requests = s.requests + 1 /\ r.active_cost = s.active_cost
      /\ r.asserted = TRUE
  BY ONLY <1>1, <1>2 DEF States
<1>5. SameFlash(r, s) /\ SameLists(r, s) /\ SameMaps(r, s) /\ SameCache(r, s)
  BY ONLY <1>1, <1>2 DEF States, SameFlash, SameLists, SameMaps, SameCache
<1>6. r \in States
  <2>1. PICK n : n = s.requests + 1
    BY ONLY TRUE
  <2>2. n \in Nat
    BY ONLY <1>1, <2>1
  <2>3. r = [s EXCEPT !.requests = n]
    BY ONLY <1>2, <2>1
  <2> QED
    BY ONLY <1>1, <2>2, <2>3 DEF States
<1>7. Space(r, FALSE)
  BY ONLY <1>1, <1>5, SpaceSame
<1>8. Maps(r, D!NoneMoved)
  BY ONLY <1>1, <1>5, MapsSame DEF SameFlash
<1>9. Ordered(r)
  BY ONLY <1>1, <1>4, <1>5, <1>6, OrderedKept DEF SameFlash
<1>10. Counted(r)
  BY ONLY <1>1, <1>5, CountedSame
<1> QED
  BY ONLY <1>3, <1>4, <1>5, <1>6, <1>7, <1>8, <1>9, <1>10 DEF Mapped, Good, Sane, SameMaps

LEMMA ResolvedFacts ==
  ASSUME NEW s, Good(s, D!NoneMoved, FALSE), NEW l \in D!Lpns, NEW out \in D!Evictable(s)
  PROVE  /\ Good(D!Resolved(s, l, out), D!NoneMoved, FALSE)
         /\ D!Resolved(s, l, out).ppn = s.ppn
<1>1. /\ s \in States /\ s.asserted = TRUE /\ s.cmt \in Int /\ s.cached \in SUBSET D!Lpns
      /\ Space(s, FALSE) /\ Maps(s, D!NoneMoved) /\ Ordered(s) /\ Counted(s)
  BY DEF Good, Sane, States
<1>2. /\ out \in SUBSET s.cached /\ out \in SUBSET D!Lpns
      /\ Cardinality(out) = D!Excess(s) /\ Cardinality(out) \in Nat
  BY <1>1, EvictedCount, CachedFinite
<1>3. PICK c : c = (s.cached \ out) \cup (IF l \in s.cached THEN {} ELSE {l})
  BY ONLY TRUE
<1>4. PICK n : n = s.cmt - Cardinality(out) + IF l \in s.cached THEN 0 ELSE 1
  BY ONLY TRUE
<1>5. c \in SUBSET D!Lpns /\ n \in Int
  BY <1>1, <1>2, <1>3, <1>4
<1>6. PICK r : r = [s EXCEPT !.asserted = TRUE, !.cached = c, !.cmt = n]
  BY ONLY TRUE
<1>7. D!Resolved(s, l, out) = r
  <2>1. (s.asserted /\ D!Cardinality(out) = D!Excess(s)) = TRUE
    BY <1>1, <1>2, CardinalitySame
  <2>2. n = s.cmt - D!Cardinality(out) + IF l \in s.cached THEN 0 ELSE 1
    BY ONLY <1>4, CardinalitySame, Zenon
  <2>3. D!Resolved(s, l, out)
          = [s EXCEPT !.asserted = (s.asserted /\ D!Cardinality(out) = D!Excess(s)),
                      !.cached = (s.cached \ out) \cup (IF l \in s.cached THEN {} ELSE {l}),
                      !.cmt = s.cmt - D!Cardinality(out) + IF l \in s.cached THEN 0 ELSE 1]
    BY <1>1 DEF D!Resolved, States
  <2> QED
    BY ONLY <1>3, <1>6, <2>1, <2>2, <2>3, Zenon
<1>8. /\ r.active_cost = s.active_cost /\ r.asserted = TRUE /\ r.cached = c /\ r.cmt = n
  BY ONLY <1>1, <1>6 DEF States
<1>9. SameFlash(r, s) /\ SameLists(r, s) /\ SameMaps(r, s)
  BY ONLY <1>1, <1>6 DEF States, SameFlash, SameLists, SameMaps
<1>10. r \in States
  BY ONLY <1>1, <1>5, <1>6 DEF States
<1>11. Space(r, FALSE)
  BY ONLY <1>1, <1>9, SpaceSame
<1>12. Maps(r, D!NoneMoved)
  BY ONLY <1>1, <1>9, MapsSame DEF SameFlash
<1>13. Ordered(r)
  BY ONLY <1>1, <1>8, <1>9, <1>10, OrderedKept DEF SameFlash
<1>14. Counted(r)
  <2>1. Cardinality(c) = Cardinality(s.cached) - Cardinality(out) + IF l \in s.cached THEN 0 ELSE 1
    BY ONLY <1>1, <1>2, <1>3, ResolvedCount, l \in D!Lpns
  <2>2. Cardinality(s.cached) \in Nat
    BY ONLY <1>1, CachedFinite
  <2>3. PICK x, y, z : x = Cardinality(s.cached) /\ y = Cardinality(out) /\ z = Cardinality(c)
    BY ONLY TRUE
  <2>4. /\ z = x - y + (IF l \in s.cached THEN 0 ELSE 1)
        /\ n = s.cmt - y + (IF l \in s.cached THEN 0 ELSE 1)
        /\ x \in Nat /\ y \in Nat
    BY ONLY <1>2, <1>4, <2>1, <2>2, <2>3
  <2>5. s.cmt <= x /\ (~trimming => s.cmt = x)
    BY ONLY <1>1, <2>3 DEF Counted
  <2>6. n <= z /\ (~trimming => n = z)
    BY ONLY <1>1, <2>4, <2>5
  <2> QED
    BY ONLY <1>8, <2>3, <2>6 DEF Counted
<1> QED
  BY ONLY <1>7, <1>8, <1>9, <1>10, <1>11, <1>12, <1>13, <1>14 DEF Good, Sane, SameMaps

(* trim: the page of l is invalid, and its entry is taken from the map.    *)
Trimmed(r, s, l) ==
  /\ Good(r, D!NoneMoved, FALSE)
  /\ \A k \in D!Lpns : r.ppn[k] # -1 <=> (k # l /\ s.ppn[k] # -1)

LEMMA MapsTrimmed ==
  ASSUME NEW s \in States, Maps(s, D!NoneMoved), NEW l \in D!Lpns, s.ppn[l] # -1, NEW r,
         \A q \in D!Pages : r.state[q] = IF q = s.ppn[l] THEN "INVALID" ELSE s.state[q],
         r.data = s.data, r.reverse_trans_map = s.reverse_trans_map,
         \A k \in D!Lpns : r.ppn[k] = IF k = l THEN -1 ELSE s.ppn[k]
  PROVE  Maps(r, D!NoneMoved)
<1>1. /\ D!NoneMoved \in [D!Lpns \cup {-1} -> D!Pages \cup {-1}]
      /\ D!NoneMoved[-1] = -1 /\ \A k \in D!Lpns : D!NoneMoved[k] = -1
  BY DEF D!NoneMoved, D!Unset
<1>2. \A k \in D!Lpns : To(s, D!NoneMoved, k) = s.ppn[k] /\ To(r, D!NoneMoved, k) = r.ppn[k]
  BY ONLY <1>1 DEF To
<1>3. /\ \A k \in D!Lpns : s.ppn[k] # -1 =>
           /\ s.ppn[k] \in D!Pages /\ s.state[s.ppn[k]] = "VALID" /\ s.data[s.ppn[k]] = k
           /\ s.reverse_trans_map[s.ppn[k]] = k
      /\ \A q \in D!Pages : s.state[q] = "VALID" => s.data[q] \in D!Lpns /\ s.ppn[s.data[q]] = q
  BY <1>1, <1>2 DEF Maps, States
<1>4. ASSUME NEW k \in D!Lpns, To(r, D!NoneMoved, k) # -1
      PROVE  /\ r.state[To(r, D!NoneMoved, k)] = "VALID" /\ r.data[To(r, D!NoneMoved, k)] = k
             /\ r.reverse_trans_map[To(r, D!NoneMoved, k)] = k
  <2>1. PICK q : q = To(r, D!NoneMoved, k)
    BY ONLY TRUE
  <2>2. k # l /\ s.ppn[k] = q /\ q # -1
    BY <1>2, <1>4, <2>1
  <2>3. q \in D!Pages /\ s.state[q] = "VALID" /\ s.data[q] = k /\ s.reverse_trans_map[q] = k
    BY ONLY <1>3, <2>2, k \in D!Lpns
  <2>4. q # s.ppn[l]
    BY ONLY <1>3, <2>2, <2>3, l \in D!Lpns
  <2> QED
    BY <2>1, <2>3, <2>4
<1>5. ASSUME NEW q \in D!Pages, r.state[q] = "VALID"
      PROVE  r.data[q] \in D!Lpns /\ To(r, D!NoneMoved, r.data[q]) = q
  <2>1. q # s.ppn[l] /\ s.state[q] = "VALID"
    BY <1>5
  <2>2. s.data[q] \in D!Lpns /\ s.ppn[s.data[q]] = q /\ s.data[q] # l
    BY <1>3, <2>1
  <2> QED
    BY <1>2, <2>2
<1>6. ASSUME NEW k \in D!Lpns, r.ppn[k] # -1 PROVE r.reverse_trans_map[r.ppn[k]] = k
  BY <1>2, <1>4, <1>6
<1> QED
  BY ONLY <1>1, <1>4, <1>5, <1>6 DEF Maps

LEMMA UncountedFacts ==
  ASSUME trimming, NEW s \in States, Counted(s), NEW l, NEW r, r = D!Uncounted(s, l)
  PROVE  /\ r \in States /\ Counted(r) /\ r.active_cost = s.active_cost
         /\ SameFlash(r, s) /\ SameLists(r, s) /\ SameMaps(r, s) /\ SameCall(r, s)
<1>1. s.cmt \in Int /\ s.cached \in SUBSET D!Lpns /\ s.cmt <= Cardinality(s.cached)
  BY DEF States, Counted
<1>2. CASE l \notin s.cached
  BY <1>2 DEF D!Uncounted, SameFlash, SameLists, SameMaps, SameCall
<1>3. CASE l \in s.cached
  <2>1. PICK n : n = s.cmt - 1
    BY ONLY TRUE
  <2>2. r = [s EXCEPT !.cmt = n]
    BY <1>3, <2>1 DEF D!Uncounted
  <2>3. n \in Int
    BY <1>1, <2>1
  <2>4. r.cmt = n /\ r.cached = s.cached /\ r.active_cost = s.active_cost
    BY ONLY <2>2, s \in States DEF States
  <2>5. r \in States
    BY ONLY <2>2, <2>3, s \in States DEF States
  <2>6. SameFlash(r, s) /\ SameLists(r, s) /\ SameMaps(r, s) /\ SameCall(r, s)
    BY ONLY <2>2, s \in States DEF States, SameFlash, SameLists, SameMaps, SameCall
  <2>7. n <= Cardinality(s.cached)
    <3>1. Cardinality(s.cached) \in Nat
      BY ONLY <1>1, CachedFinite, s \in States
    <3>2. PICK c : c = Cardinality(s.cached)
      BY ONLY TRUE
    <3>3. n <= c
      BY ONLY <1>1, <2>1, <3>1, <3>2
    <3> QED
      BY ONLY <3>2, <3>3
  <2>8. Counted(r)
    BY ONLY <2>4, <2>7, trimming DEF Counted
  <2> QED
    BY ONLY <2>4, <2>5, <2>6, <2>8
<1> QED
  BY ONLY <1>2, <1>3

LEMMA TrimFacts ==
  ASSUME trimming, NEW s, Good(s, D!NoneMoved, FALSE), NEW l \in D!Lpns
  PROVE  Trimmed(D!TrimMapped(s, l), s, l)
<1>1. /\ s \in States /\ s.asserted = TRUE
      /\ Space(s, FALSE) /\ Maps(s, D!NoneMoved) /\ Ordered(s) /\ Counted(s)
  BY DEF Good, Sane
<1>2. CASE s.ppn[l] = -1
  BY <1>2 DEF D!TrimMapped, Trimmed
<1>3. CASE s.ppn[l] # -1
  <2>1. PICK p : p = s.ppn[l]
    BY ONLY TRUE
  <2>2. p \in D!Pages
    BY <1>1, <1>3, <2>1 DEF States
  <2>3. s.state[p] = "VALID"
    <3>1. To(s, D!NoneMoved, l) = p
      BY <2>1 DEF To, D!NoneMoved
    <3> QED
      BY <1>1, <1>3, <2>1, <3>1 DEF Maps
  <2>4. PICK t : t = D!InvalidateAt(s, p)
    BY ONLY TRUE
  <2>5. /\ t \in States /\ Ordered(t)
        /\ t.state = [s.state EXCEPT ![p] = "INVALID"]
        /\ t.data = s.data /\ t.pages_valid = s.pages_valid
        /\ SameLists(t, s) /\ SameMaps(t, s) /\ SameCache(t, s) /\ SameCall(t, s)
    <3>1. \A q \in D!Pages : q # p => (s.state[q] = "INVALID" <=> s.state[q] = "INVALID")
      OBVIOUS
    <3>2. s.active_cost = s.active_cost
      OBVIOUS
    <3> QED
      BY ONLY <1>1, <2>2, <2>4, <3>1, <3>2, InvalidateAtFacts
  <2>6. Counted(t)
    BY ONLY <1>1, <2>5, CountedSame
  <2>7. PICK u : u = D!Uncounted(t, l)
    BY ONLY TRUE
  <2>8. /\ u \in States /\ Counted(u) /\ u.active_cost = t.active_cost
        /\ SameFlash(u, t) /\ SameLists(u, t) /\ SameMaps(u, t) /\ SameCall(u, t)
    BY ONLY <2>5, <2>6, <2>7, UncountedFacts, trimming
  <2>9. PICK pn : pn = [u.ppn EXCEPT ![l] = -1]
    BY ONLY TRUE
  <2>10. /\ pn \in [D!Lpns -> D!Pages \cup {-1}]
         /\ \A k \in D!Lpns : pn[k] = IF k = l THEN -1 ELSE s.ppn[k]
    <3>1. u.ppn \in [D!Lpns -> D!Pages \cup {-1}]
      BY <2>8 DEF States
    <3>2. u.ppn = s.ppn
      BY ONLY <2>5, <2>8 DEF SameMaps
    <3> QED
      BY ONLY <2>9, <3>1, <3>2
  <2>11. PICK r : r = [u EXCEPT !.ppn = pn]
    BY ONLY TRUE
  <2>12. D!TrimMapped(s, l) = r
    <3>1. D!UpdateTranslationMap(u, l, -1) = r
      BY <2>8, <2>9, <2>11 DEF D!UpdateTranslationMap, States
    <3> QED
      BY <1>3, <2>1, <2>4, <2>7, <3>1 DEF D!TrimMapped
  <2>13. /\ r.ppn = pn /\ r.reverse_trans_map = u.reverse_trans_map
         /\ r.active_cost = u.active_cost
    BY ONLY <2>8, <2>11 DEF States
  <2>14. SameFlash(r, u) /\ SameLists(r, u) /\ SameCache(r, u) /\ SameCall(r, u)
    BY ONLY <2>8, <2>11 DEF States, SameFlash, SameLists, SameCache, SameCall
  <2>15. r \in States
    BY ONLY <2>8, <2>10, <2>11 DEF States
  <2>16. \A q \in D!Pages : r.state[q] = IF q = p THEN "INVALID" ELSE s.state[q]
    <3>1. r.state = [s.state EXCEPT ![p] = "INVALID"]
      BY ONLY <2>5, <2>8, <2>14 DEF SameFlash
    <3>2. s.state \in [D!Pages -> {"EMPTY", "VALID", "INVALID"}]
      BY <1>1 DEF States
    <3> QED
      BY ONLY <3>1, <3>2
  <2>17. /\ r.data = s.data /\ r.pages_valid = s.pages_valid /\ SameLists(r, s)
         /\ r.reverse_trans_map = s.reverse_trans_map /\ r.asserted = TRUE
    BY ONLY <1>1, <2>5, <2>8, <2>13, <2>14 DEF SameFlash, SameLists, SameMaps, SameCall
  <2>18. Space(r, FALSE)
    <3>1. \A q \in D!Pages : r.state[q] = "EMPTY" <=> s.state[q] = "EMPTY"
      BY ONLY <2>3, <2>16
    <3> QED
      BY ONLY <1>1, <2>17, <3>1, SpaceInvalid
  <2>19. \A k \in D!Lpns : r.ppn[k] = IF k = l THEN -1 ELSE s.ppn[k]
    BY ONLY <2>10, <2>13
  <2>20. Maps(r, D!NoneMoved)
    <3>1. \A q \in D!Pages : r.state[q] = IF q = s.ppn[l] THEN "INVALID" ELSE s.state[q]
      BY ONLY <2>1, <2>16
    <3> QED
      BY ONLY <1>1, <1>3, <2>17, <2>19, <3>1, MapsTrimmed, l \in D!Lpns
  <2>21. Ordered(r)
    <3>1. /\ r.state = t.state /\ r.active_cost = t.active_cost
      BY ONLY <2>8, <2>13, <2>14 DEF SameFlash
    <3>2. \A q \in D!Pages : r.state[q] = "INVALID" <=> t.state[q] = "INVALID"
      BY ONLY <3>1
    <3> QED
      BY ONLY <2>5, <2>15, <3>1, <3>2, OrderedKept
  <2>22. Counted(r)
    BY ONLY <2>8, <2>14, CountedSame
  <2> QED
    BY ONLY <2>12, <2>15, <2>17, <2>18, <2>19, <2>20, <2>21, <2>22 DEF Trimmed, Good, Sane
<1> QED
  BY ONLY <1>2, <1>3

-----------------------------------------------------------------------------
(* Requests.                                                               *)

LEMMA MarksRequest ==
  ASSUME NEW s, NEW l, NEW out
  PROVE  Marks(D!Served(s), s) /\ Marks(D!Resolved(s, l, out), s)
<1>1. Marks(D!Served(s), s)
  BY DEF Marks, D!Served
<1>2. Marks(D!Resolved(s, l, out), s)
  BY DEF Marks, D!Resolved
<1> QED
  BY <1>1, <1>2

(* What the end of a request changes: the block that was given, or only    *)
(* that an assertion failed.                                               *)
End(s, a, w, g) ==
  [s EXCEPT !.asserted = a, !.worn_out = w, !.nested = FALSE, !.got = g]

LEMMA Ended ==
  ASSUME NEW s, Sane(s, D!NoneMoved, FALSE), NEW a \in BOOLEAN, NEW w \in BOOLEAN,
         NEW g \in D!Blocks \cup {-1}
  PROVE  /\ Sane(End(s, a, w, g), D!NoneMoved, FALSE)
         /\ End(s, a, w, g).ppn = s.ppn /\ End(s, a, w, g).asserted = a
         /\ "nested" \in DOMAIN End(s, a, w, g)
<1>0. PICK r : r = [s EXCEPT !.asserted = a, !.worn_out = w, !.nested = FALSE, !.got = g]
  BY ONLY TRUE
<1>1. /\ s \in States
      /\ Space(s, FALSE) /\ Maps(s, D!NoneMoved) /\ Ordered(s) /\ Counted(s)
  BY DEF Sane
<1>2. r \in States /\ r.asserted = a /\ r.nested = FALSE /\ "nested" \in DOMAIN r
  BY ONLY <1>1, <1>0, a \in BOOLEAN, w \in BOOLEAN, g \in D!Blocks \cup {-1} DEF States
<1>3. r.active_cost = s.active_cost
  BY ONLY <1>0, <1>1 DEF States
<1>4. SameFlash(r, s) /\ SameLists(r, s) /\ SameMaps(r, s) /\ SameCache(r, s)
  BY ONLY <1>0, <1>1
     DEF States, SameFlash, SameLists, SameMaps, SameCache
<1>5. Space(r, FALSE)
  BY ONLY <1>1, <1>4, SpaceSame
<1>6. Maps(r, D!NoneMoved)
  BY ONLY <1>1, <1>4, MapsSame DEF SameFlash
<1>7. Ordered(r)
  BY ONLY <1>1, <1>2, <1>3, <1>4, OrderedKept DEF SameFlash
<1>8. Counted(r)
  BY ONLY <1>1, <1>4, CountedSame
<1> QED
  BY ONLY <1>0, <1>2, <1>4, <1>5, <1>6, <1>7, <1>8 DEF Sane, SameMaps, End

(* The outcome of a request: a void state, or one that keeps the invariant *)
(* with the pages that are then written.                                   *)
Outcome(r, written) ==
  /\ Marked(ssd) => Marked(r)
  /\ ~Marked(ssd) =>
       \/ Void(~Roomy, r)
       \/ /\ Good(r, D!NoneMoved, FALSE)
          /\ written \subseteq D!Lpns /\ \A l \in written : r.ppn[l] # -1

LEMMA Answered ==
  ASSUME Safe(ssd, live), NEW r, NEW written, Outcome(r, written), D!Answer(r, written)
  PROVE  Safe(ssd', live')
<1>1. "nested" \in DOMAIN ssd
  BY DEF Safe
<1>2. CASE Marked(r)
  <2>1. \/ ssd' = [r EXCEPT !.got = D!NoBlock]
        \/ ssd' = [ssd EXCEPT !.asserted = r.asserted, !.worn_out = @ \/ r.worn_out,
                              !.nested = r.nested]
    BY DEF D!Answer, D!Return
  <2>2. "nested" \in DOMAIN ssd' /\ ssd'.nested = TRUE
    BY <1>1, <1>2, <2>1 DEF Marked
  <2> QED
    BY <2>2 DEF Safe
<1>3. CASE ~Marked(r)
  <2>1. /\ ssd.nested # TRUE
        /\ Sane(ssd, D!NoneMoved, FALSE)
        /\ live \subseteq D!Lpns /\ \A l \in live : ssd.ppn[l] # -1
    BY <1>1, <1>3 DEF Safe, Outcome, Marked
  <2>2. ssd \in States
    BY <2>1 DEF Sane
  <2> DEFINE Unwritten(a) ==
               /\ \E w : ssd' = [ssd EXCEPT !.asserted = a, !.worn_out = @ \/ w,
                                            !.nested = FALSE]
               /\ live' = live
  <2>5. ASSUME NEW a \in BOOLEAN, Roomy => a = TRUE, Unwritten(a) PROVE Safe(ssd', live')
    <3>1. PICK w : ssd' = [ssd EXCEPT !.asserted = a, !.worn_out = @ \/ w, !.nested = FALSE]
      BY <2>5
    <3>2. PICK v : v = (ssd.worn_out \/ w)
      BY ONLY TRUE
    <3>5. v \in BOOLEAN
      BY ONLY <3>2
    <3>3. ssd' = End(ssd, a, v, ssd.got) /\ ssd.got \in D!Blocks \cup {-1}
      BY ONLY <2>2, <3>1, <3>2 DEF States, End
    <3>4. /\ Sane(ssd', D!NoneMoved, FALSE)
          /\ ssd'.ppn = ssd.ppn /\ ssd'.asserted = a /\ "nested" \in DOMAIN ssd'
      BY <2>1, <3>3, <3>5, Ended
    <3> QED
      BY <2>1, <2>5, <3>4 DEF Safe
  <2> HIDE DEF Unwritten
  <2>3. CASE /\ Good(r, D!NoneMoved, FALSE)
             /\ written \subseteq D!Lpns /\ \A l \in written : r.ppn[l] # -1
    <3>1. /\ r.asserted = TRUE /\ r.worn_out \in BOOLEAN /\ r.nested = FALSE
          /\ r \in States /\ Sane(r, D!NoneMoved, FALSE)
      BY <2>3 DEF Good, Sane, States
    <3>2. CASE ~r.worn_out
      <4>1. ssd' = [r EXCEPT !.got = -1] /\ live' = written
        BY <3>1, <3>2 DEF D!Answer, D!Return, D!IsRunning, D!NoBlock
      <4>2. ssd' = End(r, TRUE, FALSE, -1)
        BY ONLY <3>1, <3>2, <4>1 DEF States, End
      <4>3. /\ Sane(ssd', D!NoneMoved, FALSE)
            /\ ssd'.ppn = r.ppn /\ ssd'.asserted = TRUE /\ "nested" \in DOMAIN ssd'
        BY <3>1, <4>2, Ended
      <4> QED
        BY <2>3, <4>1, <4>3 DEF Safe
    <3>3. CASE r.worn_out
      <4>1. Unwritten(TRUE)
        BY <2>2, <3>1, <3>3 DEF Unwritten, D!Answer, D!IsRunning
      <4> QED
        BY <2>5, <4>1
    <3> QED
      BY <3>2, <3>3
  <2>4. CASE ~Roomy /\ Failed(r)
    <3>1. r.asserted = FALSE /\ r.nested = FALSE
      BY <2>4 DEF Failed
    <3>2. Unwritten(FALSE)
      BY <2>2, <3>1 DEF Unwritten, D!Answer, D!IsRunning
    <3> QED
      BY <2>4, <2>5, <3>2
  <2> QED
    BY <1>1, <1>3, <2>1, <2>3, <2>4 DEF Outcome, Marked, Void
<1> QED
  BY <1>2, <1>3

(* The entry to evict is looked for before the request is counted.         *)
LEMMA EvictableSame ==
  ASSUME NEW s \in States
  PROVE  D!Evictable(D!Served(s)) = D!Evictable(s)
<1>1. PICK r : r = D!Served(s)
  BY ONLY TRUE
<1>2. r.cached = s.cached /\ r.cmt = s.cmt
  BY <1>1 DEF D!Served, States
<1>3. D!Excess(r) = D!Excess(s)
  BY <1>2 DEF D!Excess
<1> QED
  BY <1>1, <1>2, <1>3 DEF D!Evictable

LEMMA Requested ==
  ASSUME NEW s, Good(s, D!NoneMoved, FALSE), NEW l \in D!Lpns, NEW out \in D!Evictable(s)
  PROVE  /\ Good(D!Resolved(D!Served(s), l, out), D!NoneMoved, FALSE)
         /\ D!Resolved(D!Served(s), l, out).ppn = s.ppn
<1>1. PICK t : t = D!Served(s)
  BY ONLY TRUE
<1>2. Good(t, D!NoneMoved, FALSE) /\ t.ppn = s.ppn
  BY <1>1, ServedFacts DEF Mapped
<1>3. out \in D!Evictable(t)
  BY <1>1, EvictableSame DEF Good, Sane
<1> QED
  BY <1>1, <1>2, <1>3, ResolvedFacts

LEMMA Live ==
  ASSUME Safe(ssd, live), D!CanServe, ~Marked(ssd)
  PROVE  /\ Good(ssd, D!NoneMoved, FALSE) /\ live \subseteq D!Lpns
         /\ \A k \in live : ssd.ppn[k] # -1
<1>1. /\ Sane(ssd, D!NoneMoved, FALSE) /\ live \subseteq D!Lpns
      /\ \A k \in live : ssd.ppn[k] # -1
  BY DEF Safe, Marked
<1>2. ssd.asserted = TRUE
  BY <1>1 DEF D!CanServe, D!IsRunning, Sane, States
<1> QED
  BY <1>1, <1>2 DEF Good

LEMMA ReadSafe ==
  ASSUME Safe(ssd, live), NEW l \in D!Lpns, D!Read(l)
  PROVE  Safe(ssd', live')
<1>1. /\ D!CanServe
      /\ \E out \in D!Evictable(ssd) : D!Answer(D!Resolved(D!Served(ssd), l, out), live)
  BY DEF D!Read
<1>2. PICK out \in D!Evictable(ssd) : D!Answer(D!Resolved(D!Served(ssd), l, out), live)
  BY <1>1
<1>3. PICK r : r = D!Resolved(D!Served(ssd), l, out)
  BY ONLY TRUE
<1>4. SUFFICES Outcome(r, live)
  BY <1>2, <1>3, Answered
<1>5. CASE Marked(ssd)
  <2>1. Void(FALSE, r)
    BY <1>3, <1>5, MarksRequest, VoidKept DEF Void
  <2> QED
    BY <1>5, <2>1 DEF Void, Outcome
<1>6. CASE ~Marked(ssd)
  <2>1. Good(r, D!NoneMoved, FALSE) /\ r.ppn = ssd.ppn
    BY <1>1, <1>3, <1>6, Live, Requested
  <2> QED
    BY <1>1, <1>6, <2>1, Live DEF Outcome
<1> QED
  BY <1>5, <1>6

(* A write, whatever is evicted, and whatever collections it begins.       *)
LEMMA WriteSafe ==
  ASSUME Safe(ssd, live), NEW l \in D!Lpns, D!Write(l)
  PROVE  Safe(ssd', live')
<1>1. /\ D!CanServe
      /\ \E out \in D!Evictable(ssd) :
           D!Answer(D!StoreNext(D!GetFreeDataPage(D!Resolved(D!Served(ssd), l, out)), l),
                    live \cup {l})
  BY DEF D!Write
<1>2. PICK out \in D!Evictable(ssd) :
        D!Answer(D!StoreNext(D!GetFreeDataPage(D!Resolved(D!Served(ssd), l, out)), l),
                 live \cup {l})
  BY <1>1
<1>3. PICK s : s = D!Resolved(D!Served(ssd), l, out)
  BY ONLY TRUE
<1>4. PICK t : t = D!GetFreeDataPage(s)
  BY ONLY TRUE
<1>5. PICK r : r = D!StoreNext(t, l)
  BY ONLY TRUE
<1>6. D!Answer(r, live \cup {l})
  BY <1>2, <1>3, <1>4, <1>5
<1>7. SUFFICES Outcome(r, live \cup {l})
  BY <1>6, Answered
<1>8. \A fail : Void(fail, t) => Void(fail, r)
  BY <1>5, MarksStore, VoidKept DEF D!StoreNext
<1>9. CASE Marked(ssd)
  <2>1. Void(FALSE, s)
    BY <1>3, <1>9, MarksRequest, VoidKept DEF Void
  <2>2. Void(FALSE, r)
    BY <1>4, <1>8, <2>1, GetFreeDataPageVoid
  <2> QED
    BY <1>9, <2>2 DEF Void, Outcome
<1>10. CASE ~Marked(ssd)
  <2>1. Good(s, D!NoneMoved, FALSE) /\ s.ppn = ssd.ppn
    BY <1>1, <1>3, <1>10, Live, Requested
  <2>2. live \cup {l} \subseteq D!Lpns /\ \A k \in live : ssd.ppn[k] # -1
    BY <1>1, <1>10, Live
  <2>3. Void(~Roomy, t) \/ GotPage(t, s)
    BY <1>4, <2>1, GetFreeDataPageFacts
  <2>4. CASE Void(~Roomy, t)
    BY <1>8, <1>10, <2>4 DEF Outcome
  <2>5. CASE GotPage(t, s)
    <3>1. /\ Good(t, D!NoneMoved, TRUE) /\ t.current_page \in D!Pages
          /\ \A k \in D!Lpns : t.ppn[k] # -1 <=> s.ppn[k] # -1
      BY <2>5 DEF GotPage
    <3>2. Stored(r, t, l)
      BY <1>5, <3>1, StoreFacts
    <3>3. \A k \in live \cup {l} : r.ppn[k] # -1
      BY <2>1, <2>2, <3>1, <3>2 DEF Stored
    <3> QED
      BY <1>10, <2>2, <3>2, <3>3 DEF Outcome, Stored
  <2> QED
    BY <2>3, <2>4, <2>5
<1> QED
  BY <1>9, <1>10

(* A trim of any page, written or not.                                     *)
LEMMA TrimSafe ==
  ASSUME Safe(ssd, live), trimming, NEW l \in D!Lpns, D!Trim(l)
  PROVE  Safe(ssd', live')
<1>1. D!CanServe /\ D!Answer(D!TrimMapped(D!Served(ssd), l), live \ {l})
  BY DEF D!Trim
<1>2. PICK s : s = D!Served(ssd)
  BY ONLY TRUE
<1>3. PICK r : r = D!TrimMapped(s, l)
  BY ONLY TRUE
<1>4. SUFFICES Outcome(r, live \ {l})
  BY <1>1, <1>2, <1>3, Answered
<1>5. CASE Marked(ssd)
  <2>1. Void(FALSE, r)
    BY <1>2, <1>3, <1>5, MarksRequest, MarksTrim, VoidKept DEF Void
  <2> QED
    BY <1>5, <2>1 DEF Void, Outcome
<1>6. CASE ~Marked(ssd)
  <2>1. /\ Good(ssd, D!NoneMoved, FALSE) /\ live \subseteq D!Lpns
        /\ \A k \in live : ssd.ppn[k] # -1
    BY <1>1, <1>6, Live
  <2>2. Good(s, D!NoneMoved, FALSE) /\ s.ppn = ssd.ppn
    BY <1>2, <2>1, ServedFacts DEF Mapped
  <2>3. Trimmed(r, s, l)
    BY <1>3, <2>2, TrimFacts
  <2> QED
    BY <1>6, <2>1, <2>2, <2>3 DEF Outcome, Trimmed
<1> QED
  BY <1>5, <1>6

(* DftlInv is inductive.                                                   *)
LEMMA StepSafe ==
  ASSUME DftlInv, [Next]_vars
  PROVE  DftlInv'
<1>1. trimming' = trimming /\ ftl' = ftl
  BY DEF Next, vars, Read, Write, Trim, Host
<1>2. DftlInv' <=> (ftl' = "DFTL" => Safe(ssd', live'))
  BY <1>1 DEF DftlInv, Safe, Sane, Space, Lists, Filled, StateOf, Height, Maps, To, Ordered, Cost,
     Counted, IsCurrent, Free, Listed
<1>3. SUFFICES ASSUME ftl' = "DFTL" PROVE Safe(ssd', live')
  BY <1>2
<1>4. ftl = "DFTL" /\ Safe(ssd, live)
  BY <1>1, <1>3 DEF DftlInv
<1>5. CASE Read
  <2>1. PICK l \in D!Lpns : D!Read(l)
    BY <1>4, <1>5 DEF Read
  <2> QED
    BY <1>4, <2>1, ReadSafe
<1>6. CASE Write
  <2>1. PICK l \in D!Lpns : D!Write(l)
    BY <1>4, <1>6 DEF Write
  <2> QED
    BY <1>4, <2>1, WriteSafe
<1>7. CASE Trim
  <2>1. trimming /\ \E l \in D!Lpns : D!Trim(l)
    BY <1>4, <1>7 DEF Trim
  <2>2. PICK l \in D!Lpns : D!Trim(l)
    BY <2>1
  <2> QED
    BY <1>4, <2>1, <2>2, TrimSafe
<1>8. CASE UNCHANGED vars
  BY <1>4, <1>8 DEF vars
<1> QED
  BY <1>5, <1>6, <1>7, <1>8 DEF Next

(* A new device: every block is free, no page mapped, no entry cached.     *)
NewDevice(cost) ==
  [state |-> [p \in D!Pages |-> "EMPTY"],
   data |-> [p \in D!Pages |-> -1],
   pages_valid |-> [b \in D!Blocks |-> 0],
   erases_remaining |-> [b \in D!Blocks |-> BlockErases], worn_out |-> FALSE,
   asserted |-> TRUE,
   first_free |-> 0, current_free |-> 0,
   free_list |-> << >>, invalid_list |-> << >>,
   data_active |-> 0, log_active |-> 0,
   out_of_blocks |-> FALSE, got |-> -1,
   ppn |-> [l \in D!Lpns |-> -1], cached |-> {}, cmt |-> 0,
   reverse_trans_map |-> [p \in D!Pages |-> -1],
   current_page |-> -1, current_writing |-> -2,
   active_cost |-> cost, nested |-> FALSE, requests |-> 0]

LEMMA InitState ==
  ASSUME D!Init
  PROVE  /\ live = {}
         /\ \E cost : /\ cost = [n \in 1 .. NumberOfBlocks |-> n - 1]
                      /\ ssd = NewDevice(cost)
<1> DEFINE fields == [ppn |-> [l \in D!Lpns |-> -1], cached |-> {}, cmt |-> 0,
                      reverse_trans_map |-> [p \in D!Pages |-> -1],
                      current_page |-> -1, current_writing |-> -2,
                      active_cost |-> [n \in 1 .. NumberOfBlocks |-> n - 1],
                      nested |-> FALSE, requests |-> 0]
           flash == D!FlashInit(0)
<1>1. ssd = D!ParentInit(0) /\ live = {}
  BY DEF D!Init
<1>2. /\ DOMAIN fields = {"ppn", "cached", "cmt", "reverse_trans_map", "current_page",
                          "current_writing", "active_cost", "nested", "requests"}
      /\ DOMAIN flash = {"state", "data", "pages_valid", "erases_remaining", "worn_out",
                         "asserted", "first_free", "current_free", "free_list", "invalid_list",
                         "data_active", "log_active", "out_of_blocks", "got"}
  BY DEF D!FlashInit
<1>3. ssd = [x \in DOMAIN fields \cup DOMAIN flash |->
               IF x \in DOMAIN fields THEN fields[x] ELSE flash[x]]
  BY <1>1 DEF D!ParentInit, D!LayerInit, D!Unset
<1>4. PICK cost : cost = [n \in 1 .. NumberOfBlocks |-> n - 1]
  BY ONLY TRUE
<1>5. ssd = NewDevice(cost)
  BY <1>2, <1>3, <1>4 DEF NewDevice, D!FlashInit, D!Junk, D!NoBlock
<1> QED
  BY <1>1, <1>4, <1>5

LEMMA InitSafe ==
  ASSUME Init
  PROVE  DftlInv
<1>1. SUFFICES ASSUME ftl = "DFTL", D!Init PROVE Safe(ssd, live)
  BY DEF Init, DftlInv
<1>2. live = {}
  BY <1>1, InitState
<1>3. PICK s : s = ssd
  BY ONLY TRUE
<1>4. PICK cost : cost = [n \in 1 .. NumberOfBlocks |-> n - 1] /\ s = NewDevice(cost)
  BY <1>1, <1>3, InitState
<1>5. s = [state |-> [p \in D!Pages |-> "EMPTY"],
           data |-> [p \in D!Pages |-> -1],
           pages_valid |-> [b \in D!Blocks |-> 0],
           erases_remaining |-> [b \in D!Blocks |-> BlockErases], worn_out |-> FALSE,
           asserted |-> TRUE,
           first_free |-> 0, current_free |-> 0,
           free_list |-> << >>, invalid_list |-> << >>,
           data_active |-> 0, log_active |-> 0,
           out_of_blocks |-> FALSE, got |-> -1,
           ppn |-> [l \in D!Lpns |-> -1], cached |-> {}, cmt |-> 0,
           reverse_trans_map |-> [p \in D!Pages |-> -1],
           current_page |-> -1, current_writing |-> -2,
           active_cost |-> cost, nested |-> FALSE, requests |-> 0]
  BY ONLY <1>4 DEF NewDevice
<1>6. /\ cost \in [1 .. NumberOfBlocks -> D!Blocks]
      /\ \A n \in 1 .. NumberOfBlocks : cost[n] = n - 1
  BY <1>4, ConfigFacts DEF D!Blocks
<1>7. s \in States
  <2>1. << >> \in Seq(D!Blocks) /\ 0 \in 0 .. BlockSize /\ 0 \in 0 .. NumberOfBlocks
    BY ConfigFacts
  <2>2. BlockErases \in 0 .. BlockErases
    BY ConfigFacts
  <2> QED
    BY ONLY <1>5, <1>6, <2>1, <2>2 DEF States
<1>8. /\ s.state = [p \in D!Pages |-> "EMPTY"] /\ s.pages_valid = [b \in D!Blocks |-> 0]
       /\ s.free_list = << >> /\ s.current_free = 0 /\ s.data_active = 0
       /\ s.current_page = -1 /\ s.active_cost = cost
       /\ s.ppn = [l \in D!Lpns |-> -1] /\ s.cached = {} /\ s.cmt = 0
       /\ s.nested = FALSE /\ s.asserted = TRUE /\ "nested" \in DOMAIN s
  BY ONLY <1>5
<1>9. Listed(s) = {} /\ Free(s) = D!Blocks
  <2>1. Listed(s) = {}
    BY <1>8 DEF Listed
  <2> QED
    BY <1>8, <2>1 DEF Free, D!Blocks
<1>10. Space(s, FALSE)
  <2>1. Lists(s)
    BY <1>8 DEF Lists
  <2>2. Filled(s)
    <3>1. ASSUME NEW b \in D!Blocks, NEW i \in D!Offsets
          PROVE  StateOf(s, b, i) = "EMPTY" /\ s.pages_valid[b] <= i
      <4>1. D!Page(b, i) \in D!Pages /\ 0 <= i
        BY Addresses DEF D!Offsets
      <4> QED
        BY <1>8, <4>1 DEF StateOf
    <3> QED
      BY <3>1 DEF Filled
  <2>3. \A b \in D!Blocks : ~IsCurrent(s, b) /\ s.pages_valid[b] = 0
    BY <1>8 DEF IsCurrent
  <2> QED
    BY <1>9, <2>1, <2>2, <2>3 DEF Space, Height
<1>11. Maps(s, D!NoneMoved)
  BY <1>8 DEF Maps, To, D!NoneMoved, D!Unset
<1>12. \A b \in D!Blocks : D!InvalidCount(s, b) = 0
  <2>1. ASSUME NEW b \in D!Blocks PROVE D!InvalidCount(s, b) = 0
    <3>1. {i \in D!Offsets : s.state[D!Page(b, i)] = "INVALID"} = {}
      BY <1>8, Addresses
    <3>2. D!InvalidCount(s, b) = Cardinality({})
      BY <3>1, CardinalitySame DEF D!InvalidCount
    <3> QED
      BY ONLY <3>2, FS_EmptySet
  <2> QED
    BY <2>1
<1>13. Ordered(s)
  <2>1. \A b \in D!Blocks : b + 1 \in 1 .. NumberOfBlocks /\ cost[b + 1] = b
    BY <1>6, ConfigFacts DEF D!Blocks
  <2>2. \A m, n \in 1 .. NumberOfBlocks : cost[m] = cost[n] => m = n
    BY <1>6
  <2>3. \A n \in 1 .. NumberOfBlocks : Cost(s, n) = 0
    BY <1>6, <1>8, <1>12 DEF Cost
  <2> QED
    BY <1>8, <2>1, <2>2, <2>3 DEF Ordered
<1>14. Counted(s)
  <2>1. Cardinality({}) = 0
    BY FS_EmptySet
  <2> QED
    BY <1>8, <2>1 DEF Counted
<1> QED
  BY <1>2, <1>3, <1>7, <1>8, <1>10, <1>11, <1>13, <1>14 DEF Safe, Sane

(* In every reachable state with the DFTL layer, until a collection begins *)
(* inside a cleanup_block: which pages of a block are written, which       *)
(* blocks are free, that the valid pages are the mapped ones, in what      *)
(* order the blocks stand for collection, and what the counter of cached   *)
(* entries counts.                                                         *)
THEOREM DftlInvariant == Spec => []DftlInv
<1>1. Init => DftlInv
  BY InitSafe
<1>2. DftlInv /\ [Next]_vars => DftlInv'
  BY StepSafe
<1> QED
  BY <1>1, <1>2, PTL DEF Spec

-----------------------------------------------------------------------------
(* What follows from it, as long as no collection began in a cleanup_block.*)

LEMMA SoundFacts ==
  ASSUME DftlInv, Sound("DFTL")
  PROVE  /\ ftl = "DFTL" /\ ssd \in States
         /\ Space(ssd, FALSE) /\ Maps(ssd, D!NoneMoved) /\ Ordered(ssd) /\ Counted(ssd)
         /\ live \subseteq D!Lpns /\ \A l \in live : ssd.ppn[l] # -1
         /\ Roomy => ssd.asserted = TRUE
  BY DEF DftlInv, Sound, Safe, Sane

LEMMA SoundMaps ==
  ASSUME DftlInv, Sound("DFTL")
  PROVE  /\ \A l \in D!Lpns : ssd.ppn[l] # -1 =>
              /\ ssd.ppn[l] \in D!Pages
              /\ ssd.state[ssd.ppn[l]] = "VALID" /\ ssd.data[ssd.ppn[l]] = l
              /\ ssd.reverse_trans_map[ssd.ppn[l]] = l
         /\ \A p \in D!Pages : ssd.state[p] = "VALID" =>
              ssd.data[p] \in D!Lpns /\ ssd.ppn[ssd.data[p]] = p
<1>1. ssd \in States /\ Maps(ssd, D!NoneMoved)
  BY SoundFacts
<1>2. \A l \in D!Lpns : D!NoneMoved[l] = -1 /\ To(ssd, D!NoneMoved, l) = ssd.ppn[l]
  BY DEF D!NoneMoved, To
<1> QED
  BY <1>1, <1>2 DEF Maps, States

LEMMA SoundTyped ==
  ASSUME DftlInv, Sound("DFTL")
  PROVE  D!ParentTypeOK
<1>1. ssd \in States /\ live \subseteq D!Lpns /\ Ordered(ssd)
  BY SoundFacts
<1>2. ssd.invalid_list \in Seq(D!Blocks) /\ ssd.log_active \in Int
  <2>1. ssd.invalid_list = << >> /\ ssd.log_active = 0
    BY <1>1 DEF States
  <2>2. << >> \in Seq(D!Blocks)
    OBVIOUS
  <2> QED
    BY ONLY <2>1, <2>2
<1>3. ssd.current_free \in ssd.first_free .. NumberOfBlocks
  BY <1>1 DEF States
<1>4. D!FlashTypeOK
  BY <1>1, <1>2, <1>3 DEF D!FlashTypeOK, States, D!Junk
<1>5. D!Range(ssd.active_cost) = D!Blocks
  <2>1. ssd.active_cost \in [1 .. NumberOfBlocks -> D!Blocks]
    BY <1>1 DEF States
  <2>2. \A b \in D!Blocks : \E n \in 1 .. NumberOfBlocks : ssd.active_cost[n] = b
    BY <1>1 DEF Ordered
  <2> QED
    BY <2>1, <2>2 DEF D!Range
<1> QED
  BY <1>1, <1>4, <1>5 DEF D!ParentTypeOK, States, D!Unset

LEMMA SoundReads ==
  ASSUME DftlInv, Sound("DFTL")
  PROVE  D!ReadsNewest
<1>1. ASSUME NEW l \in live
      PROVE  /\ ssd.state[D!ReadAddress(ssd, l)] = "VALID"
             /\ ssd.data[D!ReadAddress(ssd, l)] = l
  BY <1>1, SoundFacts, SoundMaps DEF D!ReadAddress
<1> QED
  BY <1>1 DEF D!ReadsNewest

LEMMA SoundBlocks ==
  ASSUME DftlInv, Sound("DFTL")
  PROVE  D!FreeBlocksErased
<1>1. ssd \in States /\ Space(ssd, FALSE) /\ Lists(ssd) /\ Filled(ssd)
  BY SoundFacts DEF Space
<1>2. D!FreeBlocks = Free(ssd)
  BY DEF D!FreeBlocks, Free, Listed, D!Range
<1>3. Free(ssd) \subseteq D!Blocks
  BY <1>1, FreeBlocks
<1>4. D!IsInjective(ssd.free_list)
  BY <1>1 DEF Lists, D!IsInjective
<1>5. ASSUME NEW b \in Free(ssd), NEW p \in D!PagesOf(b)
      PROVE  ssd.state[p] = "EMPTY" /\ p \notin D!Range(ssd.ppn)
  <2>1. b \in D!Blocks /\ ssd.pages_valid[b] = 0
    BY <1>1, <1>3, <1>5 DEF Space, Height
  <2>2. PICK i \in D!Offsets : p = D!Page(b, i)
    BY <1>5 DEF D!PagesOf
  <2>3. 0 <= i
    BY <2>2 DEF D!Offsets
  <2>4. ssd.state[p] = "EMPTY"
    BY <1>1, <2>1, <2>2, <2>3 DEF Filled, StateOf
  <2>5. DOMAIN ssd.ppn = D!Lpns /\ p \in D!Pages /\ p # -1
    <3>1. p \in D!Pages
      BY <2>1, <2>2, Addresses
    <3> QED
      BY <1>1, <3>1 DEF States, D!Pages
  <2>6. \A l \in D!Lpns : ssd.ppn[l] # p
    BY <2>4, <2>5, SoundMaps
  <2> QED
    BY <2>4, <2>5, <2>6 DEF D!Range
<1>6. D!BlockOf(ssd.current_page) \notin Free(ssd)
  <2>1. CASE ssd.current_page = -1
    <3>1. \A n \in Nat \ {0} : (-1) \div n < 0
      BY SMT
    <3>2. D!BlockOf(-1) < 0
      BY <3>1, ConfigFacts DEF D!BlockOf
    <3> QED
      BY <1>3, <2>1, <3>2 DEF D!Blocks
  <2>2. CASE ssd.current_page # -1
    BY <1>1, <2>2 DEF Space, IsCurrent
  <2> QED
    BY <2>1, <2>2
<1> QED
  BY <1>2, <1>4, <1>5, <1>6 DEF D!FreeBlocksErased

LEMMA SoundAgrees ==
  ASSUME DftlInv, Sound("DFTL")
  PROVE  /\ D!MapsAgree /\ D!ValidMapped
         /\ D!CmtCovered /\ (trimming \/ D!CmtExact)
<1>1. ssd \in States /\ Counted(ssd)
  BY SoundFacts
<1>2. D!MapsAgree
  BY SoundMaps DEF D!MapsAgree
<1>3. D!ValidMapped
  <2>1. DOMAIN ssd.ppn = D!Lpns
    BY <1>1 DEF States
  <2> QED
    BY <2>1, SoundMaps DEF D!ValidMapped, D!Range
<1>4. D!CmtCovered /\ (trimming \/ D!CmtExact)
  BY <1>1, CardinalitySame DEF Counted, D!CmtCovered, D!CmtExact
<1> QED
  BY <1>2, <1>3, <1>4

-----------------------------------------------------------------------------
(* The properties of the simulator, where the layer is DFTL: for devices,  *)
(* hosts and caches of every size.                                         *)

(* The types, among them the order of the blocks for collection, which     *)
(* lists every block.                                                      *)
THEOREM DftlTyped == Spec => [](Sound("DFTL") => TypeOK)
<1>1. DftlInv => (Sound("DFTL") => TypeOK)
  BY SoundTyped DEF Sound, TypeOK
<1> QED
  BY <1>1, DftlInvariant, PTL

(* A page that was written and not trimmed since is read with its last     *)
(* data, whatever evictions, collections and copies came between.          *)
THEOREM DftlReads == Spec => [](ftl = "DFTL" => ReadsNewest)
<1>1. DftlInv => (ftl = "DFTL" => ReadsNewest)
  BY SoundReads DEF Sound, ReadsNewest
<1> QED
  BY <1>1, DftlInvariant, PTL

(* A free block is erased, unmapped, free only once, and not the one that  *)
(* is being written: a collection erases no page that is still mapped.     *)
THEOREM DftlBlocks == Spec => [](ftl = "DFTL" => BlocksOwned)
<1>1. DftlInv => (ftl = "DFTL" => BlocksOwned)
  BY SoundBlocks DEF Sound, BlocksOwned
<1> QED
  BY <1>1, DftlInvariant, PTL

(* The counter of cached entries is their number as long as nothing is     *)
(* trimmed, and never more: an eviction finds the entries it asks for.     *)
THEOREM DftlCounts == Spec => [](ftl = "DFTL" => CountersAgree)
<1>1. DftlInv => (ftl = "DFTL" => CountersAgree)
  BY SoundAgrees DEF Sound, CountersAgree
<1> QED
  BY <1>1, DftlInvariant, PTL

(* A mapped page is valid and the reverse map leads back from it, and a    *)
(* valid page is mapped: cleanup_block remaps exactly what it copies.      *)
THEOREM DftlMaps == Spec => [](ftl = "DFTL" => MapsAgree)
<1>1. DftlInv => (ftl = "DFTL" => MapsAgree)
  BY SoundAgrees DEF Sound, MapsAgree
<1> QED
  BY <1>1, DftlInvariant, PTL

(* With two blocks more than the host uses no assertion fails but the one   *)
(* that ends the program at the erase of a block with no erase left: a     *)
(* block at its end is followed by a free one, because one of those in use *)
(* has an invalid page, and a page is written only when it is empty.       *)
THEOREM DftlAsserts == Spec => [](ftl = "DFTL" => AssertionsHold)
<1>1. ASSUME DftlInv, Sound("DFTL"), D!HasRoom PROVE ssd.asserted
  <2>1. ssd.first_free = 0
    BY <1>1, SoundFacts DEF States
  <2>2. Roomy
    BY <1>1, <2>1, ConfigFacts DEF D!HasRoom, Roomy
  <2> QED
    BY <1>1, <2>2, SoundFacts
<1>2. DftlInv => (ftl = "DFTL" => AssertionsHold)
  BY <1>1 DEF Sound, AssertionsHold
<1> QED
  BY <1>2, DftlInvariant, PTL
=============================================================================
