--------------------------- MODULE SimulatorProofs --------------------------
(* Theorems about the simulator with the BAST layer and, at the end, the   *)
(* page layer, and their proofs.                                           *)
(*                                                                         *)
(* A call of the layer is a composition of operators on the simulator's    *)
(* record, so most lemmas are about such an operator: from a state in      *)
(* which Good holds it returns one in which Good holds. The simulator's    *)
(* steps follow from these, and BastInv from the steps. Between two        *)
(* operators a block may be at hand, taken and not yet mapped: Owned and   *)
(* Clean have it as a parameter. What is written and what must be kept     *)
(* differ in the middle of a write or a trim, so Held has a parameter for  *)
(* each.                                                                   *)
EXTENDS Simulator, SequenceTheorems, FiniteSetTheorems, TLAPS

-----------------------------------------------------------------------------
(* The invariant, of any state s that the layer's operators work on. Pages *)
(* are named by their block and their place in it.                         *)

StateOf(s, b, i) == s.state[B!Page(b, i)]
DataOf(s, b, i)  == s.data[B!Page(b, i)]

LogEntries ==
  {B!NoLog} \cup [address : B!Blocks, pages : [B!Offsets -> B!Offsets \cup {-1}]]

States ==
  [state : [B!Pages -> {"EMPTY", "VALID", "INVALID"}],
   data : [B!Pages -> B!Lpns \cup {-1}],
   pages_valid : [B!Blocks -> 0 .. BlockSize],
   erases_remaining : [B!Blocks -> 0 .. BastErases],
   worn_out : BOOLEAN, asserted : BOOLEAN,
   first_free : 0 .. NumberOfBlocks, current_free : 0 .. NumberOfBlocks,
   free_list : Seq(B!Blocks), invalid_list : {<< >>},
   data_active : Int, log_active : Int,
   out_of_blocks : BOOLEAN, got : B!Blocks \cup {-1},
   data_list : [B!Lbas -> B!Blocks \cup {-1}],
   log_map : [B!Lbas -> LogEntries]]

DataLbas(s) == {k \in B!Lbas : B!HasData(s, k)}
Address(s, k) == s.log_map[k].address

(* The blocks that are free, and those that are at hand: got, between      *)
(* taking a block and using it.                                            *)
Listed(s) == {s.free_list[n] : n \in DOMAIN s.free_list}
Free(s)   == Listed(s) \cup s.current_free .. NumberOfBlocks - 1

Owned(s, hand) ==
  /\ \A j, k \in DataLbas(s) : s.data_list[j] = s.data_list[k] => j = k
  /\ \A j, k \in B!Logs(s) : Address(s, j) = Address(s, k) => j = k
  /\ \A m, n \in DOMAIN s.free_list : s.free_list[m] = s.free_list[n] => m = n
  /\ \A j \in DataLbas(s), k \in B!Logs(s) : s.data_list[j] # Address(s, k)
  /\ \A k \in DataLbas(s) : s.data_list[k] \notin Free(s) \cup hand
  /\ \A k \in B!Logs(s) : Address(s, k) \notin Free(s) \cup hand
  /\ hand \cap Free(s) = {}
  /\ \A b \in Listed(s) : b < s.current_free
  /\ s.first_free <= s.current_free
  /\ \A b \in B!Blocks :
       s.first_free <= b <=> \/ \E k \in DataLbas(s) : s.data_list[k] = b
                             \/ \E k \in B!Logs(s) : Address(s, k) = b
                             \/ b \in Free(s) \cup hand

Counted(s) ==
  /\ s.data_active = Cardinality(DataLbas(s))
  /\ s.log_active = Cardinality(B!Logs(s))

(* A block to be taken is erased.                                          *)
Clean(s, hand) ==
  \A b \in Free(s) \cup hand :
    s.pages_valid[b] = 0 /\ \A i \in B!Offsets : StateOf(s, b, i) = "EMPTY"

(* What the pages of logs and data blocks hold: the last data of a page    *)
(* in written, and every page in kept is there.                            *)
LogHolds(s, k, i, written) ==
  LET n == s.log_map[k].pages[i]
  IN  /\ n < s.pages_valid[Address(s, k)]
      /\ StateOf(s, Address(s, k), n) = "VALID"
      /\ DataOf(s, Address(s, k), n) = B!Page(k, i)
      /\ B!Page(k, i) \in written
DataValid(s, k, i) == B!HasData(s, k) /\ StateOf(s, s.data_list[k], i) = "VALID"
DataHolds(s, k, i, written) ==
  /\ DataOf(s, s.data_list[k], i) = B!Page(k, i)
  /\ B!Page(k, i) \in written
  /\ ~B!InLog(s, k, i)
HeldAt(s, k, written, kept) ==
  \A i \in B!Offsets :
    /\ B!InLog(s, k, i) => LogHolds(s, k, i, written)
    /\ DataValid(s, k, i) => DataHolds(s, k, i, written)
    /\ B!Page(k, i) \in kept => B!InLog(s, k, i) \/ DataValid(s, k, i)

(* The rest of a log is empty.                                             *)
LogFresh(s, k) ==
  B!HasLog(s, k) => \A i \in B!Offsets :
    s.pages_valid[Address(s, k)] <= i => StateOf(s, Address(s, k), i) = "EMPTY"

Held(s, written, kept) ==
  \A k \in B!Lbas : HeldAt(s, k, written, kept) /\ LogFresh(s, k)

Good(s, written, kept) ==
  /\ s \in States
  /\ Owned(s, {}) /\ Counted(s) /\ Clean(s, {})
  /\ Held(s, written, kept)
  /\ Cardinality(B!Logs(s)) <= BastLimit

Room(s) == LogicalBlocks + BastLimit + 1 <= NumberOfBlocks - s.first_free

(* The inductive invariant. The blocks below first_free are never used.    *)
BastInv ==
  ftl = "BAST" =>
    /\ live \subseteq B!Lpns
    /\ Good(ssd, live, live)
    /\ Room(ssd) => ssd.asserted

-----------------------------------------------------------------------------
(* The constants, and addresses of pages.                                  *)

(* The constants, as far as BAST uses them.                                *)
LEMMA ConfigFacts ==
  /\ NumberOfBlocks \in Nat \ {0} /\ BlockSize \in Nat \ {0}
  /\ LogicalBlocks \in Nat /\ FirstFree \subseteq 0 .. NumberOfBlocks
  /\ BastLimit \in Nat \ {0} /\ BastErases \in Nat
  BY SimulatorAssumption DEF B!FlashAssumption, B!BastAssumption

LEMMA PageOfBlock ==
  ASSUME NEW b \in Nat, NEW i \in B!Offsets
  PROVE  /\ B!Page(b, i) \in Nat
         /\ B!BlockOf(B!Page(b, i)) = b
         /\ B!Offset(B!Page(b, i)) = i
  BY ConfigFacts, SMT DEF B!Page, B!BlockOf, B!Offset, B!Offsets

LEMMA PageSplits ==
  ASSUME NEW p \in Nat
  PROVE  /\ B!BlockOf(p) \in Nat /\ B!Offset(p) \in B!Offsets
         /\ p = B!Page(B!BlockOf(p), B!Offset(p))
  BY ConfigFacts, SMT DEF B!Page, B!BlockOf, B!Offset, B!Offsets

LEMMA PageBound ==
  ASSUME NEW n \in Nat, NEW b \in Nat, NEW i \in B!Offsets
  PROVE  B!Page(b, i) \in 0 .. n * BlockSize - 1 <=> b < n
  BY ConfigFacts, SMT DEF B!Page, B!Offsets

(* All that is used of addresses from here on.                             *)
LEMMA Addresses ==
  /\ \A b \in B!Blocks, i \in B!Offsets :
       /\ B!Page(b, i) \in B!Pages
       /\ B!BlockOf(B!Page(b, i)) = b /\ B!Offset(B!Page(b, i)) = i
  /\ \A k \in B!Lbas, i \in B!Offsets :
       /\ B!Page(k, i) \in B!Lpns
       /\ B!BlockOf(B!Page(k, i)) = k /\ B!Offset(B!Page(k, i)) = i
  /\ \A p \in B!Pages : /\ B!BlockOf(p) \in B!Blocks /\ B!Offset(p) \in B!Offsets
                        /\ p = B!Page(B!BlockOf(p), B!Offset(p))
  /\ \A l \in B!Lpns : /\ B!BlockOf(l) \in B!Lbas /\ B!Offset(l) \in B!Offsets
                       /\ l = B!Page(B!BlockOf(l), B!Offset(l))
<1>1. /\ NumberOfBlocks \in Nat /\ LogicalBlocks \in Nat
      /\ \A b \in B!Blocks : b \in Nat /\ b < NumberOfBlocks
      /\ \A k \in B!Lbas : k \in Nat /\ k < LogicalBlocks
  BY ConfigFacts DEF B!Blocks, B!Lbas
<1>2. ASSUME NEW b \in B!Blocks, NEW i \in B!Offsets
      PROVE  /\ B!Page(b, i) \in B!Pages
             /\ B!BlockOf(B!Page(b, i)) = b /\ B!Offset(B!Page(b, i)) = i
  BY <1>1, PageOfBlock, PageBound DEF B!Pages
<1>3. ASSUME NEW k \in B!Lbas, NEW i \in B!Offsets
      PROVE  /\ B!Page(k, i) \in B!Lpns
             /\ B!BlockOf(B!Page(k, i)) = k /\ B!Offset(B!Page(k, i)) = i
  BY <1>1, PageOfBlock, PageBound DEF B!Lpns
<1>4. ASSUME NEW p \in B!Pages
      PROVE  /\ B!BlockOf(p) \in B!Blocks /\ B!Offset(p) \in B!Offsets
             /\ p = B!Page(B!BlockOf(p), B!Offset(p))
  <2>1. p \in Nat /\ p \in 0 .. NumberOfBlocks * BlockSize - 1
    BY <1>1, ConfigFacts DEF B!Pages
  <2>2. /\ B!BlockOf(p) \in Nat /\ B!Offset(p) \in B!Offsets
        /\ p = B!Page(B!BlockOf(p), B!Offset(p))
    BY <2>1, PageSplits
  <2>3. B!BlockOf(p) < NumberOfBlocks
    BY <1>1, <2>1, <2>2, PageBound
  <2> QED
    BY <1>1, <2>2, <2>3 DEF B!Blocks
<1>5. ASSUME NEW l \in B!Lpns
      PROVE  /\ B!BlockOf(l) \in B!Lbas /\ B!Offset(l) \in B!Offsets
             /\ l = B!Page(B!BlockOf(l), B!Offset(l))
  <2>1. l \in Nat /\ l \in 0 .. LogicalBlocks * BlockSize - 1
    BY <1>1, ConfigFacts DEF B!Lpns
  <2>2. /\ B!BlockOf(l) \in Nat /\ B!Offset(l) \in B!Offsets
        /\ l = B!Page(B!BlockOf(l), B!Offset(l))
    BY <2>1, PageSplits
  <2>3. B!BlockOf(l) < LogicalBlocks
    BY <1>1, <2>1, <2>2, PageBound
  <2> QED
    BY <1>1, <2>2, <2>3 DEF B!Lbas
<1> QED
  BY <1>2, <1>3, <1>4, <1>5

(* The pages of a block are those with its number.                         *)
LEMMA PagesOfBlock ==
  ASSUME NEW b \in B!Blocks
  PROVE  /\ B!PagesOf(b) \subseteq B!Pages
         /\ \A c \in B!Blocks, i \in B!Offsets : B!Page(c, i) \in B!PagesOf(b) <=> c = b
  BY Addresses DEF B!PagesOf

-----------------------------------------------------------------------------
(* The block manager.                                                      *)

SameFlash(r, s)  == r.state = s.state /\ r.data = s.data /\ r.pages_valid = s.pages_valid
SameLayer(r, s)  == r.data_list = s.data_list /\ r.log_map = s.log_map
SameLists(r, s)  ==
  r.first_free = s.first_free /\ r.current_free = s.current_free /\ r.free_list = s.free_list
SameCounts(r, s) == r.data_active = s.data_active /\ r.log_active = s.log_active
SameCall(r, s)   == r.asserted = s.asserted /\ r.got = s.got

(* Block b erased.                                                         *)
Erased(r, s, b) ==
  /\ \A c \in B!Blocks, i \in B!Offsets :
       /\ StateOf(r, c, i) = IF c = b THEN "EMPTY" ELSE StateOf(s, c, i)
       /\ DataOf(r, c, i) = IF c = b THEN -1 ELSE DataOf(s, c, i)
  /\ \A c \in B!Blocks : r.pages_valid[c] = IF c = b THEN 0 ELSE s.pages_valid[c]

(* The erases that are left of any blocks.                                 *)
LEMMA WearFacts ==
  ASSUME NEW s \in States, NEW bs
  PROVE  /\ B!Wear(s, bs) \in [B!Blocks -> 0 .. BastErases]
         /\ (s.worn_out \/ B!IsWornOut(s, bs)) \in BOOLEAN
<1>1. s.erases_remaining \in [B!Blocks -> 0 .. BastErases] /\ BastErases \in Nat
  BY ConfigFacts DEF States
<1> QED
  BY <1>1 DEF B!Wear

(* Block::_erase changes the pages of that block and nothing else but what *)
(* is left of its life.                                                    *)
LEMMA EraseFacts ==
  ASSUME NEW s \in States, NEW b \in B!Blocks
  PROVE  LET r == B!Erase(s, b)
         IN  /\ r \in States /\ Erased(r, s, b)
             /\ SameLayer(r, s) /\ SameLists(r, s) /\ SameCounts(r, s) /\ SameCall(r, s)
<1> DEFINE r == B!Erase(s, b)
<1>1. /\ r.state = [p \in B!Pages |-> IF p \in B!PagesOf(b) THEN "EMPTY" ELSE s.state[p]]
      /\ r.data = [p \in B!Pages |-> IF p \in B!PagesOf(b) THEN -1 ELSE s.data[p]]
      /\ r.pages_valid = [s.pages_valid EXCEPT ![b] = 0]
  BY DEF States, B!Erase, B!With, B!Junk
<1> DEFINE w == B!Wear(s, {b})
           o == s.worn_out \/ B!IsWornOut(s, {b})
<1>0. w \in [B!Blocks -> 0 .. BastErases] /\ o \in BOOLEAN
  BY WearFacts
<1>9. r = [s EXCEPT !.state = B!With(s.state, B!PagesOf(b), "EMPTY"),
                    !.data = B!With(s.data, B!PagesOf(b), B!Junk),
                    !.pages_valid = [s.pages_valid EXCEPT ![b] = 0],
                    !.erases_remaining = w, !.worn_out = o]
  BY DEF States, B!Erase
<1> HIDE DEF w, o
<1>2. r = [s EXCEPT !.state = r.state, !.data = r.data, !.pages_valid = r.pages_valid,
                    !.erases_remaining = w, !.worn_out = o]
  BY <1>9 DEF States
<1>3. r.state \in [B!Pages -> {"EMPTY", "VALID", "INVALID"}] /\ r.data \in [B!Pages -> B!Lpns \cup {-1}]
  BY <1>1 DEF States
<1>4. r.pages_valid \in [B!Blocks -> 0 .. BlockSize]
  BY <1>1, ConfigFacts DEF States
<1>5. r \in States
  BY <1>0, <1>2, <1>3, <1>4 DEF States
<1>6. ASSUME NEW c \in B!Blocks, NEW i \in B!Offsets
      PROVE  /\ StateOf(r, c, i) = IF c = b THEN "EMPTY" ELSE StateOf(s, c, i)
             /\ DataOf(r, c, i) = IF c = b THEN -1 ELSE DataOf(s, c, i)
  BY <1>1, Addresses, PagesOfBlock DEF StateOf, DataOf
<1>7. \A c \in B!Blocks : r.pages_valid[c] = IF c = b THEN 0 ELSE s.pages_valid[c]
  BY <1>1 DEF States
<1>8. SameLayer(r, s) /\ SameLists(r, s) /\ SameCounts(r, s) /\ SameCall(r, s)
  BY <1>2 DEF States, SameLayer, SameLists, SameCounts, SameCall
<1> QED
  BY <1>5, <1>6, <1>7, <1>8 DEF Erased

(* The counters: of data blocks and of logs.                               *)
LEMMA CountFacts ==
  ASSUME NEW s \in States, NEW type \in {"DATA", "LOG"}, NEW n \in Int
  PROVE  LET r == B!Count(s, type, n)
         IN  /\ r \in States
             /\ SameFlash(r, s) /\ SameLayer(r, s) /\ SameLists(r, s) /\ SameCall(r, s)
             /\ r.data_active = s.data_active + IF type = "DATA" THEN n ELSE 0
             /\ r.log_active = s.log_active + IF type = "LOG" THEN n ELSE 0
<1> DEFINE r == B!Count(s, type, n)
<1>1. r = IF type = "DATA" THEN [s EXCEPT !.data_active = @ + n]
          ELSE [s EXCEPT !.log_active = @ + n]
  BY DEF B!Count
<1> HIDE DEF r
<1>2. s.data_active \in Int /\ s.log_active \in Int
  BY DEF States
<1>3. ASSUME type = "DATA"
      PROVE  /\ r \in States
             /\ SameFlash(r, s) /\ SameLayer(r, s) /\ SameLists(r, s) /\ SameCall(r, s)
             /\ r.data_active = s.data_active + IF type = "DATA" THEN n ELSE 0
             /\ r.log_active = s.log_active + IF type = "LOG" THEN n ELSE 0
  <2>4. r = [s EXCEPT !.data_active = s.data_active + n] /\ s.data_active + n \in Int
    BY <1>1, <1>2, <1>3
  <2>1. r \in States
    BY <2>4 DEF States
  <2>2. r.data_active = s.data_active + n /\ r.log_active = s.log_active
    BY <2>4 DEF States
  <2>3. SameFlash(r, s) /\ SameLayer(r, s) /\ SameLists(r, s) /\ SameCall(r, s)
    BY <2>4 DEF States, SameFlash, SameLayer, SameLists, SameCall
  <2> QED
    BY <1>2, <1>3, <2>1, <2>2, <2>3
<1>4. ASSUME type = "LOG"
      PROVE  /\ r \in States
             /\ SameFlash(r, s) /\ SameLayer(r, s) /\ SameLists(r, s) /\ SameCall(r, s)
             /\ r.data_active = s.data_active + IF type = "DATA" THEN n ELSE 0
             /\ r.log_active = s.log_active + IF type = "LOG" THEN n ELSE 0
  <2>4. r = [s EXCEPT !.log_active = s.log_active + n] /\ s.log_active + n \in Int
    BY <1>1, <1>2, <1>4
  <2>1. r \in States
    BY <2>4 DEF States
  <2>2. r.log_active = s.log_active + n /\ r.data_active = s.data_active
    BY <2>4 DEF States
  <2>3. SameFlash(r, s) /\ SameLayer(r, s) /\ SameLists(r, s) /\ SameCall(r, s)
    BY <2>4 DEF States, SameFlash, SameLayer, SameLists, SameCall
  <2> QED
    BY <1>2, <1>4, <2>1, <2>2, <2>3
<1> QED
  BY <1>3, <1>4 DEF r

(* erase_and_invalidate: the erased block goes to the end of the free      *)
(* list.                                                                   *)
LEMMA EraseAndInvalidateFacts ==
  ASSUME NEW s \in States, NEW b \in B!Blocks, NEW type \in {"DATA", "LOG"}
  PROVE  LET r == B!EraseAndInvalidate(s, b, type)
         IN  /\ r \in States /\ Erased(r, s, b)
             /\ SameLayer(r, s) /\ SameCall(r, s)
             /\ r.first_free = s.first_free /\ r.current_free = s.current_free
             /\ r.free_list = Append(s.free_list, b)
             /\ r.data_active = s.data_active - IF type = "DATA" THEN 1 ELSE 0
             /\ r.log_active = s.log_active - IF type = "LOG" THEN 1 ELSE 0
<1> DEFINE e == B!Erase(s, b)
           u == [e EXCEPT !.free_list = Append(@, b)]
           r == B!EraseAndInvalidate(s, b, type)
<1>1. /\ e \in States /\ Erased(e, s, b)
      /\ SameLayer(e, s) /\ SameLists(e, s) /\ SameCounts(e, s) /\ SameCall(e, s)
  BY EraseFacts
<1>2. r = B!Count(u, type, -1)
  BY DEF B!EraseAndInvalidate
<1> HIDE DEF e
<1>3. Append(e.free_list, b) \in Seq(B!Blocks)
  BY <1>1, AppendProperties DEF States
<1>4. /\ u \in States
      /\ SameFlash(u, e) /\ SameLayer(u, e) /\ SameCounts(u, e) /\ SameCall(u, e)
      /\ u.first_free = e.first_free /\ u.current_free = e.current_free
      /\ u.free_list = Append(e.free_list, b)
  BY <1>1, <1>3 DEF States, SameFlash, SameLayer, SameCounts, SameCall
<1> HIDE DEF u, r
<1>5. /\ r \in States
      /\ SameFlash(r, u) /\ SameLayer(r, u) /\ SameLists(r, u) /\ SameCall(r, u)
      /\ r.data_active = u.data_active + IF type = "DATA" THEN -1 ELSE 0
      /\ r.log_active = u.log_active + IF type = "LOG" THEN -1 ELSE 0
  <2>1. -1 \in Int
    OBVIOUS
  <2> QED
    BY ONLY <1>2, <1>4, <2>1, CountFacts
<1>6. Erased(r, s, b)
  BY <1>1, <1>4, <1>5 DEF Erased, SameFlash, StateOf, DataOf
<1>7. u.data_active \in Int /\ u.log_active \in Int
  BY <1>4 DEF States
<1>8. /\ SameLayer(r, s) /\ SameCall(r, s)
      /\ r.first_free = s.first_free /\ r.current_free = s.current_free
      /\ r.free_list = Append(s.free_list, b)
      /\ r.data_active = s.data_active - IF type = "DATA" THEN 1 ELSE 0
      /\ r.log_active = s.log_active - IF type = "LOG" THEN 1 ELSE 0
  BY <1>1, <1>4, <1>5, <1>7 DEF SameLayer, SameLists, SameCounts, SameCall
<1> QED
  BY <1>5, <1>6, <1>8 DEF r

(* BAST keeps no list of invalid blocks, so that insert_events does        *)
(* nothing.                                                                *)
LEMMA InsertEventsIdle ==
  ASSUME NEW s \in States
  PROVE  LET r == B!InsertEvents(s)
         IN  /\ r \in States
             /\ SameFlash(r, s) /\ SameLayer(r, s) /\ SameLists(r, s) /\ SameCounts(r, s)
             /\ SameCall(r, s)
<1> DEFINE n   == IF Len(s.invalid_list) < 5 THEN Len(s.invalid_list) ELSE 5
           out == B!Reverse(SubSeq(s.invalid_list, Len(s.invalid_list) - n + 1, Len(s.invalid_list)))
           gone == UNION {B!PagesOf(b) : b \in B!Range(out)}
           w == B!Wear(s, B!Range(out))
           o == s.worn_out \/ B!IsWornOut(s, B!Range(out))
           r == B!EraseInvalid(s)
<1>1. s.invalid_list = << >> /\ s.free_list \in Seq(B!Blocks)
  BY DEF States
<1>2. n = 0 /\ SubSeq(s.invalid_list, Len(s.invalid_list) - n + 1, Len(s.invalid_list)) = << >>
      /\ SubSeq(s.invalid_list, 1, Len(s.invalid_list) - n) = << >>
  BY <1>1
<1>3. out = << >>
  <2>1. B!Reverse(<< >>) = [j \in 1 .. Len(<< >>) |-> << >>[Len(<< >>) - j + 1]]
    BY DEF B!Reverse
  <2>2. Len(<< >>) = 0
    OBVIOUS
  <2>3. 1 .. 0 = {}
    OBVIOUS
  <2>4. B!Reverse(<< >>) = << >>
    BY <2>1, <2>2, <2>3
  <2> QED
    BY <1>2, <2>4
<1>4. B!Range(out) = {} /\ gone = {}
  <2>1. B!Range(<< >>) = {<< >>[n_1] : n_1 \in DOMAIN << >>}
    BY DEF B!Range
  <2>2. DOMAIN << >> = {}
    OBVIOUS
  <2> QED
    BY <1>3, <2>1, <2>2
<1>5. r = [s EXCEPT !.state = B!With(@, gone, "EMPTY"),
                    !.data = B!With(@, gone, B!Junk),
                    !.pages_valid = B!With(@, B!Range(out), 0),
                    !.erases_remaining = w, !.worn_out = o,
                    !.free_list = @ \o out,
                    !.invalid_list = SubSeq(@, 1, Len(@) - n)]
  BY DEF B!EraseInvalid
<1>6. s.free_list \o out = s.free_list
  <2>1. \A q \in Seq(B!Blocks) : q \o << >> = q
    OBVIOUS
  <2> QED
    BY <1>1, <1>3, <2>1
<1>7. /\ B!With(s.state, gone, "EMPTY") = s.state /\ B!With(s.data, gone, B!Junk) = s.data
      /\ B!With(s.pages_valid, B!Range(out), 0) = s.pages_valid
  BY <1>4 DEF B!With, States
<1>8. SubSeq(s.invalid_list, 1, Len(s.invalid_list) - n) = s.invalid_list
  BY <1>1, <1>2
<1> HIDE DEF n, out, gone, w, o, r
<1>9. r = [s EXCEPT !.state = s.state, !.data = s.data, !.pages_valid = s.pages_valid,
                    !.erases_remaining = w, !.worn_out = o,
                    !.free_list = s.free_list, !.invalid_list = s.invalid_list]
  BY <1>5, <1>6, <1>7, <1>8
<1>14. w \in [B!Blocks -> 0 .. BastErases] /\ o \in BOOLEAN
  BY WearFacts DEF w, o
<1>10. r \in States
  BY <1>9, <1>14 DEF States
<1>11. /\ SameFlash(r, s) /\ SameLayer(r, s) /\ SameLists(r, s) /\ SameCounts(r, s)
       /\ SameCall(r, s)
  BY <1>9 DEF States, SameFlash, SameLayer, SameLists, SameCounts, SameCall
<1>12. CASE B!IsUsed(s)
  BY <1>10, <1>11, <1>12 DEF r, B!InsertEvents
<1>13. CASE ~B!IsUsed(s)
  BY <1>13 DEF B!InsertEvents, SameFlash, SameLayer, SameLists, SameCounts, SameCall
<1> QED
  BY <1>12, <1>13

(* get_page_block: the block it takes is free, and it is out of the free   *)
(* ones; with none free the assertion fails.                               *)
Taken(r, s) ==
  \/ /\ s.current_free < NumberOfBlocks /\ r.got = s.current_free
     /\ r.current_free = s.current_free + 1 /\ r.free_list = s.free_list
  \/ /\ s.current_free = NumberOfBlocks /\ s.free_list # << >>
     /\ r.current_free = s.current_free
     /\ r.got = Head(s.free_list) /\ r.free_list = Tail(s.free_list)

LEMMA TakeFreeFacts ==
  ASSUME NEW s \in States
  PROVE  LET r == B!TakeFree(s)
         IN  /\ r \in States
             /\ SameFlash(r, s) /\ SameLayer(r, s) /\ SameCounts(r, s)
             /\ r.first_free = s.first_free /\ r.current_free = s.current_free
             /\ s.free_list = << >> => ~r.asserted
             /\ s.free_list # << >> => /\ r.asserted = s.asserted
                                       /\ r.got = Head(s.free_list)
                                       /\ r.free_list = Tail(s.free_list)
<1> DEFINE r == B!TakeFree(s)
<1>1. CASE s.free_list = << >>
  <2>1. r = [s EXCEPT !.asserted = FALSE, !.got = 0]
    BY <1>1 DEF B!TakeFree
  <2>2. 0 \in B!Blocks
    BY ConfigFacts DEF B!Blocks
  <2> HIDE DEF r
  <2>3. /\ r \in States
        /\ SameFlash(r, s) /\ SameLayer(r, s) /\ SameCounts(r, s)
        /\ r.first_free = s.first_free /\ r.current_free = s.current_free
        /\ ~r.asserted
    BY <2>1, <2>2 DEF States, SameFlash, SameLayer, SameCounts
  <2> QED
    BY <1>1, <2>3 DEF r
<1>2. CASE s.free_list # << >>
  <2>1. r = [s EXCEPT !.got = Head(s.free_list), !.free_list = Tail(s.free_list), !.out_of_blocks = FALSE]
    BY <1>2 DEF B!TakeFree
  <2>2. s.free_list \in Seq(B!Blocks)
    BY DEF States
  <2>3. Head(s.free_list) \in B!Blocks /\ Tail(s.free_list) \in Seq(B!Blocks)
    BY <1>2, <2>2, HeadTailProperties
  <2> HIDE DEF r
  <2>4. /\ r \in States
        /\ SameFlash(r, s) /\ SameLayer(r, s) /\ SameCounts(r, s)
        /\ r.first_free = s.first_free /\ r.current_free = s.current_free
        /\ r.asserted = s.asserted
        /\ r.got = Head(s.free_list) /\ r.free_list = Tail(s.free_list)
    BY <2>1, <2>3 DEF States, SameFlash, SameLayer, SameCounts
  <2> QED
    BY <1>2, <2>4 DEF r
<1> QED
  BY <1>1, <1>2

LEMMA GetPageBlockFacts ==
  ASSUME NEW s \in States
  PROVE  LET r == B!GetPageBlock(s)
         IN  /\ r \in States
             /\ SameFlash(r, s) /\ SameLayer(r, s) /\ SameCounts(r, s)
             /\ r.first_free = s.first_free
             /\ r.asserted => s.asserted /\ Taken(r, s)
             /\ s.asserted /\ Free(s) # {} => r.asserted
<1> DEFINE r == B!GetPageBlock(s)
<1>1. s.current_free \in 0 .. NumberOfBlocks
  BY DEF States
<1>2. CASE s.current_free < NumberOfBlocks
  <2>1. r = [s EXCEPT !.got = s.current_free, !.current_free = s.current_free + 1]
    BY <1>2 DEF B!GetPageBlock
  <2>2. s.current_free \in B!Blocks /\ s.current_free + 1 \in 0 .. NumberOfBlocks
    BY <1>1, <1>2, ConfigFacts DEF B!Blocks
  <2> HIDE DEF r
  <2>3. /\ r \in States
        /\ SameFlash(r, s) /\ SameLayer(r, s) /\ SameCounts(r, s)
        /\ r.first_free = s.first_free /\ r.asserted = s.asserted
        /\ r.got = s.current_free /\ r.current_free = s.current_free + 1
        /\ r.free_list = s.free_list
    BY <2>1, <2>2 DEF States, SameFlash, SameLayer, SameCounts
  <2> QED
    BY <1>2, <2>3 DEF r, Taken
<1>3. CASE ~(s.current_free < NumberOfBlocks)
  <2> DEFINE o == [s EXCEPT !.out_of_blocks = TRUE]
             m == IF Len(s.free_list) <= 1 /\ ~s.out_of_blocks THEN B!InsertEvents(o) ELSE s
  <2>1. r = B!TakeFree(m)
    BY <1>3 DEF B!GetPageBlock
  <2>2. /\ o \in States
        /\ SameFlash(o, s) /\ SameLayer(o, s) /\ SameCounts(o, s) /\ SameLists(o, s)
        /\ SameCall(o, s)
    BY DEF States, SameFlash, SameLayer, SameCounts, SameLists, SameCall
  <2> HIDE DEF o
  <2>3. /\ B!InsertEvents(o) \in States
        /\ SameFlash(B!InsertEvents(o), o) /\ SameLayer(B!InsertEvents(o), o)
        /\ SameLists(B!InsertEvents(o), o)
        /\ SameCounts(B!InsertEvents(o), o) /\ SameCall(B!InsertEvents(o), o)
    BY <2>2, InsertEventsIdle
  <2>4. /\ m \in States
        /\ SameFlash(m, s) /\ SameLayer(m, s) /\ SameCounts(m, s) /\ SameLists(m, s)
        /\ SameCall(m, s)
    BY <2>2, <2>3 DEF SameFlash, SameLayer, SameCounts, SameLists, SameCall
  <2> HIDE DEF m, r
  <2>5. /\ r \in States
        /\ SameFlash(r, m) /\ SameLayer(r, m) /\ SameCounts(r, m)
        /\ r.first_free = m.first_free /\ r.current_free = m.current_free
        /\ m.free_list = << >> => ~r.asserted
        /\ m.free_list # << >> => /\ r.asserted = m.asserted
                                  /\ r.got = Head(m.free_list)
                                  /\ r.free_list = Tail(m.free_list)
    BY <2>1, <2>4, TakeFreeFacts
  <2>6. s.current_free = NumberOfBlocks
    BY <1>1, <1>3, ConfigFacts
  <2>7. s.free_list = << >> => Free(s) = {}
    BY <2>6, ConfigFacts DEF Free, Listed
  <2>8. /\ r \in States
        /\ SameFlash(r, s) /\ SameLayer(r, s) /\ SameCounts(r, s)
        /\ r.first_free = s.first_free
        /\ r.asserted => s.asserted /\ Taken(r, s)
        /\ s.asserted /\ Free(s) # {} => r.asserted
    BY <2>4, <2>5, <2>6, <2>7 DEF SameFlash, SameLayer, SameCounts, SameLists, SameCall, Taken
  <2> QED
    BY <2>8 DEF r
<1> QED
  BY <1>2, <1>3

(* The same for get_free_block, which also counts the block.               *)
LEMMA GetFreeBlockFacts ==
  ASSUME NEW s \in States, NEW type \in {"DATA", "LOG"}
  PROVE  LET r == B!GetFreeBlock(s, type)
         IN  /\ r \in States
             /\ SameFlash(r, s) /\ SameLayer(r, s)
             /\ r.first_free = s.first_free
             /\ r.data_active = s.data_active + IF type = "DATA" THEN 1 ELSE 0
             /\ r.log_active = s.log_active + IF type = "LOG" THEN 1 ELSE 0
             /\ r.asserted => s.asserted /\ Taken(r, s)
             /\ s.asserted /\ Free(s) # {} => r.asserted
<1> DEFINE t == B!GetPageBlock(s)
           r == B!GetFreeBlock(s, type)
<1>1. r = B!Count(t, type, 1)
  BY DEF B!GetFreeBlock
<1> HIDE DEF t, r
<1>2. /\ t \in States
      /\ SameFlash(t, s) /\ SameLayer(t, s) /\ SameCounts(t, s)
      /\ t.first_free = s.first_free
      /\ t.asserted => s.asserted /\ Taken(t, s)
      /\ s.asserted /\ Free(s) # {} => t.asserted
  BY GetPageBlockFacts DEF t
<1>3. /\ r \in States
      /\ SameFlash(r, t) /\ SameLayer(r, t) /\ SameLists(r, t) /\ SameCall(r, t)
      /\ r.data_active = t.data_active + IF type = "DATA" THEN 1 ELSE 0
      /\ r.log_active = t.log_active + IF type = "LOG" THEN 1 ELSE 0
  <2>1. 1 \in Int
    OBVIOUS
  <2> QED
    BY ONLY <1>1, <1>2, <2>1, CountFacts
<1>4. r.asserted => s.asserted /\ Taken(r, s)
  BY <1>2, <1>3 DEF SameCall, SameLists, Taken
<1>5. s.asserted /\ Free(s) # {} => r.asserted
  BY <1>2, <1>3 DEF SameCall
<1>6. SameFlash(r, s) /\ SameLayer(r, s) /\ r.first_free = s.first_free
  BY <1>2, <1>3 DEF SameFlash, SameLayer, SameLists
<1>7. /\ r.data_active = s.data_active + IF type = "DATA" THEN 1 ELSE 0
      /\ r.log_active = s.log_active + IF type = "LOG" THEN 1 ELSE 0
  BY <1>2, <1>3 DEF SameCounts
<1> QED
  BY <1>3, <1>4, <1>5, <1>6, <1>7 DEF r

-----------------------------------------------------------------------------
(* Owners.                                                                 *)

(* A block that was taken is no longer free, and the others are free once. *)
LEMMA FreeTaken ==
  ASSUME NEW s \in States, NEW r \in States, Taken(r, s),
         \A m, n \in DOMAIN s.free_list : s.free_list[m] = s.free_list[n] => m = n,
         \A b \in Listed(s) : b < s.current_free
  PROVE  /\ r.got \in B!Blocks
         /\ Free(s) = Free(r) \cup {r.got}
         /\ r.got \notin Free(r)
         /\ \A m, n \in DOMAIN r.free_list : r.free_list[m] = r.free_list[n] => m = n
         /\ \A b \in Listed(r) : b < r.current_free
         /\ s.current_free <= r.current_free
<1>0. /\ s.current_free \in 0 .. NumberOfBlocks /\ s.free_list \in Seq(B!Blocks)
      /\ NumberOfBlocks \in Nat
      /\ \A b \in Listed(s) : b \in B!Blocks /\ b \in Nat
  <2>1. s.current_free \in 0 .. NumberOfBlocks /\ s.free_list \in Seq(B!Blocks)
    BY DEF States
  <2>2. \A n \in DOMAIN s.free_list : s.free_list[n] \in B!Blocks
    BY <2>1
  <2>3. \A b \in B!Blocks : b \in Nat
    BY ConfigFacts DEF B!Blocks
  <2> QED
    BY <2>1, <2>2, <2>3, ConfigFacts DEF Listed
<1>1. ASSUME s.current_free < NumberOfBlocks, r.got = s.current_free,
             r.current_free = s.current_free + 1, r.free_list = s.free_list
      PROVE  /\ r.got \in B!Blocks
             /\ Free(s) = Free(r) \cup {r.got}
             /\ r.got \notin Free(r)
             /\ \A m, n \in DOMAIN r.free_list : r.free_list[m] = r.free_list[n] => m = n
             /\ \A b \in Listed(r) : b < r.current_free
             /\ s.current_free <= r.current_free
  <2>1. Listed(r) = Listed(s)
    BY <1>1 DEF Listed
  <2>2. s.current_free .. NumberOfBlocks - 1 = (r.current_free .. NumberOfBlocks - 1) \cup {r.got}
    BY <1>0, <1>1
  <2> QED
    BY <1>0, <1>1, <2>1, <2>2 DEF Free, B!Blocks
<1>2. ASSUME s.current_free = NumberOfBlocks, s.free_list # << >>,
             r.current_free = s.current_free,
             r.got = Head(s.free_list), r.free_list = Tail(s.free_list)
      PROVE  /\ r.got \in B!Blocks
             /\ Free(s) = Free(r) \cup {r.got}
             /\ r.got \notin Free(r)
             /\ \A m, n \in DOMAIN r.free_list : r.free_list[m] = r.free_list[n] => m = n
             /\ \A b \in Listed(r) : b < r.current_free
             /\ s.current_free <= r.current_free
  <2> DEFINE q == s.free_list
             t == r.free_list
  <2>1. /\ Len(q) \in Nat \ {0} /\ DOMAIN q = 1 .. Len(q) /\ r.got = q[1] /\ r.got \in B!Blocks
        /\ t \in Seq(B!Blocks) /\ Len(t) = Len(q) - 1 /\ DOMAIN t = 1 .. Len(t)
        /\ \A n \in 1 .. Len(t) : t[n] = q[n + 1]
    BY <1>0, <1>2, HeadTailProperties
  <2>2. Listed(s) = Listed(r) \cup {r.got}
    <3>1. ASSUME NEW n \in DOMAIN q PROVE q[n] \in Listed(r) \cup {r.got}
      <4>1. CASE n = 1
        BY <2>1, <4>1
      <4>2. CASE n # 1
        <5>1. n - 1 \in DOMAIN t /\ t[n - 1] = q[n]
          BY <2>1, <4>2
        <5> QED
          BY <5>1 DEF Listed
      <4> QED
        BY <4>1, <4>2
    <3>2. ASSUME NEW n \in DOMAIN t PROVE t[n] \in Listed(s)
      <4>1. n + 1 \in DOMAIN q /\ t[n] = q[n + 1]
        BY <2>1
      <4> QED
        BY <4>1 DEF Listed
    <3>3. r.got \in Listed(s)
      BY <2>1 DEF Listed
    <3> QED
      BY <3>1, <3>2, <3>3 DEF Listed
  <2>3. r.got \notin Listed(r)
    <3> SUFFICES ASSUME NEW n \in DOMAIN t, t[n] = r.got PROVE FALSE
      BY DEF Listed
    <3>1. n + 1 \in DOMAIN q /\ q[n + 1] = q[1] /\ 1 \in DOMAIN q /\ n + 1 # 1
      BY <2>1
    <3> QED
      BY <3>1
  <2>4. \A m, n \in DOMAIN t : t[m] = t[n] => m = n
    <3> SUFFICES ASSUME NEW m \in DOMAIN t, NEW n \in DOMAIN t, t[m] = t[n] PROVE m = n
      OBVIOUS
    <3>0. m \in 1 .. Len(t) /\ n \in 1 .. Len(t)
      BY <2>1
    <3>1. m + 1 \in DOMAIN q /\ n + 1 \in DOMAIN q
      BY <2>1, <3>0
    <3>2. q[m + 1] = q[n + 1]
      BY <2>1, <3>0
    <3>3. m + 1 = n + 1
      BY <3>1, <3>2
    <3> QED
      BY <2>1, <3>0, <3>3
  <2>5. s.current_free .. NumberOfBlocks - 1 = {}
    BY <1>0, <1>2
  <2>6. Free(s) = Listed(s) /\ Free(r) = Listed(r)
    BY <1>2, <2>5 DEF Free
  <2> QED
    BY <1>0, <1>2, <2>1, <2>2, <2>3, <2>4, <2>6
<1> QED
  BY <1>1, <1>2 DEF Taken

(* A block given back is free once if it was not free before.              *)
LEMMA FreeAppended ==
  ASSUME NEW s \in States, NEW r \in States, NEW b \in B!Blocks,
         r.free_list = Append(s.free_list, b), r.current_free = s.current_free,
         b \notin Free(s),
         \A m, n \in DOMAIN s.free_list : s.free_list[m] = s.free_list[n] => m = n,
         \A c \in Listed(s) : c < s.current_free
  PROVE  /\ Free(r) = Free(s) \cup {b}
         /\ \A m, n \in DOMAIN r.free_list : r.free_list[m] = r.free_list[n] => m = n
         /\ \A c \in Listed(r) : c < r.current_free
<1> DEFINE q == s.free_list
           t == r.free_list
<1>1. /\ s.current_free \in 0 .. NumberOfBlocks /\ q \in Seq(B!Blocks)
      /\ NumberOfBlocks \in Nat /\ b \in Nat /\ b < NumberOfBlocks
  BY ConfigFacts DEF States, B!Blocks
<1>2. /\ Len(q) \in Nat /\ DOMAIN q = 1 .. Len(q)
      /\ t \in Seq(B!Blocks) /\ Len(t) = Len(q) + 1 /\ DOMAIN t = 1 .. Len(t)
      /\ \A n \in 1 .. Len(q) : t[n] = q[n]
      /\ t[Len(q) + 1] = b
  BY <1>1, AppendProperties
<1> HIDE DEF q, t
<1>3. Listed(s) = {q[n] : n \in DOMAIN q} /\ Listed(r) = {t[n] : n \in DOMAIN t}
  BY DEF Listed, q, t
<1>4. Listed(r) = Listed(s) \cup {b}
  <2>1. ASSUME NEW n \in DOMAIN t PROVE t[n] \in Listed(s) \cup {b}
    <3>1. n \in 1 .. Len(q) \/ n = Len(q) + 1
      BY <1>2
    <3> QED
      BY <1>2, <1>3, <3>1
  <2>2. ASSUME NEW n \in DOMAIN q PROVE q[n] \in Listed(r)
    <3>1. n \in DOMAIN t /\ t[n] = q[n]
      BY <1>2
    <3> QED
      BY <1>3, <3>1
  <2>3. b \in Listed(r)
    <3>1. Len(q) + 1 \in DOMAIN t
      BY <1>2
    <3> QED
      BY <1>2, <1>3, <3>1
  <2> QED
    BY <1>3, <2>1, <2>2, <2>3
<1>5. Free(r) = Free(s) \cup {b}
  BY <1>4 DEF Free
<1>6. b < s.current_free
  BY <1>1 DEF Free
<1>7. b \notin Listed(s)
  BY DEF Free
<1>8. \A m, n \in DOMAIN t : t[m] = t[n] => m = n
  <2> SUFFICES ASSUME NEW m \in DOMAIN t, NEW n \in DOMAIN t, t[m] = t[n] PROVE m = n
    OBVIOUS
  <2>1. (m \in DOMAIN q \/ m = Len(q) + 1) /\ (n \in DOMAIN q \/ n = Len(q) + 1)
    BY <1>2
  <2>2. \A j \in DOMAIN q : t[j] = q[j] /\ q[j] # b
    BY <1>2, <1>3, <1>7
  <2>3. \A i, j \in DOMAIN q : q[i] = q[j] => i = j
    BY DEF q
  <2> QED
    BY <1>2, <2>1, <2>2, <2>3
<1>9. \A c \in Listed(r) : c < r.current_free
  BY <1>4, <1>6
<1> QED
  BY <1>5, <1>8, <1>9 DEF t

(* Addresses of logs: -1 stands for no log as for no data block.           *)
LEMMA LogFacts ==
  ASSUME NEW s \in States, NEW k \in B!Lbas
  PROVE  /\ s.data_list[k] \in B!Blocks \cup {-1}
         /\ Address(s, k) \in B!Blocks \cup {-1}
         /\ B!HasLog(s, k) <=> Address(s, k) # -1
         /\ B!HasLog(s, k) => /\ Address(s, k) \in B!Blocks
                              /\ s.log_map[k].pages \in [B!Offsets -> B!Offsets \cup {-1}]
         /\ B!HasData(s, k) <=> s.data_list[k] # -1
         /\ B!HasData(s, k) => s.data_list[k] \in B!Blocks
         /\ k \in B!Logs(s) <=> B!HasLog(s, k)
         /\ k \in DataLbas(s) <=> B!HasData(s, k)
         /\ -1 \notin B!Blocks
<1>1. s.log_map[k] \in LogEntries /\ s.data_list[k] \in B!Blocks \cup {-1}
  BY DEF States
<1>2. -1 \notin B!Blocks
  BY ConfigFacts DEF B!Blocks
<1>3. B!NoLog.address = -1
  BY DEF B!NoLog, B!NoBlock
<1>4. CASE s.log_map[k] = B!NoLog
  BY <1>1, <1>2, <1>3, <1>4 DEF Address, B!HasLog, B!HasData, B!Logs, DataLbas, B!NoBlock
<1>5. CASE s.log_map[k] # B!NoLog
  <2>1. s.log_map[k] \in [address : B!Blocks, pages : [B!Offsets -> B!Offsets \cup {-1}]]
    BY <1>1, <1>5 DEF LogEntries
  <2>2. Address(s, k) \in B!Blocks /\ s.log_map[k].pages \in [B!Offsets -> B!Offsets \cup {-1}]
    BY <2>1 DEF Address
  <2> QED
    BY <1>1, <1>2, <1>5, <2>2 DEF B!HasLog, B!HasData, B!Logs, DataLbas, B!NoBlock
<1> QED
  BY <1>4, <1>5

(* The blocks of logical block k.                                          *)
OwnedBy(s, k) == {s.data_list[k], Address(s, k)} \ {-1}

(* When only logical block k changes hands with what is free and at hand,  *)
(* and every block that was one of them is still just one of them, every   *)
(* block has one owner again.                                              *)
LEMMA OwnersMoved ==
  ASSUME NEW s \in States, NEW r \in States, NEW k \in B!Lbas,
         NEW hand, NEW freed, NEW left,
         Owned(s, hand),
         \A j \in B!Lbas \ {k} : r.data_list[j] = s.data_list[j] /\ r.log_map[j] = s.log_map[j],
         r.first_free = s.first_free, r.current_free = s.current_free,
         Free(r) = Free(s) \cup freed,
         \A m, n \in DOMAIN r.free_list : r.free_list[m] = r.free_list[n] => m = n,
         \A c \in Listed(r) : c < r.current_free,
         OwnedBy(s, k) \cup hand = OwnedBy(r, k) \cup left \cup freed,
         freed \cap OwnedBy(r, k) = {}, left \cap OwnedBy(r, k) = {}, left \cap freed = {},
         r.data_list[k] # -1 => r.data_list[k] # Address(r, k)
  PROVE  Owned(r, left)
<1>1. \A j \in B!Lbas : /\ j \in DataLbas(s) <=> s.data_list[j] # -1
                        /\ j \in DataLbas(r) <=> r.data_list[j] # -1
                        /\ j \in B!Logs(s) <=> Address(s, j) # -1
                        /\ j \in B!Logs(r) <=> Address(r, j) # -1
  BY LogFacts
<1>2. /\ DataLbas(s) \subseteq B!Lbas /\ DataLbas(r) \subseteq B!Lbas
      /\ B!Logs(s) \subseteq B!Lbas /\ B!Logs(r) \subseteq B!Lbas
  BY DEF DataLbas, B!Logs
<1>3. \A j \in B!Lbas \ {k} : r.data_list[j] = s.data_list[j] /\ Address(r, j) = Address(s, j)
  BY DEF Address
<1> DEFINE old == OwnedBy(s, k) \cup hand
           new == OwnedBy(r, k)
<1>4. ASSUME NEW j \in B!Lbas \ {k}
      PROVE  /\ s.data_list[j] # -1 => s.data_list[j] \notin old
             /\ Address(s, j) # -1 => Address(s, j) \notin old
  BY <1>1 DEF OwnedBy, Owned
<1>5. \A c \in OwnedBy(s, k) \cup hand : c \notin Free(s)
  BY <1>1 DEF OwnedBy, Owned
<1>6. /\ r.data_list[k] # -1 => r.data_list[k] \in old /\ r.data_list[k] \notin left \cup freed
      /\ Address(r, k) # -1 => Address(r, k) \in old /\ Address(r, k) \notin left \cup freed
      /\ left \subseteq old /\ freed \subseteq old
  BY DEF OwnedBy
<1>7. \A j, i \in DataLbas(r) : r.data_list[j] = r.data_list[i] => j = i
  <2> SUFFICES ASSUME NEW j \in DataLbas(r), NEW i \in DataLbas(r),
                      r.data_list[j] = r.data_list[i]
               PROVE  j = i
    OBVIOUS
  <2>1. CASE j # k /\ i # k
    BY <1>1, <1>2, <1>3, <2>1 DEF Owned
  <2>2. CASE j = k \/ i = k
    BY <1>1, <1>2, <1>3, <1>4, <1>6, <2>2
  <2> QED
    BY <2>1, <2>2
<1>8. \A j, i \in B!Logs(r) : Address(r, j) = Address(r, i) => j = i
  <2> SUFFICES ASSUME NEW j \in B!Logs(r), NEW i \in B!Logs(r), Address(r, j) = Address(r, i)
               PROVE  j = i
    OBVIOUS
  <2>1. CASE j # k /\ i # k
    BY <1>1, <1>2, <1>3, <2>1 DEF Owned
  <2>2. CASE j = k \/ i = k
    BY <1>1, <1>2, <1>3, <1>4, <1>6, <2>2
  <2> QED
    BY <2>1, <2>2
<1>9. \A j \in DataLbas(r), i \in B!Logs(r) : r.data_list[j] # Address(r, i)
  <2> SUFFICES ASSUME NEW j \in DataLbas(r), NEW i \in B!Logs(r),
                      r.data_list[j] = Address(r, i)
               PROVE  FALSE
    OBVIOUS
  <2>1. CASE j # k /\ i # k
    BY <1>1, <1>2, <1>3, <2>1 DEF Owned
  <2>2. CASE j = k /\ i = k
    BY <1>1, <1>2, <2>2
  <2>3. CASE j = k /\ i # k
    BY <1>1, <1>2, <1>3, <1>4, <1>6, <2>3
  <2>4. CASE j # k /\ i = k
    BY <1>1, <1>2, <1>3, <1>4, <1>6, <2>4
  <2> QED
    BY <2>1, <2>2, <2>3, <2>4
<1>10. \A j \in DataLbas(r) : r.data_list[j] \notin Free(r) \cup left
  <2> SUFFICES ASSUME NEW j \in DataLbas(r) PROVE r.data_list[j] \notin Free(r) \cup left
    OBVIOUS
  <2>1. CASE j # k
    BY <1>1, <1>2, <1>3, <1>4, <1>6, <2>1 DEF Owned
  <2>2. CASE j = k
    BY <1>1, <1>2, <1>5, <1>6, <2>2
  <2> QED
    BY <2>1, <2>2
<1>11. \A j \in B!Logs(r) : Address(r, j) \notin Free(r) \cup left
  <2> SUFFICES ASSUME NEW j \in B!Logs(r) PROVE Address(r, j) \notin Free(r) \cup left
    OBVIOUS
  <2>1. CASE j # k
    BY <1>1, <1>2, <1>3, <1>4, <1>6, <2>1 DEF Owned
  <2>2. CASE j = k
    BY <1>1, <1>2, <1>5, <1>6, <2>2
  <2> QED
    BY <2>1, <2>2
<1>12. left \cap Free(r) = {}
  BY <1>5, <1>6
<1>13. r.first_free <= r.current_free
  BY DEF Owned
<1>14. ASSUME NEW b \in B!Blocks
       PROVE  r.first_free <= b <=> \/ \E j \in DataLbas(r) : r.data_list[j] = b
                                    \/ \E j \in B!Logs(r) : Address(r, j) = b
                                    \/ b \in Free(r) \cup left
  <2>1. b # -1
    BY ConfigFacts DEF B!Blocks
  <2>2. s.first_free <= b <=> \/ \E j \in B!Lbas \ {k} : s.data_list[j] = b
                              \/ \E j \in B!Lbas \ {k} : Address(s, j) = b
                              \/ b \in Free(s)
                              \/ b \in OwnedBy(s, k) \cup hand
    BY <1>1, <1>2, <2>1 DEF Owned, OwnedBy
  <2>3. (\/ \E j \in DataLbas(r) : r.data_list[j] = b
         \/ \E j \in B!Logs(r) : Address(r, j) = b
         \/ b \in Free(r) \cup left)
        <=> \/ \E j \in B!Lbas \ {k} : r.data_list[j] = b
            \/ \E j \in B!Lbas \ {k} : Address(r, j) = b
            \/ b \in Free(s)
            \/ b \in OwnedBy(r, k) \cup left \cup freed
    BY <1>1, <1>2, <2>1 DEF OwnedBy
  <2> QED
    BY <1>3, <2>2, <2>3
<1> QED
  BY <1>7, <1>8, <1>9, <1>10, <1>11, <1>12, <1>13, <1>14 DEF Owned

(* Between taking a block and using it the block is at hand, and at no     *)
(* other place.                                                            *)
LEMMA OwnedTaken ==
  ASSUME NEW s \in States, NEW r \in States, Owned(s, {}), Taken(r, s),
         SameLayer(r, s), r.first_free = s.first_free
  PROVE  Owned(r, {r.got}) /\ Free(s) = Free(r) \cup {r.got} /\ r.got \in B!Blocks
<1>1. /\ r.got \in B!Blocks
      /\ Free(s) = Free(r) \cup {r.got}
      /\ r.got \notin Free(r)
      /\ \A m, n \in DOMAIN r.free_list : r.free_list[m] = r.free_list[n] => m = n
      /\ \A b \in Listed(r) : b < r.current_free
      /\ s.current_free <= r.current_free
  BY FreeTaken DEF Owned
<1>2. /\ DataLbas(r) = DataLbas(s) /\ B!Logs(r) = B!Logs(s)
      /\ \A k \in B!Lbas : r.data_list[k] = s.data_list[k] /\ Address(r, k) = Address(s, k)
  BY DEF SameLayer, DataLbas, B!Logs, B!HasData, B!HasLog, Address
<1>3. DataLbas(r) \subseteq B!Lbas /\ B!Logs(r) \subseteq B!Lbas
  BY DEF DataLbas, B!Logs
<1>4. r.first_free <= r.current_free
  <2>1. /\ s.first_free \in 0 .. NumberOfBlocks /\ s.current_free \in 0 .. NumberOfBlocks
        /\ r.current_free \in 0 .. NumberOfBlocks /\ s.first_free <= s.current_free
    BY DEF States, Owned
  <2> QED
    BY <1>1, <2>1, ConfigFacts
<1> QED
  BY <1>1, <1>2, <1>3, <1>4 DEF Owned

(* An injective function maps a set to one of the same size.               *)
LEMMA ImageCount ==
  ASSUME NEW S, NEW T, NEW f \in [S -> T], IsFiniteSet(S)
  PROVE  LET image == {f[x] : x \in S}
         IN  /\ IsFiniteSet(image) /\ Cardinality(image) <= Cardinality(S)
             /\ (\A x, y \in S : f[x] = f[y] => x = y) => Cardinality(image) = Cardinality(S)
<1> DEFINE image == {f[x] : x \in S}
<1>1. f \in Surjection(S, image)
  BY DEF Surjection
<1>2. /\ IsFiniteSet(image) /\ Cardinality(image) <= Cardinality(S)
      /\ Cardinality(image) = Cardinality(S) <=> f \in Injection(S, image)
  BY <1>1, FS_Surjection
<1>3. ASSUME \A x, y \in S : f[x] = f[y] => x = y
      PROVE  Cardinality(image) = Cardinality(S)
  <2>1. f \in [S -> image]
    OBVIOUS
  <2>2. f \in Injection(S, image)
    BY <1>3, <2>1 DEF Injection, IsInjective
  <2> QED
    BY <1>2, <2>2
<1> QED
  BY <1>2, <1>3

(* The logical blocks, and those with a data block or a log, can be        *)
(* counted.                                                                *)
LEMMA LbaSets ==
  /\ IsFiniteSet(B!Lbas) /\ Cardinality(B!Lbas) = LogicalBlocks
  /\ \A s : /\ DataLbas(s) \subseteq B!Lbas /\ B!Logs(s) \subseteq B!Lbas
            /\ IsFiniteSet(DataLbas(s)) /\ IsFiniteSet(B!Logs(s))
            /\ Cardinality(DataLbas(s)) \in Nat /\ Cardinality(B!Logs(s)) \in Nat
            /\ Cardinality(DataLbas(s)) <= LogicalBlocks
<1>1. IsFiniteSet(B!Lbas) /\ Cardinality(B!Lbas) = LogicalBlocks
  <2>1. 0 \in Int /\ LogicalBlocks - 1 \in Int
    BY ConfigFacts
  <2>2. IsFiniteSet(0 .. LogicalBlocks - 1)
        /\ Cardinality(0 .. LogicalBlocks - 1)
             = IF 0 > LogicalBlocks - 1 THEN 0 ELSE LogicalBlocks - 1 - 0 + 1
    BY <2>1, FS_Interval
  <2> QED
    BY <2>2, ConfigFacts DEF B!Lbas
<1> SUFFICES ASSUME NEW s
             PROVE  /\ DataLbas(s) \subseteq B!Lbas /\ B!Logs(s) \subseteq B!Lbas
                    /\ IsFiniteSet(DataLbas(s)) /\ IsFiniteSet(B!Logs(s))
                    /\ Cardinality(DataLbas(s)) \in Nat /\ Cardinality(B!Logs(s)) \in Nat
                    /\ Cardinality(DataLbas(s)) <= LogicalBlocks
  BY <1>1
<1>2. DataLbas(s) \subseteq B!Lbas /\ B!Logs(s) \subseteq B!Lbas
  BY DEF DataLbas, B!Logs
<1>3. IsFiniteSet(DataLbas(s)) /\ Cardinality(DataLbas(s)) <= LogicalBlocks
  BY <1>1, <1>2, FS_Subset
<1>4. IsFiniteSet(B!Logs(s))
  BY <1>1, <1>2, FS_Subset
<1> QED
  BY <1>2, <1>3, <1>4, FS_CardinalityType

(* With the room that HasRoom asks for, a free block is there when one is  *)
(* needed.                                                                 *)
LEMMA RoomLeft ==
  ASSUME NEW s \in States, Owned(s, {}), Cardinality(B!Logs(s)) <= BastLimit, Room(s)
  PROVE  Free(s) # {}
<1> SUFFICES ASSUME Free(s) = {} PROVE FALSE
  OBVIOUS
<1> DEFINE data == {s.data_list[k] : k \in DataLbas(s)}
           dl == [k \in DataLbas(s) |-> s.data_list[k]]
           logs == {Address(s, k) : k \in B!Logs(s)}
           ll == [k \in B!Logs(s) |-> Address(s, k)]
           used == s.first_free .. NumberOfBlocks - 1
<1>1. IsFiniteSet(data) /\ Cardinality(data) <= LogicalBlocks /\ Cardinality(data) \in Nat
  <2>1. IsFiniteSet(DataLbas(s)) /\ Cardinality(DataLbas(s)) <= LogicalBlocks
        /\ Cardinality(DataLbas(s)) \in Nat
    BY LbaSets
  <2>2. dl \in [DataLbas(s) -> data] /\ data = {dl[k] : k \in DataLbas(s)}
    OBVIOUS
  <2> HIDE DEF dl, data
  <2>3. IsFiniteSet(data) /\ Cardinality(data) <= Cardinality(DataLbas(s))
    BY <2>1, <2>2, ImageCount
  <2>4. Cardinality(data) \in Nat
    BY <2>3, FS_CardinalityType
  <2> QED
    BY <2>1, <2>3, <2>4, ConfigFacts
<1>2. IsFiniteSet(logs) /\ Cardinality(logs) <= BastLimit /\ Cardinality(logs) \in Nat
  <2>1. IsFiniteSet(B!Logs(s)) /\ Cardinality(B!Logs(s)) \in Nat
    BY LbaSets
  <2>2. ll \in [B!Logs(s) -> logs] /\ logs = {ll[k] : k \in B!Logs(s)}
    OBVIOUS
  <2> HIDE DEF ll, logs
  <2>3. IsFiniteSet(logs) /\ Cardinality(logs) <= Cardinality(B!Logs(s))
    BY <2>1, <2>2, ImageCount
  <2>4. Cardinality(logs) \in Nat
    BY <2>3, FS_CardinalityType
  <2> QED
    BY <2>1, <2>3, <2>4, ConfigFacts
<1>3. used \subseteq data \cup logs
  <2> SUFFICES ASSUME NEW b \in used PROVE b \in data \cup logs
    OBVIOUS
  <2>1. b \in B!Blocks /\ s.first_free <= b
    <3>1. s.first_free \in 0 .. NumberOfBlocks
      BY DEF States
    <3> QED
      BY <3>1, ConfigFacts DEF B!Blocks
  <2> QED
    BY <2>1 DEF Owned
<1>4. Cardinality(used) = NumberOfBlocks - s.first_free
  <2>1. s.first_free \in 0 .. NumberOfBlocks /\ s.first_free \in Int /\ NumberOfBlocks - 1 \in Int
    BY ConfigFacts DEF States
  <2>2. Cardinality(used)
          = IF s.first_free > NumberOfBlocks - 1 THEN 0 ELSE NumberOfBlocks - 1 - s.first_free + 1
    BY <2>1, FS_Interval
  <2> HIDE DEF used
  <2> QED
    BY <2>1, <2>2, ConfigFacts
<1> HIDE DEF data, logs, used
<1>5. /\ IsFiniteSet(data \cup logs)
      /\ Cardinality(data \cup logs)
           = Cardinality(data) + Cardinality(logs) - Cardinality(data \cap logs)
  BY <1>1, <1>2, FS_Union
<1>6. Cardinality(data \cap logs) \in Nat
  BY <1>1, FS_Intersection, FS_CardinalityType
<1>7. Cardinality(used) <= Cardinality(data \cup logs)
  BY <1>3, <1>5, FS_Subset
<1>8. s.first_free \in 0 .. NumberOfBlocks
  BY DEF States
<1> QED
  BY <1>1, <1>2, <1>4, <1>5, <1>6, <1>7, <1>8, ConfigFacts DEF Room

(* How the counts change with what logical block k has.                    *)
LEMMA CountMoved ==
  ASSUME NEW s \in States, NEW r \in States, NEW k \in B!Lbas,
         \A j \in B!Lbas \ {k} : r.data_list[j] = s.data_list[j] /\ r.log_map[j] = s.log_map[j]
  PROVE  /\ Cardinality(DataLbas(r)) + (IF B!HasData(s, k) THEN 1 ELSE 0)
              = Cardinality(DataLbas(s)) + (IF B!HasData(r, k) THEN 1 ELSE 0)
         /\ Cardinality(B!Logs(r)) + (IF B!HasLog(s, k) THEN 1 ELSE 0)
              = Cardinality(B!Logs(s)) + (IF B!HasLog(r, k) THEN 1 ELSE 0)
<1>1. DataLbas(r) \ {k} = DataLbas(s) \ {k} /\ B!Logs(r) \ {k} = B!Logs(s) \ {k}
  BY DEF DataLbas, B!Logs, B!HasData, B!HasLog
<1>2. ASSUME NEW S, IsFiniteSet(S)
      PROVE  Cardinality(S \ {k}) = (IF k \in S THEN Cardinality(S) - 1 ELSE Cardinality(S))
             /\ Cardinality(S) \in Nat
  BY <1>2, FS_RemoveElement, FS_CardinalityType
<1>3. /\ Cardinality(DataLbas(r)) \in Nat /\ Cardinality(DataLbas(s)) \in Nat
      /\ Cardinality(B!Logs(r)) \in Nat /\ Cardinality(B!Logs(s)) \in Nat
      /\ Cardinality(DataLbas(r) \ {k})
           = IF B!HasData(r, k) THEN Cardinality(DataLbas(r)) - 1 ELSE Cardinality(DataLbas(r))
      /\ Cardinality(DataLbas(s) \ {k})
           = IF B!HasData(s, k) THEN Cardinality(DataLbas(s)) - 1 ELSE Cardinality(DataLbas(s))
      /\ Cardinality(B!Logs(r) \ {k})
           = IF B!HasLog(r, k) THEN Cardinality(B!Logs(r)) - 1 ELSE Cardinality(B!Logs(r))
      /\ Cardinality(B!Logs(s) \ {k})
           = IF B!HasLog(s, k) THEN Cardinality(B!Logs(s)) - 1 ELSE Cardinality(B!Logs(s))
  BY <1>2, LbaSets, LogFacts
<1>4. /\ Cardinality(DataLbas(r) \ {k}) = Cardinality(DataLbas(s) \ {k})
      /\ Cardinality(B!Logs(r) \ {k}) = Cardinality(B!Logs(s) \ {k})
  BY <1>1
<1>5. Cardinality(DataLbas(r)) + (IF B!HasData(s, k) THEN 1 ELSE 0)
        = Cardinality(DataLbas(s)) + (IF B!HasData(r, k) THEN 1 ELSE 0)
  BY <1>3, <1>4
<1>6. Cardinality(B!Logs(r)) + (IF B!HasLog(s, k) THEN 1 ELSE 0)
        = Cardinality(B!Logs(s)) + (IF B!HasLog(r, k) THEN 1 ELSE 0)
  BY <1>3, <1>4
<1> QED
  BY <1>5, <1>6

-----------------------------------------------------------------------------
(* What an operation that works on one logical block leaves alone.         *)

(* Block c is as it was, but for old data of logical block k.              *)
Untouched(r, s, c, k) ==
  /\ r.pages_valid[c] = s.pages_valid[c]
  /\ \A i \in B!Offsets :
       /\ StateOf(r, c, i) = StateOf(s, c, i)
       /\ \/ DataOf(r, c, i) = DataOf(s, c, i)
          \/ \E n \in B!Offsets : DataOf(s, c, i) = B!Page(k, n)
Blank(r, c) == r.pages_valid[c] = 0 /\ \A i \in B!Offsets : StateOf(r, c, i) = "EMPTY"

(* Only logical block k changes: hand is at hand before and left after,    *)
(* and the blocks freed are erased and in the free list.                   *)
Moves(r, s, k, hand, freed, left) ==
  /\ \A j \in B!Lbas \ {k} : r.data_list[j] = s.data_list[j] /\ r.log_map[j] = s.log_map[j]
  /\ r.first_free = s.first_free /\ r.current_free = s.current_free
  /\ Free(r) = Free(s) \cup freed
  /\ \A m, n \in DOMAIN r.free_list : r.free_list[m] = r.free_list[n] => m = n
  /\ \A c \in Listed(r) : c < r.current_free
  /\ OwnedBy(s, k) \cup hand = OwnedBy(r, k) \cup left \cup freed
  /\ freed \cap OwnedBy(r, k) = {} /\ left \cap OwnedBy(r, k) = {} /\ left \cap freed = {}
  /\ r.data_list[k] # -1 => r.data_list[k] # Address(r, k)
  /\ \A c \in B!Blocks \ (OwnedBy(s, k) \cup hand) : Untouched(r, s, c, k)
  /\ \A c \in freed \cup left : Blank(r, c)

HeldElsewhere(s, k, written, kept) ==
  \A j \in B!Lbas \ {k} : HeldAt(s, j, written, kept) /\ LogFresh(s, j)

(* Free blocks are blocks of the device.                                   *)
LEMMA FreeBlocksType ==
  ASSUME NEW s \in States
  PROVE  Free(s) \subseteq B!Blocks
<1>1. /\ s.free_list \in Seq(B!Blocks) /\ s.current_free \in 0 .. NumberOfBlocks
  BY DEF States
<1>2. Listed(s) \subseteq B!Blocks
  BY <1>1 DEF Listed
<1>3. s.current_free .. NumberOfBlocks - 1 \subseteq B!Blocks
  BY <1>1, ConfigFacts DEF B!Blocks
<1> QED
  BY <1>2, <1>3 DEF Free

(* What logical block j holds is kept by an operation that leaves its      *)
(* blocks alone.                                                           *)
LEMMA HeldFrame ==
  ASSUME NEW s \in States, NEW r \in States, NEW k \in B!Lbas, NEW j \in B!Lbas \ {k},
         NEW written, NEW kept, NEW more, NEW less,
         written \subseteq more,
         \A i \in B!Offsets : B!Page(j, i) \in less => B!Page(j, i) \in kept,
         HeldAt(s, j, written, kept), LogFresh(s, j),
         r.data_list[j] = s.data_list[j], r.log_map[j] = s.log_map[j],
         \A c \in OwnedBy(s, j) : Untouched(r, s, c, k)
  PROVE  HeldAt(r, j, more, less) /\ LogFresh(r, j)
<1>1. /\ B!HasLog(s, j) <=> B!HasLog(r, j)
      /\ B!HasData(s, j) <=> B!HasData(r, j)
      /\ Address(r, j) = Address(s, j)
      /\ \A i \in B!Offsets : B!InLog(s, j, i) <=> B!InLog(r, j, i)
  BY DEF B!HasLog, B!HasData, B!InLog, Address
<1>2. /\ B!HasLog(s, j) => Address(s, j) \in OwnedBy(s, j)
      /\ B!HasData(s, j) => s.data_list[j] \in OwnedBy(s, j)
  BY LogFacts DEF OwnedBy
<1>3. \A i, n \in B!Offsets : B!Page(j, i) # B!Page(k, n)
  BY Addresses
<1>4. ASSUME NEW i \in B!Offsets, B!InLog(r, j, i)
      PROVE  LogHolds(r, j, i, more)
  <2>1. B!HasLog(s, j) /\ B!InLog(s, j, i) /\ LogHolds(s, j, i, written)
    BY <1>1, <1>4 DEF HeldAt, B!InLog
  <2>2. s.log_map[j].pages[i] \in B!Offsets
    BY <2>1, LogFacts DEF B!InLog
  <2>3. Untouched(r, s, Address(s, j), k)
    BY <1>2, <2>1
  <2> QED
    BY <1>1, <1>3, <2>1, <2>2, <2>3 DEF Untouched, LogHolds
<1>5. ASSUME NEW i \in B!Offsets
      PROVE  /\ DataValid(r, j, i) <=> DataValid(s, j, i)
             /\ DataValid(r, j, i) => DataHolds(r, j, i, more)
  <2>1. DataValid(r, j, i) <=> DataValid(s, j, i)
    BY <1>1, <1>2 DEF DataValid, Untouched
  <2>2. ASSUME DataValid(s, j, i) PROVE DataHolds(r, j, i, more)
    <3>1. DataHolds(s, j, i, written) /\ B!HasData(s, j)
      BY <2>2 DEF HeldAt, DataValid
    <3>2. Untouched(r, s, s.data_list[j], k)
      BY <1>2, <3>1
    <3>3. DataOf(r, s.data_list[j], i) = DataOf(s, s.data_list[j], i)
      BY <1>3, <3>1, <3>2 DEF Untouched, DataHolds
    <3> QED
      BY <1>1, <3>1, <3>3 DEF DataHolds
  <2> QED
    BY <2>1, <2>2
<1>6. LogFresh(r, j)
  BY <1>1, <1>2 DEF LogFresh, Untouched
<1> QED
  BY <1>1, <1>4, <1>5, <1>6 DEF HeldAt

(* An operation that works on logical block k keeps the owners, the clean  *)
(* free blocks, and what the other logical blocks hold.                    *)
LEMMA Moved ==
  ASSUME NEW s \in States, NEW r \in States, NEW k \in B!Lbas,
         NEW hand, NEW freed, NEW left, NEW written, NEW kept, NEW more, NEW less,
         Owned(s, hand), Clean(s, hand), HeldElsewhere(s, k, written, kept),
         Moves(r, s, k, hand, freed, left),
         written \subseteq more,
         \A j \in B!Lbas \ {k}, i \in B!Offsets : B!Page(j, i) \in less => B!Page(j, i) \in kept
  PROVE  Owned(r, left) /\ Clean(r, left) /\ HeldElsewhere(r, k, more, less)
<1>1. Owned(r, left)
  BY OwnersMoved DEF Moves
<1>2. ASSUME NEW c \in Free(r) \cup left PROVE Blank(r, c)
  <2>1. CASE c \in freed \cup left
    BY <2>1 DEF Moves
  <2>2. CASE c \notin freed \cup left
    <3>1. c \in Free(s) /\ c \in B!Blocks
      BY <1>2, <2>2, FreeBlocksType DEF Moves
    <3>2. c \notin OwnedBy(s, k) \cup hand
      BY <3>1, LogFacts DEF Owned, OwnedBy
    <3>3. Untouched(r, s, c, k) /\ Blank(s, c)
      BY <3>1, <3>2 DEF Moves, Clean, Blank
    <3> QED
      BY <3>3 DEF Untouched, Blank
  <2> QED
    BY <2>1, <2>2
<1>3. ASSUME NEW j \in B!Lbas \ {k}
      PROVE  HeldAt(r, j, more, less) /\ LogFresh(r, j)
  <2>1. ASSUME NEW c \in OwnedBy(s, j) PROVE c \in B!Blocks \ (OwnedBy(s, k) \cup hand)
    <3>1. /\ j \in DataLbas(s) <=> s.data_list[j] # -1
          /\ k \in DataLbas(s) <=> s.data_list[k] # -1
          /\ j \in B!Logs(s) <=> Address(s, j) # -1
          /\ k \in B!Logs(s) <=> Address(s, k) # -1
          /\ s.data_list[j] \in B!Blocks \cup {-1} /\ Address(s, j) \in B!Blocks \cup {-1}
      BY LogFacts
    <3> QED
      BY <2>1, <3>1 DEF OwnedBy, Owned
  <2>2. \A c \in OwnedBy(s, j) : Untouched(r, s, c, k)
    BY <2>1 DEF Moves
  <2>3. /\ HeldAt(s, j, written, kept) /\ LogFresh(s, j)
        /\ r.data_list[j] = s.data_list[j] /\ r.log_map[j] = s.log_map[j]
    BY DEF HeldElsewhere, Moves
  <2> QED
    BY <2>2, <2>3, HeldFrame
<1> QED
  BY <1>1, <1>2, <1>3 DEF Clean, Blank, HeldElsewhere

-----------------------------------------------------------------------------
(* Merges.                                                                 *)

(* The old data block, if any, is erased and given back.                   *)
LEMMA EraseDataFacts ==
  ASSUME NEW s \in States, NEW k \in B!Lbas
  PROVE  LET r == B!EraseData(s, k)
         IN  /\ r \in States /\ SameLayer(r, s) /\ SameCall(r, s)
             /\ r.first_free = s.first_free /\ r.current_free = s.current_free
             /\ r.log_active = s.log_active
             /\ IF B!HasData(s, k)
                THEN /\ Erased(r, s, s.data_list[k])
                     /\ r.free_list = Append(s.free_list, s.data_list[k])
                     /\ r.data_active = s.data_active - 1
                ELSE SameFlash(r, s) /\ r.free_list = s.free_list /\ r.data_active = s.data_active
<1> DEFINE r == B!EraseData(s, k)
<1>1. CASE B!HasData(s, k)
  <2>1. r = B!EraseAndInvalidate(s, s.data_list[k], "DATA") /\ s.data_list[k] \in B!Blocks
    BY <1>1, LogFacts DEF B!EraseData
  <2>2. s.log_active \in Int
    BY DEF States
  <2> HIDE DEF r
  <2>3. /\ r \in States /\ Erased(r, s, s.data_list[k])
        /\ SameLayer(r, s) /\ SameCall(r, s)
        /\ r.first_free = s.first_free /\ r.current_free = s.current_free
        /\ r.free_list = Append(s.free_list, s.data_list[k])
        /\ r.data_active = s.data_active - 1
        /\ r.log_active = s.log_active
    BY <2>1, <2>2, EraseAndInvalidateFacts
  <2> QED
    BY <1>1, <2>3 DEF r
<1>2. CASE ~B!HasData(s, k)
  BY <1>2 DEF B!EraseData, SameLayer, SameCall, SameFlash
<1> QED
  BY <1>1, <1>2

(* What is left when the log of logical block k has been merged.           *)
Merged(r, s, k, written, kept) ==
  /\ Good(r, written, kept)
  /\ ~B!HasLog(r, k)
  /\ B!Logs(r) = B!Logs(s) \ {k}
  /\ r.first_free = s.first_free

(* A merge leaves a log less, and a data block more if there was none.     *)
LEMMA MergedCounts ==
  ASSUME NEW s \in States, NEW r \in States, NEW k \in B!Lbas, B!HasLog(s, k),
         Cardinality(B!Logs(s)) <= BastLimit,
         \A j \in B!Lbas \ {k} : r.data_list[j] = s.data_list[j] /\ r.log_map[j] = s.log_map[j],
         ~B!HasLog(r, k), B!HasData(r, k)
  PROVE  /\ B!Logs(r) = B!Logs(s) \ {k}
         /\ Cardinality(B!Logs(r)) = Cardinality(B!Logs(s)) - 1
         /\ Cardinality(B!Logs(r)) < BastLimit
         /\ Cardinality(DataLbas(r))
              = Cardinality(DataLbas(s)) + IF B!HasData(s, k) THEN 0 ELSE 1
<1>1. B!Logs(r) = B!Logs(s) \ {k}
  BY DEF B!Logs, B!HasLog
<1>2. /\ Cardinality(DataLbas(r)) \in Nat /\ Cardinality(DataLbas(s)) \in Nat
      /\ Cardinality(B!Logs(r)) \in Nat /\ Cardinality(B!Logs(s)) \in Nat
  BY LbaSets
<1>3. /\ Cardinality(DataLbas(r)) + (IF B!HasData(s, k) THEN 1 ELSE 0)
           = Cardinality(DataLbas(s)) + 1
      /\ Cardinality(B!Logs(r)) + 1 = Cardinality(B!Logs(s))
  <2>1. /\ Cardinality(DataLbas(r)) + (IF B!HasData(s, k) THEN 1 ELSE 0)
             = Cardinality(DataLbas(s)) + (IF B!HasData(r, k) THEN 1 ELSE 0)
        /\ Cardinality(B!Logs(r)) + (IF B!HasLog(s, k) THEN 1 ELSE 0)
             = Cardinality(B!Logs(s)) + (IF B!HasLog(r, k) THEN 1 ELSE 0)
    BY CountMoved
  <2> QED
    BY <1>2, <2>1
<1> QED
  BY <1>1, <1>2, <1>3, ConfigFacts

(* s with data block d and log e for logical block k.                      *)
WithMaps(s, k, d, e) == [s EXCEPT !.data_list[k] = d, !.log_map[k] = e]

LEMMA MapsSet ==
  ASSUME NEW s \in States, NEW k \in B!Lbas, NEW d \in B!Blocks \cup {-1}, NEW e \in LogEntries,
         NEW r, r = WithMaps(s, k, d, e)
  PROVE  /\ r \in States
         /\ SameFlash(r, s) /\ SameLists(r, s) /\ SameCounts(r, s) /\ SameCall(r, s)
         /\ r.data_list[k] = d /\ r.log_map[k] = e /\ Address(r, k) = e.address
         /\ \A j \in B!Lbas \ {k} : r.data_list[j] = s.data_list[j] /\ r.log_map[j] = s.log_map[j]
<1> DEFINE dl == [s.data_list EXCEPT ![k] = d]
           lm == [s.log_map EXCEPT ![k] = e]
<1>1. dl \in [B!Lbas -> B!Blocks \cup {-1}] /\ lm \in [B!Lbas -> LogEntries]
  BY DEF States
<1>2. /\ dl[k] = d /\ lm[k] = e
      /\ \A j \in B!Lbas \ {k} : dl[j] = s.data_list[j] /\ lm[j] = s.log_map[j]
  BY DEF States
<1>3. r = [s EXCEPT !.data_list = dl, !.log_map = lm]
  BY DEF WithMaps
<1> HIDE DEF dl, lm
<1>4. /\ r \in States
      /\ SameFlash(r, s) /\ SameLists(r, s) /\ SameCounts(r, s) /\ SameCall(r, s)
      /\ r.data_list = dl /\ r.log_map = lm
  BY <1>1, <1>3 DEF States, SameFlash, SameLists, SameCounts, SameCall
<1> QED
  BY <1>2, <1>4 DEF Address

LEMMA NoLogFacts ==
  B!NoLog \in LogEntries /\ B!NoLog.address = -1
  BY DEF LogEntries, B!NoLog, B!NoBlock

(* A switch merge: the log becomes the data block. Every page of it is in  *)
(* place, so that nothing of the old data block is needed.                 *)
LEMMA SwitchMergeFacts ==
  ASSUME NEW s, NEW written, NEW kept, Good(s, written, kept),
         NEW k \in B!Lbas, B!HasLog(s, k), B!IsSequential(s, k)
  PROVE  LET r == B!SwitchMerge(s, k)
         IN  Merged(r, s, k, written, kept) /\ r.asserted = s.asserted
<1>0. PICK a, d : a = Address(s, k) /\ d = s.data_list[k]
  OBVIOUS
<1> DEFINE m == B!Count(s, "DATA", 1)
           p == B!PromoteBlock(s)
           e == B!EraseData(p, k)
           r == B!SwitchMerge(s, k)
           freed == {d} \ {-1}
<1>1. /\ s \in States /\ Owned(s, {}) /\ Counted(s) /\ Clean(s, {})
      /\ Held(s, written, kept) /\ Cardinality(B!Logs(s)) <= BastLimit
  BY DEF Good
<1>2. /\ a \in B!Blocks /\ d \in B!Blocks \cup {-1}
      /\ B!HasData(s, k) <=> d # -1
      /\ -1 \notin B!Blocks
      /\ s.log_map[k].pages \in [B!Offsets -> B!Offsets \cup {-1}]
  BY <1>0, <1>1, LogFacts
<1>3. /\ m \in States
      /\ SameFlash(m, s) /\ SameLayer(m, s) /\ SameLists(m, s) /\ SameCall(m, s)
      /\ m.data_active = s.data_active + 1 /\ m.log_active = s.log_active
  <2>1. 1 \in Int /\ s.log_active \in Int
    BY <1>1 DEF States
  <2>2. /\ m \in States
        /\ SameFlash(m, s) /\ SameLayer(m, s) /\ SameLists(m, s) /\ SameCall(m, s)
        /\ m.data_active = s.data_active + IF "DATA" = "DATA" THEN 1 ELSE 0
        /\ m.log_active = s.log_active + IF "DATA" = "LOG" THEN 1 ELSE 0
    BY ONLY <1>1, <2>1, CountFacts
  <2> QED
    BY <2>1, <2>2
<1>4. /\ p \in States
      /\ SameFlash(p, s) /\ SameLayer(p, s) /\ SameLists(p, s) /\ SameCall(p, s)
      /\ p.data_active = s.data_active + 1 /\ p.log_active = s.log_active - 1
  <2>1. p = B!Count(m, "LOG", -1)
    BY DEF B!PromoteBlock
  <2> HIDE DEF m, p
  <2>2. -1 \in Int /\ m.data_active \in Int /\ m.log_active \in Int
    BY <1>3 DEF States
  <2>3. /\ p \in States
        /\ SameFlash(p, m) /\ SameLayer(p, m) /\ SameLists(p, m) /\ SameCall(p, m)
        /\ p.data_active = m.data_active + IF "LOG" = "DATA" THEN -1 ELSE 0
        /\ p.log_active = m.log_active + IF "LOG" = "LOG" THEN -1 ELSE 0
    BY ONLY <1>3, <2>1, <2>2, CountFacts
  <2> QED
    BY <1>3, <2>2, <2>3 DEF SameFlash, SameLayer, SameLists, SameCall
<1> HIDE DEF m, p
<1>5. B!HasData(p, k) <=> B!HasData(s, k)
  BY <1>4 DEF SameLayer, B!HasData
<1>6. /\ e \in States /\ SameLayer(e, s) /\ SameCall(e, s)
      /\ e.first_free = s.first_free /\ e.current_free = s.current_free
      /\ e.log_active = s.log_active - 1
      /\ IF B!HasData(s, k)
         THEN /\ Erased(e, s, d)
              /\ e.free_list = Append(s.free_list, d)
              /\ e.data_active = s.data_active
         ELSE SameFlash(e, s) /\ e.free_list = s.free_list /\ e.data_active = s.data_active + 1
  <2>1. /\ e \in States /\ SameLayer(e, p) /\ SameCall(e, p)
        /\ e.first_free = p.first_free /\ e.current_free = p.current_free
        /\ e.log_active = p.log_active
        /\ IF B!HasData(p, k)
           THEN /\ Erased(e, p, p.data_list[k])
                /\ e.free_list = Append(p.free_list, p.data_list[k])
                /\ e.data_active = p.data_active - 1
           ELSE SameFlash(e, p) /\ e.free_list = p.free_list /\ e.data_active = p.data_active
    BY <1>4, EraseDataFacts
  <2> HIDE DEF e
  <2>2. s.data_active \in Int
    BY <1>1 DEF States
  <2>3. CASE B!HasData(s, k)
    <3>1. Erased(e, s, d)
      BY <1>0, <1>4, <1>5, <2>1, <2>3 DEF Erased, SameFlash, SameLayer, StateOf, DataOf
    <3> QED
      BY <1>0, <1>4, <1>5, <2>1, <2>2, <2>3, <3>1 DEF SameLayer, SameLists, SameCall
  <2>4. CASE ~B!HasData(s, k)
    BY <1>4, <1>5, <2>1, <2>2, <2>4 DEF SameFlash, SameLayer, SameLists, SameCall
  <2> QED
    BY <2>3, <2>4
<1>7. r = WithMaps(e, k, a, B!NoLog)
  BY <1>0 DEF B!SwitchMerge, WithMaps, Address, e, p
<1> HIDE DEF e, r
<1>8. /\ r \in States
      /\ SameFlash(r, e) /\ SameLists(r, e) /\ SameCounts(r, e) /\ SameCall(r, e)
      /\ r.data_list[k] = a /\ r.log_map[k] = B!NoLog /\ Address(r, k) = -1
      /\ \A j \in B!Lbas \ {k} : r.data_list[j] = s.data_list[j] /\ r.log_map[j] = s.log_map[j]
  <2>1. B!NoLog \in LogEntries /\ B!NoLog.address = -1 /\ a \in B!Blocks \cup {-1}
    BY <1>2, NoLogFacts
  <2>2. /\ r \in States
        /\ SameFlash(r, e) /\ SameLists(r, e) /\ SameCounts(r, e) /\ SameCall(r, e)
        /\ r.data_list[k] = a /\ r.log_map[k] = B!NoLog /\ Address(r, k) = B!NoLog.address
        /\ \A j \in B!Lbas \ {k} : r.data_list[j] = e.data_list[j] /\ r.log_map[j] = e.log_map[j]
    <3>1. e \in States /\ k \in B!Lbas
      BY <1>6
    <3> QED
      BY ONLY <1>7, <2>1, <3>1, MapsSet
  <2> QED
    BY <1>6, <2>1, <2>2 DEF SameLayer
<1>9. ~B!HasLog(r, k) /\ B!HasData(r, k)
  BY <1>2, <1>8, LogFacts DEF B!HasLog
<1>10. OwnedBy(s, k) = {a} \cup freed /\ OwnedBy(r, k) = {a} /\ a # d
  BY <1>0, <1>1, <1>2, <1>8, LogFacts DEF OwnedBy, Owned
<1>11. Moves(r, s, k, {}, freed, {})
  <2>1. /\ Free(r) = Free(s) \cup freed
        /\ \A n, i \in DOMAIN r.free_list : r.free_list[n] = r.free_list[i] => n = i
        /\ \A c \in Listed(r) : c < r.current_free
    <3>1. /\ \A n, i \in DOMAIN s.free_list : s.free_list[n] = s.free_list[i] => n = i
          /\ \A c \in Listed(s) : c < s.current_free
      BY <1>1 DEF Owned
    <3>2. CASE B!HasData(s, k)
      <4>1. /\ d \in B!Blocks /\ d \notin Free(s) /\ freed = {d}
            /\ r.free_list = Append(s.free_list, d) /\ r.current_free = s.current_free
        <5>1. k \in DataLbas(s) /\ d \in B!Blocks /\ freed = {d}
          BY <1>0, <1>1, <1>2, <3>2, LogFacts
        <5>2. d \notin Free(s)
          BY <1>0, <1>1, <5>1 DEF Owned
        <5> QED
          BY <1>6, <1>8, <3>2, <5>1, <5>2 DEF SameLists
      <4> QED
        <5>1. s \in States /\ r \in States
          BY <1>1, <1>8
        <5>2. /\ Free(r) = Free(s) \cup {d}
              /\ \A n, i \in DOMAIN r.free_list : r.free_list[n] = r.free_list[i] => n = i
              /\ \A c \in Listed(r) : c < r.current_free
          BY ONLY <3>1, <4>1, <5>1, FreeAppended
        <5> QED
          BY <4>1, <5>2
    <3>3. CASE ~B!HasData(s, k)
      <4>1. freed = {} /\ r.free_list = s.free_list /\ r.current_free = s.current_free
        BY <1>2, <1>6, <1>8, <3>3 DEF SameLists
      <4> QED
        BY <3>1, <4>1 DEF Free, Listed
    <3> QED
      BY <3>2, <3>3
  <2>2. \A c \in B!Blocks \ OwnedBy(s, k) : Untouched(r, s, c, k)
    BY <1>2, <1>6, <1>8, <1>10 DEF Untouched, Erased, SameFlash, StateOf, DataOf
  <2>3. \A c \in freed : Blank(r, c)
    <3> SUFFICES ASSUME NEW c \in freed PROVE Blank(r, c)
      OBVIOUS
    <3>1. c = d /\ d \in B!Blocks /\ B!HasData(s, k)
      BY <1>2
    <3>2. Erased(e, s, d)
      BY <1>6, <3>1
    <3> QED
      BY <1>8, <3>1, <3>2 DEF Blank, Erased, SameFlash, StateOf
  <2>4. r.first_free = s.first_free /\ r.current_free = s.current_free
    BY <1>6, <1>8 DEF SameLists
  <2>5. r.data_list[k] # Address(r, k)
    BY <1>2, <1>8
  <2> QED
    BY <1>8, <1>10, <2>1, <2>2, <2>3, <2>4, <2>5 DEF Moves
<1>12. Owned(r, {}) /\ Clean(r, {}) /\ HeldElsewhere(r, k, written, kept)
  <2>1. HeldElsewhere(s, k, written, kept)
    BY <1>1 DEF Held, HeldElsewhere
  <2> HIDE DEF freed
  <2> QED
    BY <1>1, <1>8, <1>11, <2>1, Moved
<1>13. HeldAt(r, k, written, kept) /\ LogFresh(r, k)
  <2>1. ASSUME NEW i \in B!Offsets
        PROVE  /\ DataValid(r, k, i) /\ DataHolds(r, k, i, written)
               /\ ~B!InLog(r, k, i)
    <3>1. s.log_map[k].pages[i] = i /\ i # -1
      BY ConfigFacts DEF B!IsSequential, B!Offsets
    <3>2. B!InLog(s, k, i)
      BY <3>1 DEF B!InLog
    <3>3. LogHolds(s, k, i, written)
      BY <1>1, <3>2 DEF Held, HeldAt
    <3>4. StateOf(r, a, i) = StateOf(s, a, i) /\ DataOf(r, a, i) = DataOf(s, a, i)
      <4>1. CASE B!HasData(s, k)
        <5>1. Erased(e, s, d)
          BY <1>6, <4>1
        <5>2. StateOf(e, a, i) = StateOf(s, a, i) /\ DataOf(e, a, i) = DataOf(s, a, i)
          BY <1>2, <1>10, <5>1 DEF Erased
        <5> QED
          BY <1>8, <5>2 DEF SameFlash, StateOf, DataOf
      <4>2. CASE ~B!HasData(s, k)
        BY <1>6, <1>8, <4>2 DEF SameFlash, StateOf, DataOf
      <4> QED
        BY <4>1, <4>2
    <3> QED
      BY <1>0, <1>8, <1>9, <3>1, <3>3, <3>4 DEF DataValid, DataHolds, LogHolds, B!InLog
  <2> QED
    BY <1>9, <2>1 DEF HeldAt, LogFresh
<1>14. Held(r, written, kept)
  BY <1>12, <1>13 DEF Held, HeldElsewhere
<1>15. /\ B!Logs(r) = B!Logs(s) \ {k}
       /\ Cardinality(B!Logs(r)) = Cardinality(B!Logs(s)) - 1
       /\ Cardinality(B!Logs(r)) < BastLimit
       /\ Cardinality(DataLbas(r))
            = Cardinality(DataLbas(s)) + IF B!HasData(s, k) THEN 0 ELSE 1
  BY <1>1, <1>8, <1>9, MergedCounts
<1>16. Counted(r)
  <2>1. Cardinality(DataLbas(s)) \in Nat
    BY LbaSets
  <2> QED
    BY <1>1, <1>6, <1>8, <1>15, <2>1 DEF Counted, SameCounts
<1>17. Cardinality(B!Logs(r)) <= BastLimit
  <2>1. Cardinality(B!Logs(r)) \in Nat
    BY LbaSets
  <2> QED
    BY <1>15, <2>1, ConfigFacts
<1>18. Merged(r, s, k, written, kept)
  BY <1>6, <1>8, <1>9, <1>12, <1>14, <1>15, <1>16, <1>17 DEF Merged, Good, SameLists
<1> QED
  BY <1>6, <1>8, <1>18 DEF r, SameCall

(* A block taken by the layer is erased and belongs to nobody else.        *)
LEMMA GotBlock ==
  ASSUME NEW s, NEW written, NEW kept, Good(s, written, kept), NEW type \in {"DATA", "LOG"},
         NEW g, g = B!GetFreeBlock(s, type), g.asserted
  PROVE  /\ g \in States /\ s.asserted
         /\ Owned(g, {g.got}) /\ Clean(g, {g.got}) /\ Held(g, written, kept)
         /\ SameFlash(g, s) /\ SameLayer(g, s) /\ g.first_free = s.first_free
         /\ g.got \in B!Blocks /\ g.got \in Free(s)
         /\ g.data_active = s.data_active + IF type = "DATA" THEN 1 ELSE 0
         /\ g.log_active = s.log_active + IF type = "LOG" THEN 1 ELSE 0
<1>1. /\ s \in States /\ Owned(s, {}) /\ Clean(s, {}) /\ Held(s, written, kept)
  BY DEF Good
<1>2. /\ g \in States
      /\ SameFlash(g, s) /\ SameLayer(g, s)
      /\ g.first_free = s.first_free
      /\ g.data_active = s.data_active + IF type = "DATA" THEN 1 ELSE 0
      /\ g.log_active = s.log_active + IF type = "LOG" THEN 1 ELSE 0
      /\ s.asserted /\ Taken(g, s)
  BY <1>1, GetFreeBlockFacts
<1>3. Owned(g, {g.got}) /\ Free(s) = Free(g) \cup {g.got} /\ g.got \in B!Blocks
  BY <1>1, <1>2, OwnedTaken
<1>4. Clean(g, {g.got})
  BY <1>1, <1>2, <1>3 DEF Clean, SameFlash, StateOf
<1>5. Held(g, written, kept)
  BY <1>1, <1>2 DEF Held, HeldAt, LogHolds, LogFresh, DataValid, DataHolds, StateOf, DataOf,
                    B!InLog, B!HasLog, B!HasData, Address, SameFlash, SameLayer
<1> QED
  BY <1>2, <1>3, <1>4, <1>5

(* Block b, that was erased, holds at the places M the pages from.         *)
Copied(r, s, b, M, from) ==
  /\ \A i \in B!Offsets : StateOf(r, b, i) = IF i \in M THEN "VALID" ELSE "EMPTY"
  /\ \A i \in M : DataOf(r, b, i) = s.data[from[i]]
  /\ \A c \in B!Blocks \ {b} :
       /\ r.pages_valid[c] = s.pages_valid[c]
       /\ \A i \in B!Offsets :
            /\ DataOf(r, c, i) = DataOf(s, c, i)
            /\ (\A n \in M : from[n] # B!Page(c, i)) => StateOf(r, c, i) = StateOf(s, c, i)

(* The operator that FiniteSets gives each module is the same.             *)
LEMMA CardinalitySame ==
  ASSUME NEW S PROVE B!Cardinality(S) = Cardinality(S)
  BY DEF B!Cardinality, Cardinality

(* The copies of a merge, each of which makes its source invalid: the      *)
(* pages copied hold what their sources held before.                       *)
LEMMA MovePagesFacts ==
  ASSUME NEW s \in States, NEW b \in B!Blocks,
         NEW M \in SUBSET B!Offsets, NEW from \in [M -> B!Pages],
         \A i \in M : B!BlockOf(from[i]) # b, Blank(s, b)
  PROVE  LET r == B!MovePages(s, b, from)
         IN  /\ r \in States /\ Copied(r, s, b, M, from)
             /\ SameLayer(r, s) /\ SameLists(r, s) /\ SameCounts(r, s) /\ SameCall(r, s)
<1> DEFINE new == {B!Page(b, i) : i \in M}
           out == B!Range(from)
           u == [s EXCEPT !.state = B!With(@, out, "INVALID")]
           st == [p \in B!Pages |-> IF p \in new THEN "VALID"
                                    ELSE IF p \in out THEN "INVALID" ELSE s.state[p]]
           da == [p \in B!Pages |-> IF p \in new THEN s.data[from[B!Offset(p)]] ELSE s.data[p]]
           pv == [s.pages_valid EXCEPT ![b] = @ + Cardinality(M)]
           r == B!MovePages(s, b, from)
<1>1. /\ new \subseteq B!Pages
      /\ \A p \in new : B!BlockOf(p) = b
      /\ \A c \in B!Blocks, i \in B!Offsets : B!Page(c, i) \in new <=> c = b /\ i \in M
  BY Addresses
<1>2. /\ \A p : p \in out <=> \E i \in M : from[i] = p
      /\ out \subseteq B!Pages /\ out \cap new = {}
  <2>1. out = {from[i] : i \in M}
    BY DEF B!Range
  <2> QED
    BY <1>1, <2>1
<1>3. Cardinality(M) \in Nat /\ Cardinality(M) <= BlockSize
  <2>1. 0 \in Int /\ BlockSize - 1 \in Int
    BY ConfigFacts
  <2>2. IsFiniteSet(0 .. BlockSize - 1)
        /\ Cardinality(0 .. BlockSize - 1)
             = IF 0 > BlockSize - 1 THEN 0 ELSE BlockSize - 1 - 0 + 1
    BY <2>1, FS_Interval
  <2>3. IsFiniteSet(B!Offsets) /\ Cardinality(B!Offsets) = BlockSize
    BY <2>2, ConfigFacts DEF B!Offsets
  <2> QED
    BY <2>3, FS_Subset, FS_CardinalityType
<1>4. /\ st \in [B!Pages -> {"EMPTY", "VALID", "INVALID"}]
      /\ da \in [B!Pages -> B!Lpns \cup {-1}]
      /\ pv \in [B!Blocks -> 0 .. BlockSize]
  <2>1. s.state \in [B!Pages -> {"EMPTY", "VALID", "INVALID"}]
        /\ s.data \in [B!Pages -> B!Lpns \cup {-1}]
        /\ s.pages_valid \in [B!Blocks -> 0 .. BlockSize] /\ s.pages_valid[b] = 0
    BY DEF States, Blank
  <2>2. ASSUME NEW p \in new PROVE from[B!Offset(p)] \in B!Pages
    <3>1. PICK i \in M : p = B!Page(b, i)
      BY <2>2
    <3>2. B!Offset(p) = i
      BY <3>1, Addresses
    <3> QED
      BY <3>2
  <2>3. da \in [B!Pages -> B!Lpns \cup {-1}]
    BY <2>1, <2>2
  <2>4. st \in [B!Pages -> {"EMPTY", "VALID", "INVALID"}]
    BY <2>1
  <2>5. pv \in [B!Blocks -> 0 .. BlockSize]
    <3>1. 0 + Cardinality(M) \in 0 .. BlockSize
      BY <1>3, ConfigFacts
    <3> QED
      BY <2>1, <3>1
  <2> QED
    BY <2>3, <2>4, <2>5
<1>5. r = [s EXCEPT !.asserted = @ /\ \A p \in new : u.state[p] = "EMPTY",
                    !.state = B!With(u.state, new, "VALID"),
                    !.pages_valid = pv, !.data = da]
  <2> DEFINE at == {B!Page(b, i) : i \in DOMAIN from}
  <2>0. r = B!CopyPages(u, b, from)
    BY DEF B!MovePages
  <2>4. u.data = s.data /\ u.pages_valid = s.pages_valid /\ u.asserted = s.asserted
    BY DEF States
  <2> HIDE DEF u, r
  <2>1. r = [u EXCEPT !.asserted = @ /\ \A p \in at : u.state[p] = "EMPTY",
                      !.state = B!With(@, at, "VALID"),
                      !.pages_valid[b] = @ + Cardinality(DOMAIN from),
                      !.data = [p \in B!Pages |-> IF p \in at THEN @[from[B!Offset(p)]] ELSE @[p]]]
    BY <2>0, CardinalitySame DEF B!CopyPages
  <2>2. DOMAIN from = M
    OBVIOUS
  <2>3. at = new
    BY <2>2
  <2> HIDE DEF at, new, out
  <2>5. r = [u EXCEPT !.asserted = s.asserted /\ \A p \in new : u.state[p] = "EMPTY",
                      !.state = B!With(u.state, new, "VALID"),
                      !.pages_valid = pv, !.data = da]
    BY <2>1, <2>2, <2>3, <2>4
  <2> QED
    BY <2>5 DEF States, u
<1>6. u.state = B!With(s.state, out, "INVALID") /\ B!With(u.state, new, "VALID") = st
  BY <1>1, <1>2 DEF States, B!With
<1>7. \A p \in new : u.state[p] = "EMPTY"
  <2> SUFFICES ASSUME NEW p \in new PROVE u.state[p] = "EMPTY"
    OBVIOUS
  <2>1. PICK i \in M : p = B!Page(b, i)
    OBVIOUS
  <2>2. s.state[p] = "EMPTY"
    BY <2>1 DEF Blank, StateOf
  <2> QED
    BY <1>1, <1>2, <1>6, <2>2 DEF B!With, States
<1>8. s.asserted \in BOOLEAN
  BY DEF States
<1> HIDE DEF u, st, da, pv, new, out
<1>9. r = [s EXCEPT !.asserted = s.asserted, !.state = st, !.pages_valid = pv, !.data = da]
  BY <1>5, <1>6, <1>7, <1>8
<1> HIDE DEF r
<1>10. /\ r \in States /\ r.state = st /\ r.data = da /\ r.pages_valid = pv
       /\ SameLayer(r, s) /\ SameLists(r, s) /\ SameCounts(r, s) /\ SameCall(r, s)
  BY <1>4, <1>8, <1>9 DEF States, SameLayer, SameLists, SameCounts, SameCall
<1>11. ASSUME NEW i \in B!Offsets
       PROVE  /\ StateOf(r, b, i) = IF i \in M THEN "VALID" ELSE "EMPTY"
              /\ i \in M => DataOf(r, b, i) = s.data[from[i]]
  <2>1. /\ B!Page(b, i) \in B!Pages /\ B!Offset(B!Page(b, i)) = i /\ B!BlockOf(B!Page(b, i)) = b
        /\ B!Page(b, i) \in new <=> i \in M
    BY <1>1, Addresses
  <2>2. B!Page(b, i) \notin out
    BY <1>2, <2>1
  <2>3. s.state[B!Page(b, i)] = "EMPTY"
    BY DEF Blank, StateOf
  <2> QED
    BY <1>10, <2>1, <2>2, <2>3 DEF st, da, StateOf, DataOf
<1>12. ASSUME NEW c \in B!Blocks \ {b}
       PROVE  /\ r.pages_valid[c] = s.pages_valid[c]
              /\ \A i \in B!Offsets :
                   /\ DataOf(r, c, i) = DataOf(s, c, i)
                   /\ (\A n \in M : from[n] # B!Page(c, i)) => StateOf(r, c, i) = StateOf(s, c, i)
  <2>1. r.pages_valid[c] = s.pages_valid[c]
    BY <1>10 DEF pv, States
  <2>2. ASSUME NEW i \in B!Offsets
        PROVE  /\ DataOf(r, c, i) = DataOf(s, c, i)
               /\ (\A n \in M : from[n] # B!Page(c, i)) => StateOf(r, c, i) = StateOf(s, c, i)
    <3>1. B!Page(c, i) \in B!Pages /\ B!Page(c, i) \notin new
      BY <1>1, Addresses
    <3>2. (\A n \in M : from[n] # B!Page(c, i)) => B!Page(c, i) \notin out
      BY <1>2
    <3> QED
      BY <1>10, <3>1, <3>2 DEF st, da, StateOf, DataOf
  <2> QED
    BY <2>1, <2>2
<1>13. Copied(r, s, b, M, from)
  BY <1>11, <1>12 DEF Copied
<1> QED
  BY <1>10, <1>13 DEF r

(* The pages a merge copies, and where they come from.                     *)
MergedPlaces(s, k) == {i \in B!Offsets : B!IsMerged(s, k, i)}

(* A page that a merge copies holds the last data of its logical page, and *)
(* every page to be kept is copied.                                        *)
LEMMA SourceFacts ==
  ASSUME NEW s \in States, NEW k \in B!Lbas, NEW written, NEW kept, HeldAt(s, k, written, kept),
         NEW i \in B!Offsets
  PROVE  /\ B!IsMerged(s, k, i) =>
              /\ B!Source(s, k, i) \in B!Pages
              /\ B!BlockOf(B!Source(s, k, i)) \in OwnedBy(s, k)
              /\ s.data[B!Source(s, k, i)] = B!Page(k, i)
              /\ B!Page(k, i) \in written
         /\ B!Page(k, i) \in kept => B!IsMerged(s, k, i)
<1>1. CASE B!InLog(s, k, i)
  <2> DEFINE n == s.log_map[k].pages[i]
  <2>1. /\ Address(s, k) \in B!Blocks /\ Address(s, k) \in OwnedBy(s, k) /\ n \in B!Offsets
    BY <1>1, LogFacts DEF B!InLog, OwnedBy
  <2>2. LogHolds(s, k, i, written)
    BY <1>1 DEF HeldAt
  <2>3. B!Source(s, k, i) = B!Page(Address(s, k), n)
    BY <1>1 DEF B!Source, B!LogPage, Address
  <2>4. /\ B!Source(s, k, i) \in B!Pages /\ B!BlockOf(B!Source(s, k, i)) = Address(s, k)
    BY <2>1, <2>3, Addresses
  <2>5. /\ s.state[B!Source(s, k, i)] = "VALID" /\ s.data[B!Source(s, k, i)] = B!Page(k, i)
        /\ B!Page(k, i) \in written
    BY <2>2, <2>3 DEF LogHolds, StateOf, DataOf
  <2> QED
    BY <1>1, <2>1, <2>4, <2>5 DEF B!IsMerged
<1>2. CASE ~B!InLog(s, k, i)
  <2>1. /\ B!Source(s, k, i) = B!Page(s.data_list[k], i)
        /\ B!IsMerged(s, k, i) <=> DataValid(s, k, i)
    BY <1>2 DEF B!Source, B!DataPage, B!IsMerged, DataValid, StateOf
  <2>2. B!Page(k, i) \in kept => B!IsMerged(s, k, i)
    BY <1>2, <2>1 DEF HeldAt
  <2>3. ASSUME B!IsMerged(s, k, i)
        PROVE  /\ B!Source(s, k, i) \in B!Pages
               /\ B!BlockOf(B!Source(s, k, i)) \in OwnedBy(s, k)
               /\ s.data[B!Source(s, k, i)] = B!Page(k, i)
               /\ B!Page(k, i) \in written
    <3>1. DataValid(s, k, i) /\ DataHolds(s, k, i, written)
      BY <2>1, <2>3 DEF HeldAt
    <3>2. s.data_list[k] \in B!Blocks /\ s.data_list[k] \in OwnedBy(s, k)
      BY <3>1, LogFacts DEF DataValid, OwnedBy
    <3>3. B!Source(s, k, i) \in B!Pages /\ B!BlockOf(B!Source(s, k, i)) = s.data_list[k]
      BY <2>1, <3>2, Addresses
    <3> QED
      BY <2>1, <3>1, <3>2, <3>3 DEF DataHolds, DataOf
  <2> QED
    BY <2>2, <2>3
<1> QED
  BY <1>1, <1>2

(* The copies of a merge into the block at hand.                           *)
LEMMA CopyMergedFacts ==
  ASSUME NEW s \in States, NEW k \in B!Lbas, NEW written, NEW kept, HeldAt(s, k, written, kept),
         s.got \in B!Blocks, s.got \notin OwnedBy(s, k), Blank(s, s.got)
  PROVE  LET r == B!CopyMerged(s, k)
         IN  /\ r \in States
             /\ SameLayer(r, s) /\ SameLists(r, s) /\ SameCounts(r, s) /\ SameCall(r, s)
             /\ \A c \in B!Blocks \ (OwnedBy(s, k) \cup {s.got}) : Untouched(r, s, c, k)
             /\ \A i \in B!Offsets :
                  /\ StateOf(r, s.got, i) = IF i \in MergedPlaces(s, k) THEN "VALID" ELSE "EMPTY"
                  /\ i \in MergedPlaces(s, k) => /\ DataOf(r, s.got, i) = B!Page(k, i)
                                                 /\ B!Page(k, i) \in written
                  /\ B!Page(k, i) \in kept => i \in MergedPlaces(s, k)
<1> DEFINE M == MergedPlaces(s, k)
           from == [i \in M |-> B!Source(s, k, i)]
           r == B!CopyMerged(s, k)
           b == s.got
<1>1. \A i \in M : /\ B!Source(s, k, i) \in B!Pages
                   /\ B!BlockOf(B!Source(s, k, i)) \in OwnedBy(s, k)
                   /\ s.data[B!Source(s, k, i)] = B!Page(k, i)
                   /\ B!Page(k, i) \in written
  BY SourceFacts DEF MergedPlaces
<1>2. \A i \in B!Offsets : B!Page(k, i) \in kept => i \in M
  BY SourceFacts DEF MergedPlaces
<1>3. r = B!MovePages(s, b, from) /\ M \in SUBSET B!Offsets
  BY DEF B!CopyMerged, MergedPlaces
<1> HIDE DEF M, r
<1>4. /\ from \in [M -> B!Pages]
      /\ \A i \in M : B!BlockOf(from[i]) # b /\ B!BlockOf(from[i]) \in OwnedBy(s, k)
      /\ \A i \in M : s.data[from[i]] = B!Page(k, i)
  BY <1>1
<1> HIDE DEF from, b
<1>5. b \in B!Blocks /\ Blank(s, b)
  BY DEF b
<1>6. /\ r \in States /\ Copied(r, s, b, M, from)
      /\ SameLayer(r, s) /\ SameLists(r, s) /\ SameCounts(r, s) /\ SameCall(r, s)
  BY ONLY <1>3, <1>4, <1>5, MovePagesFacts, s \in States
<1>7. ASSUME NEW c \in B!Blocks \ (OwnedBy(s, k) \cup {b}) PROVE Untouched(r, s, c, k)
  <2>1. ASSUME NEW i \in B!Offsets PROVE \A n \in M : from[n] # B!Page(c, i)
    BY <1>4, Addresses
  <2> QED
    BY <1>6, <2>1 DEF Copied, Untouched
<1>8. ASSUME NEW i \in B!Offsets
      PROVE  /\ StateOf(r, b, i) = IF i \in M THEN "VALID" ELSE "EMPTY"
             /\ i \in M => /\ DataOf(r, b, i) = B!Page(k, i)
                           /\ B!Page(k, i) \in written
             /\ B!Page(k, i) \in kept => i \in M
  BY <1>1, <1>2, <1>4, <1>6 DEF Copied
<1> QED
  BY <1>6, <1>7, <1>8 DEF r, b, M

(* The old blocks given back after a merge, in two steps: the log, then    *)
(* the data block.                                                         *)
LEMMA EraseOldFacts ==
  ASSUME NEW s \in States, NEW k \in B!Lbas, B!HasLog(s, k), s.got \in B!Blocks,
         Owned(s, {s.got})
  PROVE  LET r == B!EraseOld(s, k)
         IN  /\ r \in States /\ r.first_free = s.first_free /\ r.asserted = s.asserted
             /\ r.log_active = s.log_active - 1
             /\ r.data_active = s.data_active - IF B!HasData(s, k) THEN 1 ELSE 0
             /\ r.data_list[k] = s.got /\ r.log_map[k] = B!NoLog /\ Address(r, k) = -1
             /\ \A j \in B!Lbas \ {k} :
                  r.data_list[j] = s.data_list[j] /\ r.log_map[j] = s.log_map[j]
             /\ r.current_free = s.current_free
             /\ Free(r) = Free(s) \cup OwnedBy(s, k)
             /\ \A m, n \in DOMAIN r.free_list : r.free_list[m] = r.free_list[n] => m = n
             /\ \A c \in Listed(r) : c < r.current_free
             /\ \A c \in OwnedBy(s, k) : Blank(r, c)
             /\ \A c \in B!Blocks \ OwnedBy(s, k) :
                  /\ r.pages_valid[c] = s.pages_valid[c]
                  /\ \A i \in B!Offsets : /\ StateOf(r, c, i) = StateOf(s, c, i)
                                          /\ DataOf(r, c, i) = DataOf(s, c, i)
<1>0. PICK a, d, g : a = Address(s, k) /\ d = s.data_list[k] /\ g = s.got
  OBVIOUS
<1> DEFINE u == B!EraseAndInvalidate(s, s.log_map[k].address, "LOG")
           e == B!EraseData(u, k)
           r == B!EraseOld(s, k)
<1>1. /\ a \in B!Blocks /\ d \in B!Blocks \cup {-1} /\ g \in B!Blocks
      /\ B!HasData(s, k) <=> d # -1
      /\ -1 \notin B!Blocks
      /\ OwnedBy(s, k) = {a, d} \ {-1} /\ a # d
      /\ a \notin Free(s) /\ d \notin Free(s)
  <2>1. /\ a \in B!Blocks /\ d \in B!Blocks \cup {-1} /\ g \in B!Blocks
        /\ B!HasData(s, k) <=> d # -1
        /\ -1 \notin B!Blocks
        /\ k \in B!Logs(s) /\ (k \in DataLbas(s) <=> d # -1)
        /\ OwnedBy(s, k) = {a, d} \ {-1}
    BY <1>0, LogFacts DEF OwnedBy
  <2>2. a \notin Free(s) /\ (d # -1 => a # d /\ d \notin Free(s))
    BY <1>0, <2>1 DEF Owned
  <2>3. -1 \notin Free(s)
    BY <2>1, FreeBlocksType
  <2> QED
    BY <2>1, <2>2, <2>3
<1>2. /\ \A m, n \in DOMAIN s.free_list : s.free_list[m] = s.free_list[n] => m = n
      /\ \A c \in Listed(s) : c < s.current_free
  BY DEF Owned
<1>3. /\ u \in States /\ Erased(u, s, a)
      /\ SameLayer(u, s) /\ SameCall(u, s)
      /\ u.first_free = s.first_free /\ u.current_free = s.current_free
      /\ u.free_list = Append(s.free_list, a)
      /\ u.data_active = s.data_active
      /\ u.log_active = s.log_active - 1
  <2>1. u = B!EraseAndInvalidate(s, a, "LOG")
    BY <1>0 DEF Address
  <2> HIDE DEF u
  <2>2. s.data_active \in Int /\ s.log_active \in Int
    BY DEF States
  <2>3. /\ u \in States /\ Erased(u, s, a)
        /\ SameLayer(u, s) /\ SameCall(u, s)
        /\ u.first_free = s.first_free /\ u.current_free = s.current_free
        /\ u.free_list = Append(s.free_list, a)
        /\ u.data_active = s.data_active - IF "LOG" = "DATA" THEN 1 ELSE 0
        /\ u.log_active = s.log_active - IF "LOG" = "LOG" THEN 1 ELSE 0
    BY <1>1, <2>1, EraseAndInvalidateFacts
  <2> QED
    BY <2>2, <2>3
<1> HIDE DEF u
<1>4. /\ Free(u) = Free(s) \cup {a}
      /\ \A m, n \in DOMAIN u.free_list : u.free_list[m] = u.free_list[n] => m = n
      /\ \A c \in Listed(u) : c < u.current_free
  <2>1. s \in States /\ u \in States /\ a \in B!Blocks /\ a \notin Free(s)
    BY <1>1, <1>3
  <2>2. u.free_list = Append(s.free_list, a) /\ u.current_free = s.current_free
    BY <1>3
  <2> QED
    BY ONLY <1>2, <2>1, <2>2, FreeAppended
<1>5. u.data_list[k] = d /\ (B!HasData(u, k) <=> B!HasData(s, k))
  BY <1>0, <1>3 DEF SameLayer, B!HasData
<1>6. /\ e \in States /\ SameLayer(e, s) /\ SameCall(e, s)
      /\ e.first_free = s.first_free /\ e.current_free = s.current_free
      /\ e.log_active = s.log_active - 1
      /\ IF B!HasData(s, k)
         THEN /\ Erased(e, u, d)
              /\ e.free_list = Append(u.free_list, d)
              /\ e.data_active = s.data_active - 1
         ELSE SameFlash(e, u) /\ e.free_list = u.free_list /\ e.data_active = s.data_active
  <2>1. /\ e \in States /\ SameLayer(e, u) /\ SameCall(e, u)
        /\ e.first_free = u.first_free /\ e.current_free = u.current_free
        /\ e.log_active = u.log_active
        /\ IF B!HasData(u, k)
           THEN /\ Erased(e, u, u.data_list[k])
                /\ e.free_list = Append(u.free_list, u.data_list[k])
                /\ e.data_active = u.data_active - 1
           ELSE SameFlash(e, u) /\ e.free_list = u.free_list /\ e.data_active = u.data_active
    BY <1>3, EraseDataFacts
  <2> HIDE DEF e
  <2> QED
    BY <1>3, <1>5, <2>1 DEF SameLayer, SameCall
<1>7. /\ Free(e) = Free(s) \cup OwnedBy(s, k)
      /\ \A m, n \in DOMAIN e.free_list : e.free_list[m] = e.free_list[n] => m = n
      /\ \A c \in Listed(e) : c < e.current_free
  <2> HIDE DEF e
  <2>1. CASE B!HasData(s, k)
    <3>1. /\ u \in States /\ e \in States /\ d \in B!Blocks /\ d \notin Free(u)
          /\ e.free_list = Append(u.free_list, d) /\ e.current_free = u.current_free
      BY <1>1, <1>3, <1>4, <1>6, <2>1
    <3>2. /\ Free(e) = Free(u) \cup {d}
          /\ \A m, n \in DOMAIN e.free_list : e.free_list[m] = e.free_list[n] => m = n
          /\ \A c \in Listed(e) : c < e.current_free
      BY ONLY <1>4, <3>1, FreeAppended
    <3> QED
      BY <1>1, <1>4, <2>1, <3>2
  <2>2. CASE ~B!HasData(s, k)
    <3>1. e.free_list = u.free_list /\ e.current_free = u.current_free
      BY <1>3, <1>6, <2>2
    <3>2. Free(e) = Free(u) /\ Listed(e) = Listed(u)
      BY <3>1 DEF Free, Listed
    <3> QED
      BY <1>1, <1>4, <2>2, <3>1, <3>2
  <2> QED
    BY <2>1, <2>2
<1>8. /\ \A c \in OwnedBy(s, k) : Blank(e, c)
      /\ \A c \in B!Blocks \ OwnedBy(s, k) :
           /\ e.pages_valid[c] = s.pages_valid[c]
           /\ \A i \in B!Offsets : /\ StateOf(e, c, i) = StateOf(s, c, i)
                                   /\ DataOf(e, c, i) = DataOf(s, c, i)
  <2> HIDE DEF e
  <2>1. CASE B!HasData(s, k)
    BY <1>1, <1>3, <1>6, <2>1 DEF Erased, Blank
  <2>2. CASE ~B!HasData(s, k)
    BY <1>1, <1>3, <1>6, <2>2 DEF Erased, Blank, SameFlash, StateOf, DataOf
  <2> QED
    BY <2>1, <2>2
<1>9. r = WithMaps(e, k, g, B!NoLog)
  BY <1>0 DEF B!EraseOld, WithMaps, u
<1> HIDE DEF e, r
<1>10. /\ r \in States
       /\ SameFlash(r, e) /\ SameLists(r, e) /\ SameCounts(r, e) /\ SameCall(r, e)
       /\ r.data_list[k] = g /\ r.log_map[k] = B!NoLog /\ Address(r, k) = -1
       /\ \A j \in B!Lbas \ {k} : r.data_list[j] = s.data_list[j] /\ r.log_map[j] = s.log_map[j]
  <2>1. /\ e \in States /\ k \in B!Lbas /\ g \in B!Blocks \cup {-1}
        /\ B!NoLog \in LogEntries /\ B!NoLog.address = -1
    BY <1>1, <1>6, NoLogFacts
  <2>2. /\ r \in States
        /\ SameFlash(r, e) /\ SameLists(r, e) /\ SameCounts(r, e) /\ SameCall(r, e)
        /\ r.data_list[k] = g /\ r.log_map[k] = B!NoLog /\ Address(r, k) = B!NoLog.address
        /\ \A j \in B!Lbas \ {k} : r.data_list[j] = e.data_list[j] /\ r.log_map[j] = e.log_map[j]
    BY ONLY <1>9, <2>1, MapsSet
  <2> QED
    BY <1>6, <2>1, <2>2 DEF SameLayer
<1>11. /\ Free(r) = Free(e) /\ Listed(r) = Listed(e) /\ r.free_list = e.free_list
       /\ r.current_free = s.current_free /\ r.first_free = s.first_free
       /\ r.asserted = s.asserted /\ r.log_active = s.log_active - 1
       /\ r.data_active = s.data_active - IF B!HasData(s, k) THEN 1 ELSE 0
  <2>1. s.data_active \in Int
    BY DEF States
  <2> QED
    BY <1>6, <1>10, <2>1 DEF Free, Listed, SameLists, SameCounts, SameCall
<1>12. /\ \A m, n \in DOMAIN r.free_list : r.free_list[m] = r.free_list[n] => m = n
       /\ \A c \in Listed(r) : c < r.current_free
       /\ Free(r) = Free(s) \cup OwnedBy(s, k)
  BY <1>6, <1>7, <1>11
<1>13. /\ \A c \in OwnedBy(s, k) : Blank(r, c)
       /\ \A c \in B!Blocks \ OwnedBy(s, k) :
            /\ r.pages_valid[c] = s.pages_valid[c]
            /\ \A i \in B!Offsets : /\ StateOf(r, c, i) = StateOf(s, c, i)
                                    /\ DataOf(r, c, i) = DataOf(s, c, i)
  BY <1>8, <1>10 DEF Blank, SameFlash, StateOf, DataOf
<1> QED
  BY <1>0, <1>10, <1>11, <1>12, <1>13 DEF r

(* A random merge: the newest pages are copied to a new data block, and    *)
(* both old blocks are given back.                                         *)
LEMMA RandomMergeFacts ==
  ASSUME NEW s, NEW written, NEW kept, Good(s, written, kept),
         NEW k \in B!Lbas, B!HasLog(s, k), B!GetFreeBlock(s, "DATA").asserted
  PROVE  LET r == B!RandomMerge(s, k)
         IN  Merged(r, s, k, written, kept) /\ r.asserted
<1> DEFINE g == B!GetFreeBlock(s, "DATA")
           c == B!CopyMerged(g, k)
           r == B!RandomMerge(s, k)
           M == MergedPlaces(g, k)
<1>0. r = B!EraseOld(c, k)
  BY DEF B!RandomMerge
<1>1. /\ s \in States /\ Counted(s) /\ Cardinality(B!Logs(s)) <= BastLimit
  BY DEF Good
<1>2. /\ g \in States /\ g.asserted
      /\ Owned(g, {g.got}) /\ Clean(g, {g.got}) /\ Held(g, written, kept)
      /\ SameLayer(g, s) /\ g.first_free = s.first_free
      /\ g.got \in B!Blocks
      /\ g.data_active = s.data_active + 1
      /\ g.log_active = s.log_active
  <2>1. s.log_active \in Int
    BY <1>1 DEF States
  <2>2. /\ g \in States
        /\ Owned(g, {g.got}) /\ Clean(g, {g.got}) /\ Held(g, written, kept)
        /\ SameLayer(g, s) /\ g.first_free = s.first_free
        /\ g.got \in B!Blocks
        /\ g.data_active = s.data_active + IF "DATA" = "DATA" THEN 1 ELSE 0
        /\ g.log_active = s.log_active + IF "DATA" = "LOG" THEN 1 ELSE 0
    BY GotBlock
  <2> QED
    BY <2>1, <2>2
<1> HIDE DEF g, r
<1>3. /\ B!HasLog(g, k) /\ (B!HasData(g, k) <=> B!HasData(s, k))
      /\ \A j \in B!Lbas : g.data_list[j] = s.data_list[j] /\ g.log_map[j] = s.log_map[j]
  BY <1>2 DEF SameLayer, B!HasLog, B!HasData
<1>4. /\ g.got \notin OwnedBy(g, k) /\ Blank(g, g.got)
      /\ HeldAt(g, k, written, kept)
  BY <1>2, LogFacts DEF Owned, OwnedBy, Clean, Blank, Held
<1>5. /\ c \in States
      /\ SameLayer(c, g) /\ SameLists(c, g) /\ SameCounts(c, g) /\ SameCall(c, g)
      /\ \A x \in B!Blocks \ (OwnedBy(g, k) \cup {g.got}) : Untouched(c, g, x, k)
      /\ \A i \in B!Offsets :
           /\ StateOf(c, g.got, i) = IF i \in M THEN "VALID" ELSE "EMPTY"
           /\ i \in M => /\ DataOf(c, g.got, i) = B!Page(k, i)
                         /\ B!Page(k, i) \in written
           /\ B!Page(k, i) \in kept => i \in M
  BY <1>2, <1>4, CopyMergedFacts
<1> HIDE DEF c, M
<1>6. /\ B!HasLog(c, k) /\ c.got = g.got /\ Owned(c, {c.got})
      /\ OwnedBy(c, k) = OwnedBy(g, k) /\ Free(c) = Free(g) /\ (B!HasData(c, k) <=> B!HasData(s, k))
  BY <1>2, <1>3, <1>5 DEF SameLayer, SameLists, SameCall, B!HasLog, B!HasData, OwnedBy, Address,
                          Owned, Free, Listed, DataLbas, B!Logs
<1>7. /\ r \in States /\ r.first_free = c.first_free /\ r.asserted = c.asserted
      /\ r.log_active = c.log_active - 1
      /\ r.data_active = c.data_active - IF B!HasData(c, k) THEN 1 ELSE 0
      /\ r.data_list[k] = c.got /\ r.log_map[k] = B!NoLog /\ Address(r, k) = -1
      /\ \A j \in B!Lbas \ {k} :
           r.data_list[j] = c.data_list[j] /\ r.log_map[j] = c.log_map[j]
      /\ r.current_free = c.current_free
      /\ Free(r) = Free(c) \cup OwnedBy(c, k)
      /\ \A m, n \in DOMAIN r.free_list : r.free_list[m] = r.free_list[n] => m = n
      /\ \A x \in Listed(r) : x < r.current_free
      /\ \A x \in OwnedBy(c, k) : Blank(r, x)
      /\ \A x \in B!Blocks \ OwnedBy(c, k) :
           /\ r.pages_valid[x] = c.pages_valid[x]
           /\ \A i \in B!Offsets : /\ StateOf(r, x, i) = StateOf(c, x, i)
                                   /\ DataOf(r, x, i) = DataOf(c, x, i)
  BY <1>0, <1>2, <1>5, <1>6, EraseOldFacts
<1>8. -1 \notin B!Blocks /\ g.got # -1 /\ OwnedBy(r, k) = {g.got}
  <2>1. -1 \notin B!Blocks
    BY ConfigFacts DEF B!Blocks
  <2> QED
    BY <1>2, <1>6, <1>7, <2>1 DEF OwnedBy
<1>9. Moves(r, g, k, {g.got}, OwnedBy(g, k), {})
  <2>1. \A x \in B!Blocks \ (OwnedBy(g, k) \cup {g.got}) : Untouched(r, g, x, k)
    BY <1>5, <1>6, <1>7 DEF Untouched
  <2>2. /\ r.first_free = g.first_free /\ r.current_free = g.current_free
        /\ \A j \in B!Lbas \ {k} : r.data_list[j] = g.data_list[j] /\ r.log_map[j] = g.log_map[j]
    BY <1>5, <1>7 DEF SameLists, SameLayer
  <2>3. /\ Free(r) = Free(g) \cup OwnedBy(g, k)
        /\ \A m, n \in DOMAIN r.free_list : r.free_list[m] = r.free_list[n] => m = n
        /\ \A x \in Listed(r) : x < r.current_free
        /\ \A x \in OwnedBy(g, k) : Blank(r, x)
    BY <1>6, <1>7
  <2>4. r.data_list[k] # -1 => r.data_list[k] # Address(r, k)
    BY <1>7
  <2> QED
    BY <1>4, <1>8, <2>1, <2>2, <2>3, <2>4 DEF Moves
<1>10. Owned(r, {}) /\ Clean(r, {}) /\ HeldElsewhere(r, k, written, kept)
  <2>1. HeldElsewhere(g, k, written, kept)
    BY <1>2 DEF Held, HeldElsewhere
  <2>2. g \in States /\ r \in States /\ Owned(g, {g.got}) /\ Clean(g, {g.got})
    BY <1>2, <1>7
  <2>3. /\ written \subseteq written
        /\ \A j \in B!Lbas \ {k}, i \in B!Offsets : B!Page(j, i) \in kept => B!Page(j, i) \in kept
    OBVIOUS
  <2> QED
    BY ONLY <1>9, <2>1, <2>2, <2>3, Moved, k \in B!Lbas
<1>11. ~B!HasLog(r, k) /\ B!HasData(r, k)
  BY <1>6, <1>7, <1>8, LogFacts
<1>12. HeldAt(r, k, written, kept) /\ LogFresh(r, k)
  <2>1. ASSUME NEW i \in B!Offsets
        PROVE  /\ ~B!InLog(r, k, i)
               /\ DataValid(r, k, i) => DataHolds(r, k, i, written)
               /\ B!Page(k, i) \in kept => DataValid(r, k, i)
    <3>1. ~B!InLog(r, k, i)
      BY <1>11 DEF B!InLog
    <3>2. StateOf(r, g.got, i) = StateOf(c, g.got, i) /\ DataOf(r, g.got, i) = DataOf(c, g.got, i)
      BY <1>2, <1>4, <1>6, <1>7
    <3>3. DataValid(r, k, i) <=> i \in M
      BY <1>5, <1>6, <1>7, <1>11, <3>2 DEF DataValid
    <3> QED
      BY <1>5, <1>6, <1>7, <3>1, <3>2, <3>3 DEF DataHolds
  <2> QED
    BY <1>11, <2>1 DEF HeldAt, LogFresh
<1>13. Held(r, written, kept)
  BY <1>10, <1>12 DEF Held, HeldElsewhere
<1>14. /\ B!Logs(r) = B!Logs(s) \ {k}
       /\ Cardinality(B!Logs(r)) = Cardinality(B!Logs(s)) - 1
       /\ Cardinality(B!Logs(r)) < BastLimit
       /\ Cardinality(DataLbas(r))
            = Cardinality(DataLbas(s)) + IF B!HasData(s, k) THEN 0 ELSE 1
  <2>1. \A j \in B!Lbas \ {k} : r.data_list[j] = s.data_list[j] /\ r.log_map[j] = s.log_map[j]
    BY <1>3, <1>5, <1>7 DEF SameLayer
  <2> QED
    BY <1>1, <1>7, <1>11, <2>1, MergedCounts
<1>15. Counted(r)
  <2>1. Cardinality(DataLbas(s)) \in Nat /\ Cardinality(B!Logs(s)) \in Nat
    BY LbaSets
  <2>2. /\ r.data_active = s.data_active + 1 - IF B!HasData(s, k) THEN 1 ELSE 0
        /\ r.log_active = s.log_active - 1
    <3>1. s.data_active \in Int /\ s.log_active \in Int
      BY <1>1 DEF States
    <3>2. c.data_active = s.data_active + 1 /\ c.log_active = s.log_active
      BY <1>2, <1>5 DEF SameCounts
    <3>3. /\ r.data_active = c.data_active - IF B!HasData(s, k) THEN 1 ELSE 0
          /\ r.log_active = c.log_active - 1
      BY <1>6, <1>7
    <3> QED
      BY <3>1, <3>2, <3>3
  <2> QED
    BY <1>1, <1>14, <2>1, <2>2 DEF Counted
<1>16. Cardinality(B!Logs(r)) <= BastLimit
  <2>1. Cardinality(B!Logs(r)) \in Nat
    BY LbaSets
  <2> QED
    BY <1>14, <2>1, ConfigFacts
<1>17. r.first_free = s.first_free /\ r.asserted
  BY <1>2, <1>5, <1>7 DEF SameLists, SameCall
<1> QED
  BY <1>7, <1>10, <1>11, <1>13, <1>14, <1>15, <1>16, <1>17 DEF Merged, Good, r

-----------------------------------------------------------------------------
(* A failed assertion stays failed until the call ends.                    *)

Failed(s) == "asserted" \in DOMAIN s /\ s.asserted = FALSE

LEMMA FailedManager ==
  ASSUME NEW s, Failed(s)
  PROVE  /\ \A n : \A type \in {"DATA", "LOG"} : Failed(B!Count(s, type, n))
         /\ \A b : \A type \in {"DATA", "LOG"} : Failed(B!EraseAndInvalidate(s, b, type))
         /\ Failed(B!PromoteBlock(s))
         /\ \A type \in {"DATA", "LOG"} : Failed(B!GetFreeBlock(s, type))
         /\ \A limit : Failed(B!GetLogBlock(s, limit))
         /\ \A b, from : Failed(B!MovePages(s, b, from))
         /\ \A p, l : Failed(B!WritePage(s, p, l))
<1>1. ASSUME NEW u, Failed(u), NEW type \in {"DATA", "LOG"}, NEW n
      PROVE  Failed(B!Count(u, type, n))
  <2>1. B!Count(u, type, n) = IF type = "DATA" THEN [u EXCEPT !.data_active = @ + n]
                              ELSE [u EXCEPT !.log_active = @ + n]
    BY DEF B!Count
  <2>2. Failed([u EXCEPT !.data_active = @ + n]) /\ Failed([u EXCEPT !.log_active = @ + n])
    BY <1>1 DEF Failed
  <2> QED
    BY <2>1, <2>2
<1>2. ASSUME NEW type \in {"DATA", "LOG"}, NEW b
      PROVE  Failed(B!EraseAndInvalidate(s, b, type))
  <2>1. Failed(B!Erase(s, b))
    BY DEF Failed, B!Erase
  <2>2. Failed([B!Erase(s, b) EXCEPT !.free_list = Append(@, b)])
    BY <2>1 DEF Failed
  <2> QED
    BY <1>1, <2>2 DEF B!EraseAndInvalidate
<1>3. Failed(B!PromoteBlock(s))
  BY <1>1 DEF B!PromoteBlock
<1>4. ASSUME NEW v, Failed(v) PROVE Failed(B!GetPageBlock(v))
  <2>1. ASSUME NEW u, Failed(u) PROVE Failed(B!TakeFree(u))
    BY <2>1 DEF Failed, B!TakeFree
  <2>2. ASSUME NEW u, Failed(u) PROVE Failed(B!InsertEvents(u))
    <3>1. Failed(B!EraseInvalid(u))
      BY <2>2 DEF Failed, B!EraseInvalid
    <3> QED
      BY <2>2, <3>1 DEF B!InsertEvents
  <2>3. Failed([v EXCEPT !.out_of_blocks = TRUE])
    BY <1>4 DEF Failed
  <2>4. Failed([v EXCEPT !.got = v.current_free, !.current_free = @ + 1])
    BY <1>4 DEF Failed
  <2>5. CASE v.current_free < NumberOfBlocks
    BY <2>4, <2>5 DEF B!GetPageBlock
  <2>6. CASE ~(v.current_free < NumberOfBlocks)
    BY <1>4, <2>1, <2>2, <2>3, <2>6 DEF B!GetPageBlock
  <2> QED
    BY <2>5, <2>6
<1>8. ASSUME NEW v, Failed(v), NEW type \in {"DATA", "LOG"}
      PROVE  Failed(B!GetFreeBlock(v, type))
  BY <1>1, <1>4, <1>8 DEF B!GetFreeBlock
<1>5. \A limit : Failed(B!GetLogBlock(s, limit))
  <2>1. ASSUME NEW limit PROVE Failed(B!GetLogBlock(s, limit))
    <3>1. Failed([s EXCEPT !.asserted = @ /\ s.log_active \in 0 .. limit])
      BY DEF Failed
    <3> QED
      BY <1>8, <3>1 DEF B!GetLogBlock
  <2> QED
    BY <2>1
<1>6. ASSUME NEW b, NEW from PROVE Failed(B!MovePages(s, b, from))
  <2>1. Failed([s EXCEPT !.state = B!With(@, B!Range(from), "INVALID")])
    BY DEF Failed
  <2>2. ASSUME NEW u, Failed(u) PROVE Failed(B!CopyPages(u, b, from))
    BY <2>2 DEF Failed, B!CopyPages
  <2> QED
    BY <2>1, <2>2 DEF B!MovePages
<1>7. ASSUME NEW p, NEW l PROVE Failed(B!WritePage(s, p, l))
  <2>1. Failed(B!Program(s, p, l))
    BY DEF Failed, B!Program
  <2> QED
    BY <2>1 DEF Failed, B!WritePage
<1> QED
  BY <1>1, <1>2, <1>3, <1>5, <1>6, <1>7, <1>8

LEMMA FailedMerge ==
  ASSUME NEW s, Failed(s), NEW k
  PROVE  Failed(B!Merge(s, k)) /\ Failed(B!EraseOld(B!CopyMerged(s, k), k))
<1>1. ASSUME NEW u, Failed(u) PROVE Failed(B!EraseData(u, k))
  BY <1>1, FailedManager DEF B!EraseData
<1>2. ASSUME NEW u, Failed(u), NEW d, NEW e
      PROVE  Failed(WithMaps(u, k, d, e))
  BY <1>2 DEF Failed, WithMaps
<1>3. Failed(B!SwitchMerge(s, k))
  <2>1. B!SwitchMerge(s, k)
          = WithMaps(B!EraseData(B!PromoteBlock(s), k), k, s.log_map[k].address, B!NoLog)
    BY DEF B!SwitchMerge, WithMaps
  <2>2. Failed(B!EraseData(B!PromoteBlock(s), k))
    BY <1>1, FailedManager
  <2> QED
    BY <1>2, <2>1, <2>2
<1>4. ASSUME NEW u, Failed(u) PROVE Failed(B!EraseOld(B!CopyMerged(u, k), k))
  <2>1. Failed(B!CopyMerged(u, k))
    BY <1>4, FailedManager DEF B!CopyMerged
  <2>2. ASSUME NEW v, Failed(v) PROVE Failed(B!EraseOld(v, k))
    <3> DEFINE e == B!EraseData(B!EraseAndInvalidate(v, v.log_map[k].address, "LOG"), k)
    <3>1. B!EraseOld(v, k) = WithMaps(e, k, v.got, B!NoLog)
      BY DEF B!EraseOld, WithMaps
    <3>2. Failed(e)
      BY <1>1, <2>2, FailedManager
    <3> HIDE DEF e
    <3> QED
      BY <1>2, <3>1, <3>2
  <2> QED
    BY <2>1, <2>2
<1>5. Failed(B!RandomMerge(s, k))
  BY <1>4, FailedManager DEF B!RandomMerge
<1> QED
  BY <1>3, <1>4, <1>5 DEF B!Merge

LEMMA FailedLog ==
  ASSUME NEW s, Failed(s), NEW k
  PROVE  /\ \A v : Failed(B!AllocateLogBlock(s, k, v))
         /\ Failed(B!MergeFull(s, k))
         /\ \A v : Failed(B!Prepared(s, k, v))
         /\ \A i, l : Failed(B!WriteLog(s, k, i, l))
<1>1. ASSUME NEW u, Failed(u) PROVE Failed(B!UseLog(u, k))
  BY <1>1 DEF Failed, B!UseLog
<1>2. ASSUME NEW u, Failed(u), NEW v PROVE Failed(B!AllocateLogBlock(u, k, v))
  BY <1>1, <1>2, FailedManager, FailedMerge DEF B!AllocateLogBlock
<1>3. ASSUME NEW u, Failed(u) PROVE Failed(B!MergeFull(u, k))
  BY <1>2, <1>3, FailedMerge DEF B!MergeFull
<1>4. \A v : Failed(B!Prepared(s, k, v))
  BY <1>2, <1>3 DEF B!Prepared
<1>5. ASSUME NEW i, NEW l PROVE Failed(B!WriteLog(s, k, i, l))
  <2>1. ASSUME NEW n PROVE Failed([s EXCEPT !.log_map[k].pages[i] = n])
    BY DEF Failed
  <2>2. ASSUME NEW u, Failed(u), NEW set
        PROVE  Failed([u EXCEPT !.state = B!With(@, set, "INVALID")])
    BY <2>2 DEF Failed
  <2>3. ASSUME NEW n, NEW p
        PROVE  Failed(B!WritePage([s EXCEPT !.log_map[k].pages[i] = n], p, l))
    BY <2>1, FailedManager
  <2> QED
    BY <2>2, <2>3 DEF B!WriteLog
<1> QED
  BY <1>2, <1>3, <1>4, <1>5

(* A merge, of either kind: it may need a block.                           *)
LEMMA MergeFacts ==
  ASSUME NEW s, NEW written, NEW kept, Good(s, written, kept), NEW k \in B!Lbas, B!HasLog(s, k)
  PROVE  LET r == B!Merge(s, k)
         IN  /\ Failed(r) \/ (r.asserted /\ Merged(r, s, k, written, kept) /\ s.asserted)
             /\ s.asserted /\ Room(s) => r.asserted
<1> DEFINE r == B!Merge(s, k)
<1>1. s \in States /\ Owned(s, {}) /\ Cardinality(B!Logs(s)) <= BastLimit /\ s.asserted \in BOOLEAN
  BY DEF Good, States
<1>2. CASE B!IsSequential(s, k)
  <2>1. r = B!SwitchMerge(s, k)
    BY <1>2 DEF B!Merge
  <2> HIDE DEF r
  <2>2. Merged(r, s, k, written, kept) /\ r.asserted = s.asserted
    BY <1>2, <2>1, SwitchMergeFacts
  <2>3. "asserted" \in DOMAIN r
    BY <2>2 DEF Merged, Good, States
  <2>4. /\ Failed(r) \/ (r.asserted /\ Merged(r, s, k, written, kept) /\ s.asserted)
        /\ s.asserted /\ Room(s) => r.asserted
    BY <1>1, <2>2, <2>3 DEF Failed
  <2> QED
    BY <2>4 DEF r
<1>3. CASE ~B!IsSequential(s, k)
  <2> DEFINE g == B!GetFreeBlock(s, "DATA")
  <2>1. r = B!RandomMerge(s, k) /\ r = B!EraseOld(B!CopyMerged(g, k), k)
    BY <1>3 DEF B!Merge, B!RandomMerge
  <2>2. /\ g \in States /\ (g.asserted => s.asserted)
        /\ (s.asserted /\ Free(s) # {} => g.asserted)
    BY <1>1, GetFreeBlockFacts
  <2>3. g.asserted \in BOOLEAN /\ DOMAIN g = DOMAIN s /\ "asserted" \in DOMAIN g
    BY <1>1, <2>2 DEF States
  <2>4. ASSUME g.asserted PROVE Merged(r, s, k, written, kept) /\ r.asserted
    BY <2>1, <2>4, RandomMergeFacts
  <2> HIDE DEF g, r
  <2>5. ~g.asserted => Failed(r)
    <3>1. ASSUME ~g.asserted PROVE Failed(g)
      BY <2>3, <3>1 DEF Failed
    <3> QED
      BY <2>1, <3>1, FailedMerge
  <2>6. s.asserted /\ Room(s) => g.asserted
    BY <1>1, <2>2, RoomLeft
  <2>7. /\ Failed(r) \/ (r.asserted /\ Merged(r, s, k, written, kept) /\ s.asserted)
        /\ s.asserted /\ Room(s) => r.asserted
    BY <2>2, <2>4, <2>5, <2>6
  <2> QED
    BY <2>7 DEF r
<1> QED
  BY <1>2, <1>3

-----------------------------------------------------------------------------
(* A new log.                                                              *)

LEMMA UseLogFacts ==
  ASSUME NEW s, NEW written, NEW kept, Good(s, written, kept), NEW k \in B!Lbas, ~B!HasLog(s, k),
         Cardinality(B!Logs(s)) < BastLimit,
         NEW g, g = B!GetFreeBlock(s, "LOG"), g.asserted
  PROVE  LET r == B!UseLog(g, k)
         IN  /\ Good(r, written, kept) /\ B!HasLog(r, k)
             /\ r.pages_valid[Address(r, k)] = 0
             /\ r.first_free = s.first_free /\ r.asserted /\ s.asserted
<1> DEFINE r == B!UseLog(g, k)
<1>1. /\ s \in States /\ Counted(s)
  BY DEF Good
<1>2. /\ g \in States /\ s.asserted
      /\ Owned(g, {g.got}) /\ Clean(g, {g.got}) /\ Held(g, written, kept)
      /\ SameLayer(g, s) /\ g.first_free = s.first_free
      /\ g.got \in B!Blocks
      /\ g.data_active = s.data_active /\ g.log_active = s.log_active + 1
  <2>1. s.data_active \in Int
    BY <1>1 DEF States
  <2>2. /\ g \in States /\ s.asserted
        /\ Owned(g, {g.got}) /\ Clean(g, {g.got}) /\ Held(g, written, kept)
        /\ SameLayer(g, s) /\ g.first_free = s.first_free
        /\ g.got \in B!Blocks
        /\ g.data_active = s.data_active + IF "LOG" = "DATA" THEN 1 ELSE 0
        /\ g.log_active = s.log_active + IF "LOG" = "LOG" THEN 1 ELSE 0
    BY GotBlock
  <2> QED
    BY <2>1, <2>2
<1>3. PICK b, d, e : b = g.got /\ d = g.data_list[k] /\ e = B!NewLog(b)
  OBVIOUS
<1>4. /\ e \in LogEntries /\ e.address = b
      /\ e.pages = [i \in B!Offsets |-> -1]
      /\ b \in B!Blocks /\ d \in B!Blocks \cup {-1} /\ -1 \notin B!Blocks
  <2>1. e = [address |-> b, pages |-> [i \in B!Offsets |-> -1]]
    BY <1>3 DEF B!NewLog
  <2>2. [i \in B!Offsets |-> -1] \in [B!Offsets -> B!Offsets \cup {-1}]
    OBVIOUS
  <2> QED
    BY <1>2, <1>3, <2>1, <2>2, LogFacts DEF LogEntries
<1>5. r = WithMaps(g, k, d, e)
  BY <1>2, <1>3 DEF B!UseLog, WithMaps, States
<1> HIDE DEF r
<1>6. /\ r \in States
      /\ SameFlash(r, g) /\ SameLists(r, g) /\ SameCounts(r, g) /\ SameCall(r, g)
      /\ r.data_list[k] = d /\ r.log_map[k] = e /\ Address(r, k) = b
      /\ \A j \in B!Lbas \ {k} : r.data_list[j] = g.data_list[j] /\ r.log_map[j] = g.log_map[j]
  <2>1. g \in States /\ k \in B!Lbas /\ e \in LogEntries /\ d \in B!Blocks \cup {-1}
    BY <1>2, <1>4
  <2>2. /\ r \in States
        /\ SameFlash(r, g) /\ SameLists(r, g) /\ SameCounts(r, g) /\ SameCall(r, g)
        /\ r.data_list[k] = d /\ r.log_map[k] = e /\ Address(r, k) = e.address
        /\ \A j \in B!Lbas \ {k} : r.data_list[j] = g.data_list[j] /\ r.log_map[j] = g.log_map[j]
    BY ONLY <1>5, <2>1, MapsSet
  <2> QED
    BY <1>4, <2>2
<1>7. /\ ~B!HasLog(g, k) /\ Address(g, k) = -1 /\ (B!HasData(g, k) <=> d # -1)
      /\ B!HasLog(r, k) /\ (B!HasData(r, k) <=> d # -1)
      /\ \A j \in B!Lbas : g.data_list[j] = s.data_list[j] /\ g.log_map[j] = s.log_map[j]
  <2>1. ~B!HasLog(g, k) /\ \A j \in B!Lbas : g.data_list[j] = s.data_list[j] /\ g.log_map[j] = s.log_map[j]
    BY <1>2 DEF SameLayer, B!HasLog
  <2> QED
    BY <1>2, <1>3, <1>4, <1>6, <2>1, LogFacts
<1>8. /\ OwnedBy(g, k) \cup {b} = OwnedBy(r, k) /\ b # -1
      /\ d # -1 => d # b
  <2>1. OwnedBy(g, k) = {d, -1} \ {-1} /\ OwnedBy(r, k) = {d, b} \ {-1} /\ b # -1
    BY <1>3, <1>4, <1>6, <1>7 DEF OwnedBy
  <2>2. d # -1 => d # b
    BY <1>2, <1>3, <1>7, LogFacts DEF Owned
  <2> QED
    BY <2>1, <2>2
<1>9. Moves(r, g, k, {b}, {}, {})
  <2>1. /\ r.first_free = g.first_free /\ r.current_free = g.current_free
        /\ r.free_list = g.free_list /\ Free(r) = Free(g) /\ Listed(r) = Listed(g)
    BY <1>6 DEF SameLists, Free, Listed
  <2>2. /\ \A m, n \in DOMAIN g.free_list : g.free_list[m] = g.free_list[n] => m = n
        /\ \A c \in Listed(g) : c < g.current_free
    BY <1>2 DEF Owned
  <2>3. \A c \in B!Blocks : Untouched(r, g, c, k)
    BY <1>6 DEF Untouched, SameFlash, StateOf, DataOf
  <2> QED
    BY <1>6, <1>8, <2>1, <2>2, <2>3 DEF Moves
<1>10. Owned(r, {}) /\ Clean(r, {}) /\ HeldElsewhere(r, k, written, kept)
  <2>1. HeldElsewhere(g, k, written, kept)
    BY <1>2 DEF Held, HeldElsewhere
  <2>2. g \in States /\ r \in States /\ Owned(g, {b}) /\ Clean(g, {b}) /\ k \in B!Lbas
    BY <1>2, <1>3, <1>6
  <2>3. /\ written \subseteq written
        /\ \A j \in B!Lbas \ {k}, i \in B!Offsets : B!Page(j, i) \in kept => B!Page(j, i) \in kept
    OBVIOUS
  <2> QED
    BY ONLY <1>9, <2>1, <2>2, <2>3, Moved
<1>11. Blank(r, b)
  BY <1>2, <1>3, <1>6 DEF Clean, Blank, SameFlash, StateOf
<1>12. HeldAt(r, k, written, kept) /\ LogFresh(r, k)
  <2>1. ASSUME NEW i \in B!Offsets
        PROVE  /\ ~B!InLog(r, k, i) /\ ~B!InLog(g, k, i)
               /\ DataValid(r, k, i) <=> DataValid(g, k, i)
               /\ DataHolds(g, k, i, written) => DataHolds(r, k, i, written)
    <3>1. ~B!InLog(r, k, i) /\ ~B!InLog(g, k, i)
      BY <1>4, <1>6, <1>7 DEF B!InLog
    <3>2. DataValid(r, k, i) <=> DataValid(g, k, i)
      BY <1>3, <1>6, <1>7 DEF DataValid, SameFlash, StateOf
    <3>3. DataHolds(g, k, i, written) => DataHolds(r, k, i, written)
      BY <1>3, <1>6, <3>1 DEF DataHolds, SameFlash, DataOf
    <3> QED
      BY <3>1, <3>2, <3>3
  <2>2. HeldAt(g, k, written, kept)
    BY <1>2 DEF Held
  <2>3. HeldAt(r, k, written, kept)
    BY <2>1, <2>2 DEF HeldAt
  <2>4. LogFresh(r, k)
    BY <1>6, <1>11 DEF LogFresh, Blank
  <2> QED
    BY <2>3, <2>4
<1>13. Held(r, written, kept)
  BY <1>10, <1>12 DEF Held, HeldElsewhere
<1>14. /\ Cardinality(DataLbas(r)) = Cardinality(DataLbas(s))
       /\ Cardinality(B!Logs(r)) = Cardinality(B!Logs(s)) + 1
       /\ Cardinality(B!Logs(s)) \in Nat /\ Cardinality(DataLbas(s)) \in Nat
  <2>1. \A j \in B!Lbas \ {k} : r.data_list[j] = s.data_list[j] /\ r.log_map[j] = s.log_map[j]
    BY <1>6, <1>7
  <2>2. /\ Cardinality(DataLbas(r)) + (IF B!HasData(s, k) THEN 1 ELSE 0)
             = Cardinality(DataLbas(s)) + (IF B!HasData(r, k) THEN 1 ELSE 0)
        /\ Cardinality(B!Logs(r)) + (IF B!HasLog(s, k) THEN 1 ELSE 0)
             = Cardinality(B!Logs(s)) + (IF B!HasLog(r, k) THEN 1 ELSE 0)
    BY <1>1, <1>6, <2>1, CountMoved
  <2>3. B!HasData(r, k) <=> B!HasData(s, k)
    BY <1>3, <1>6, <1>7 DEF B!HasData
  <2>4. /\ Cardinality(DataLbas(r)) \in Nat /\ Cardinality(DataLbas(s)) \in Nat
        /\ Cardinality(B!Logs(r)) \in Nat /\ Cardinality(B!Logs(s)) \in Nat
    BY LbaSets
  <2> QED
    BY <1>7, <2>2, <2>3, <2>4
<1>15. Counted(r)
  BY <1>1, <1>2, <1>6, <1>14 DEF Counted, SameCounts
<1>16. Cardinality(B!Logs(r)) <= BastLimit
  BY <1>14, ConfigFacts
<1>17. r.first_free = s.first_free /\ r.asserted
  BY <1>2, <1>6 DEF SameLists, SameCall
<1> QED
  BY <1>2, <1>6, <1>7, <1>10, <1>11, <1>13, <1>15, <1>16, <1>17 DEF Good, Blank, r

(* What a write needs before it writes.                                    *)
Ready(r, s, k, written, kept) ==
  /\ Good(r, written, kept) /\ B!HasLog(r, k)
  /\ r.pages_valid[Address(r, k)] < BlockSize
  /\ r.first_free = s.first_free

(* get_free_block(LOG): as for data, unless there are more logs than there *)
(* may be.                                                                 *)
LEMMA GetLogBlockFacts ==
  ASSUME NEW s \in States
  PROVE  LET g == B!GetLogBlock(s, NumberOfBlocks)
         IN  IF s.log_active \in 0 .. NumberOfBlocks THEN g = B!GetFreeBlock(s, "LOG")
             ELSE Failed(g)
<1> DEFINE fits == s.log_active \in 0 .. NumberOfBlocks
<1>1. CASE fits
  <2>1. [s EXCEPT !.asserted = @ /\ s.log_active \in 0 .. NumberOfBlocks] = s
    BY <1>1 DEF States
  <2> QED
    BY <1>1, <2>1 DEF B!GetLogBlock
<1>2. CASE ~fits
  <2> DEFINE u == [s EXCEPT !.asserted = FALSE]
  <2>1. [s EXCEPT !.asserted = @ /\ s.log_active \in 0 .. NumberOfBlocks] = u
    BY <1>2
  <2>2. Failed(u)
    BY DEF Failed, States
  <2>3. ASSUME NEW v, Failed(v) PROVE Failed(B!GetFreeBlock(v, "LOG"))
    BY <2>3, FailedManager
  <2> QED
    BY <1>2, <2>1, <2>2, <2>3 DEF B!GetLogBlock
<1> QED
  BY <1>1, <1>2

(* allocate_new_logblock, with the victim merged first when there are      *)
(* enough logs.                                                            *)
LEMMA AllocateLogBlockFacts ==
  ASSUME NEW s, NEW written, NEW kept, Good(s, written, kept), NEW k \in B!Lbas, ~B!HasLog(s, k),
         NEW v \in B!Lbas, Cardinality(B!Logs(s)) >= BastLimit => B!HasLog(s, v)
  PROVE  LET r == B!AllocateLogBlock(s, k, v)
         IN  /\ Failed(r) \/ (r.asserted /\ Ready(r, s, k, written, kept) /\ s.asserted)
             /\ s.asserted /\ Room(s) => r.asserted
<1> DEFINE full == Cardinality(B!Logs(s)) >= BastLimit
           m == IF full THEN B!Merge(s, v) ELSE s
           g == B!GetLogBlock(m, NumberOfBlocks)
           r == B!AllocateLogBlock(s, k, v)
<1>1. s \in States /\ s.asserted \in BOOLEAN /\ Cardinality(B!Logs(s)) <= BastLimit
  BY DEF Good, States
<1>2. r = B!UseLog(g, k)
  BY CardinalitySame DEF B!AllocateLogBlock, B!LogsFull
<1>3. /\ \/ Failed(m)
         \/ /\ Good(m, written, kept) /\ ~B!HasLog(m, k) /\ m.asserted /\ s.asserted
            /\ Cardinality(B!Logs(m)) < BastLimit
            /\ m.first_free = s.first_free
      /\ s.asserted /\ Room(s) => m.asserted
  <2>1. CASE full
    <3>1. B!HasLog(s, v) /\ v # k
      BY <2>1
    <3>2. m = B!Merge(s, v)
      BY <2>1
    <3> HIDE DEF m
    <3>3. /\ Failed(m) \/ (m.asserted /\ Merged(m, s, v, written, kept) /\ s.asserted)
          /\ s.asserted /\ Room(s) => m.asserted
      BY <3>1, <3>2, MergeFacts
    <3>4. ASSUME Merged(m, s, v, written, kept)
          PROVE  /\ Good(m, written, kept) /\ ~B!HasLog(m, k) /\ m.first_free = s.first_free
                 /\ Cardinality(B!Logs(m)) < BastLimit
      <4>1. /\ Good(m, written, kept) /\ m.first_free = s.first_free
            /\ B!Logs(m) = B!Logs(s) \ {v} /\ m \in States
        BY <3>4 DEF Merged, Good
      <4>2. ~B!HasLog(m, k)
        BY <1>1, <4>1, LogFacts
      <4>3. v \in B!Logs(s) /\ IsFiniteSet(B!Logs(s))
        BY <1>1, <3>1, LogFacts, LbaSets
      <4>4. Cardinality(B!Logs(m)) = Cardinality(B!Logs(s)) - 1
        BY <4>1, <4>3, FS_RemoveElement
      <4>5. Cardinality(B!Logs(s)) \in Nat
        BY LbaSets
      <4> QED
        BY <1>1, <4>1, <4>2, <4>4, <4>5, ConfigFacts
    <3> QED
      BY <3>3, <3>4
  <2>2. CASE ~full
    <3>1. m = s
      BY <2>2
    <3>2. Cardinality(B!Logs(s)) < BastLimit
      BY <2>2, LbaSets, ConfigFacts
    <3>3. ~s.asserted => Failed(s)
      BY <1>1 DEF States, Failed
    <3> HIDE DEF m
    <3> QED
      BY <3>1, <3>2, <3>3
  <2> QED
    BY <2>1, <2>2
<1> HIDE DEF full, m, g, r
<1>4. CASE m.asserted
  <2>1. /\ Good(m, written, kept) /\ ~B!HasLog(m, k) /\ s.asserted
        /\ Cardinality(B!Logs(m)) < BastLimit /\ m.first_free = s.first_free
        /\ m \in States /\ Owned(m, {}) /\ Cardinality(B!Logs(m)) <= BastLimit
    BY <1>3, <1>4 DEF Good, Failed
  <2> DEFINE fits == m.log_active \in 0 .. NumberOfBlocks
             f == B!GetFreeBlock(m, "LOG")
  <2>8. (fits /\ g = f) \/ (~fits /\ Failed(g))
    BY <2>1, GetLogBlockFacts DEF g
  <2>2. /\ f \in States
        /\ m.asserted /\ Free(m) # {} => f.asserted
    BY <2>1, GetFreeBlockFacts
  <2>9. Room(s) => fits
    <3>1. m.log_active = Cardinality(B!Logs(m)) /\ Cardinality(B!Logs(m)) \in Nat
      BY <2>1, LbaSets DEF Good, Counted
    <3>2. m.first_free \in Nat
      BY <2>1, ConfigFacts DEF States
    <3> QED
      BY <2>1, <3>1, <3>2, ConfigFacts DEF Room
  <2> HIDE DEF f, fits
  <2>3. g.asserted \in BOOLEAN /\ "asserted" \in DOMAIN g
    BY <2>2, <2>8 DEF States, Failed
  <2>4. Room(s) => g.asserted
    <3>1. Room(s) => Room(m)
      BY <2>1 DEF Room
    <3> QED
      BY <1>4, <2>1, <2>2, <2>8, <2>9, <3>1, RoomLeft
  <2>5. ASSUME g.asserted
        PROVE  Ready(r, s, k, written, kept) /\ r.asserted
    <3>1. g = B!GetFreeBlock(m, "LOG")
      BY <2>5, <2>8 DEF f, Failed
    <3>2. /\ Good(r, written, kept) /\ B!HasLog(r, k)
          /\ r.pages_valid[Address(r, k)] = 0
          /\ r.first_free = m.first_free /\ r.asserted
      BY <1>2, <2>1, <2>5, <3>1, UseLogFacts
    <3> QED
      BY <2>1, <3>2, ConfigFacts DEF Ready
  <2>6. ASSUME ~g.asserted PROVE Failed(r)
    BY <1>2, <2>3, <2>6 DEF B!UseLog, Failed
  <2>7. /\ Failed(r) \/ (r.asserted /\ Ready(r, s, k, written, kept) /\ s.asserted)
        /\ s.asserted /\ Room(s) => r.asserted
    BY <2>1, <2>4, <2>5, <2>6
  <2> QED
    BY <2>7 DEF r
<1>5. CASE ~m.asserted
  <2>1. Failed(m)
    BY <1>3, <1>5
  <2>2. Failed(g)
    BY <2>1, FailedManager DEF g
  <2>3. Failed(r)
    BY <1>2, <2>2 DEF B!UseLog, Failed
  <2>4. /\ Failed(r) \/ (r.asserted /\ Ready(r, s, k, written, kept) /\ s.asserted)
        /\ s.asserted /\ Room(s) => r.asserted
    BY <1>3, <1>5, <2>3
  <2> QED
    BY <2>4 DEF r
<1> QED
  BY <1>3, <1>4, <1>5

(* What a step of preparing a write comes to.                              *)
Prepares(r, s, k, written, kept) ==
  /\ Failed(r) \/ (r.asserted /\ Ready(r, s, k, written, kept) /\ s.asserted)
  /\ s.asserted /\ Room(s) => r.asserted

(* A full log is merged and a new one allocated.                           *)
LEMMA MergeFullFacts ==
  ASSUME NEW s, NEW written, NEW kept, Good(s, written, kept), NEW k \in B!Lbas, B!HasLog(s, k),
         s.asserted
  PROVE  Prepares(B!MergeFull(s, k), s, k, written, kept)
<1> DEFINE m == B!Merge(s, k)
           r == B!AllocateLogBlock(m, k, k)
<1>1. CASE s.pages_valid[s.log_map[k].address] < BlockSize
  <2>1. Ready(s, s, k, written, kept)
    BY <1>1 DEF Ready, Address
  <2>2. B!MergeFull(s, k) = s
    BY <1>1 DEF B!MergeFull
  <2> QED
    BY <2>1, <2>2 DEF Prepares
<1>2. CASE ~(s.pages_valid[s.log_map[k].address] < BlockSize)
  <2>1. B!MergeFull(s, k) = r
    BY <1>2 DEF B!MergeFull
  <2>2. /\ Failed(m) \/ (m.asserted /\ Merged(m, s, k, written, kept) /\ s.asserted)
        /\ s.asserted /\ Room(s) => m.asserted
    BY MergeFacts
  <2>3. CASE Failed(m)
    <3>1. Failed(r)
      BY <2>3, FailedLog
    <3>2. ~m.asserted
      BY <2>3 DEF Failed
    <3> HIDE DEF m, r
    <3> QED
      BY <2>1, <2>2, <3>1, <3>2 DEF Prepares
  <2>4. CASE m.asserted /\ Merged(m, s, k, written, kept)
    <3> HIDE DEF m
    <3>1. /\ Good(m, written, kept) /\ ~B!HasLog(m, k) /\ m.first_free = s.first_free
          /\ B!Logs(m) = B!Logs(s) \ {k} /\ m.asserted
      BY <2>4 DEF Merged
    <3>2. Cardinality(B!Logs(m)) < BastLimit
      <4>1. s \in States /\ Cardinality(B!Logs(s)) <= BastLimit
        BY DEF Good
      <4>2. k \in B!Logs(s) /\ IsFiniteSet(B!Logs(s)) /\ Cardinality(B!Logs(s)) \in Nat
        BY <4>1, LogFacts, LbaSets
      <4>3. Cardinality(B!Logs(m)) = Cardinality(B!Logs(s)) - 1
        BY <3>1, <4>2, FS_RemoveElement
      <4> QED
        BY <4>1, <4>2, <4>3, ConfigFacts
    <3>3. ~(Cardinality(B!Logs(m)) >= BastLimit)
      BY <3>2, LbaSets, ConfigFacts
    <3>4. /\ Failed(r) \/ (r.asserted /\ Ready(r, m, k, written, kept) /\ m.asserted)
          /\ m.asserted /\ Room(m) => r.asserted
      BY <3>1, <3>3, AllocateLogBlockFacts
    <3> HIDE DEF r
    <3>5. /\ Ready(r, m, k, written, kept) => Ready(r, s, k, written, kept)
          /\ Room(m) <=> Room(s)
      BY <3>1 DEF Ready, Room
    <3> QED
      BY <2>1, <3>1, <3>4, <3>5 DEF Prepares
  <2> QED
    BY <2>2, <2>3, <2>4
<1> QED
  BY <1>1, <1>2

(* The log that a write goes to has room for it.                           *)
LEMMA PreparedFacts ==
  ASSUME NEW s, NEW written, NEW kept, Good(s, written, kept), NEW k \in B!Lbas,
         s.asserted, NEW v \in B!Lbas,
         ~B!HasLog(s, k) /\ Cardinality(B!Logs(s)) >= BastLimit => B!HasLog(s, v)
  PROVE  Prepares(B!Prepared(s, k, v), s, k, written, kept)
<1> DEFINE a == B!AllocateLogBlock(s, k, v)
           r == B!Prepared(s, k, v)
<1>1. CASE B!HasLog(s, k)
  <2>1. r = B!MergeFull(s, k)
    BY <1>1 DEF B!Prepared
  <2> QED
    BY <1>1, <2>1, MergeFullFacts
<1>2. CASE ~B!HasLog(s, k)
  <2>1. r = B!MergeFull(a, k)
    BY <1>2 DEF B!Prepared
  <2>2. /\ Failed(a) \/ (a.asserted /\ Ready(a, s, k, written, kept) /\ s.asserted)
        /\ s.asserted /\ Room(s) => a.asserted
    BY <1>2, AllocateLogBlockFacts
  <2> HIDE DEF a, r
  <2>3. CASE Failed(a)
    <3>1. Failed(r) /\ ~a.asserted
      BY <2>1, <2>3, FailedLog DEF Failed
    <3> QED
      BY <2>2, <3>1 DEF Prepares, r
  <2>4. CASE a.asserted /\ Ready(a, s, k, written, kept)
    <3>1. Good(a, written, kept) /\ B!HasLog(a, k) /\ a.first_free = s.first_free /\ a.asserted
      BY <2>4 DEF Ready
    <3>2. Prepares(r, a, k, written, kept)
      BY <2>1, <3>1, MergeFullFacts
    <3>3. /\ Ready(r, a, k, written, kept) => Ready(r, s, k, written, kept)
          /\ Room(a) <=> Room(s)
      BY <3>1 DEF Ready, Room
    <3> QED
      BY <3>1, <3>2, <3>3 DEF Prepares, r
  <2> QED
    BY <2>2, <2>3, <2>4
<1> QED
  BY <1>1, <1>2

-----------------------------------------------------------------------------
(* Single pages.                                                           *)

LEMMA WritePageFacts ==
  ASSUME NEW s \in States, NEW p \in B!Pages, NEW l \in B!Lpns,
         s.state[p] = "EMPTY", s.pages_valid[B!BlockOf(p)] < BlockSize
  PROVE  LET r == B!WritePage(s, p, l)
         IN  /\ r \in States
             /\ SameLayer(r, s) /\ SameLists(r, s) /\ SameCounts(r, s) /\ SameCall(r, s)
             /\ \A q \in B!Pages :
                  /\ r.state[q] = IF q = p THEN "VALID" ELSE s.state[q]
                  /\ r.data[q] = IF q = p THEN l ELSE IF s.data[q] = l THEN -1 ELSE s.data[q]
             /\ \A c \in B!Blocks :
                  r.pages_valid[c] = s.pages_valid[c] + IF c = B!BlockOf(p) THEN 1 ELSE 0
<1> DEFINE old == {q \in B!Pages : s.data[q] = l}
           st == [s.state EXCEPT ![p] = "VALID"]
           da == [B!With(s.data, old, B!Junk) EXCEPT ![p] = l]
           u  == [s EXCEPT !.asserted = s.asserted /\ s.state[p] = "EMPTY",
                           !.state = st, !.data = da]
           pv == [s.pages_valid EXCEPT ![B!BlockOf(p)] = @ + 1]
           r == B!WritePage(s, p, l)
<1>1. B!Program(s, p, l) = u
  BY DEF B!Program
<1>2. /\ st \in [B!Pages -> {"EMPTY", "VALID", "INVALID"}]
      /\ \A q \in B!Pages : st[q] = IF q = p THEN "VALID" ELSE s.state[q]
  BY DEF States
<1>3. /\ da \in [B!Pages -> B!Lpns \cup {-1}]
      /\ \A q \in B!Pages : da[q] = IF q = p THEN l ELSE IF s.data[q] = l THEN -1 ELSE s.data[q]
  BY DEF States, B!With, B!Junk
<1>4. B!BlockOf(p) \in B!Blocks
  BY Addresses
<1>5. /\ pv \in [B!Blocks -> 0 .. BlockSize]
      /\ \A c \in B!Blocks : pv[c] = s.pages_valid[c] + IF c = B!BlockOf(p) THEN 1 ELSE 0
  BY <1>4, ConfigFacts DEF States
<1>6. s.asserted \in BOOLEAN /\ (s.asserted /\ s.state[p] = "EMPTY") = s.asserted
  BY DEF States
<1>7. u.pages_valid = s.pages_valid
  BY DEF States
<1>8. r = [u EXCEPT !.pages_valid = pv]
  BY <1>1, <1>7 DEF B!WritePage
<1> HIDE DEF st, da, pv
<1>9. r = [s EXCEPT !.asserted = s.asserted, !.state = st, !.data = da, !.pages_valid = pv]
  BY <1>6, <1>8
<1> HIDE DEF r
<1>10. /\ r \in States /\ r.state = st /\ r.data = da /\ r.pages_valid = pv
       /\ SameLayer(r, s) /\ SameLists(r, s) /\ SameCounts(r, s) /\ SameCall(r, s)
  BY <1>2, <1>3, <1>5, <1>9 DEF States, SameLayer, SameLists, SameCounts, SameCall
<1> QED
  BY <1>2, <1>3, <1>5, <1>10 DEF r

WithInvalid(s, set) == [s EXCEPT !.state = B!With(@, set, "INVALID")]

LEMMA InvalidateFacts ==
  ASSUME NEW s \in States, NEW set \in SUBSET B!Pages
  PROVE  LET r == WithInvalid(s, set)
         IN  /\ r \in States /\ r.data = s.data /\ r.pages_valid = s.pages_valid
             /\ SameLayer(r, s) /\ SameLists(r, s) /\ SameCounts(r, s) /\ SameCall(r, s)
             /\ \A q \in B!Pages : r.state[q] = IF q \in set THEN "INVALID" ELSE s.state[q]
<1> DEFINE st == B!With(s.state, set, "INVALID")
           r == WithInvalid(s, set)
<1>1. /\ st \in [B!Pages -> {"EMPTY", "VALID", "INVALID"}]
      /\ \A q \in B!Pages : st[q] = IF q \in set THEN "INVALID" ELSE s.state[q]
  BY DEF States, B!With
<1>2. r = [s EXCEPT !.state = st]
  BY DEF WithInvalid
<1> HIDE DEF st, r
<1>3. /\ r \in States /\ r.data = s.data /\ r.pages_valid = s.pages_valid /\ r.state = st
      /\ SameLayer(r, s) /\ SameLists(r, s) /\ SameCounts(r, s) /\ SameCall(r, s)
  BY <1>1, <1>2 DEF States, SameLayer, SameLists, SameCounts, SameCall
<1> QED
  BY <1>1, <1>3 DEF r

LEMMA InvalidatePageSame ==
  ASSUME NEW s \in States, NEW p \in B!Pages
  PROVE  B!InvalidatePage(s, p) = WithInvalid(s, {p})
<1>1. [s.state EXCEPT ![p] = "INVALID"] = B!With(s.state, {p}, "INVALID")
  BY DEF States, B!With
<1> QED
  BY <1>1 DEF B!InvalidatePage, WithInvalid

(* Page i of the log of k is at its place n from now on.                   *)
WithPlace(s, k, i, n) == [s EXCEPT !.log_map[k].pages[i] = n]

LEMMA WithPlaceFacts ==
  ASSUME NEW s \in States, NEW k \in B!Lbas, NEW i \in B!Offsets, NEW n \in B!Offsets \cup {-1},
         B!HasLog(s, k)
  PROVE  LET r == WithPlace(s, k, i, n)
         IN  /\ r \in States
             /\ SameFlash(r, s) /\ SameLists(r, s) /\ SameCounts(r, s) /\ SameCall(r, s)
             /\ r.data_list = s.data_list
             /\ \A j \in B!Lbas \ {k} : r.log_map[j] = s.log_map[j]
             /\ Address(r, k) = Address(s, k) /\ B!HasLog(r, k)
             /\ \A j \in B!Offsets :
                  r.log_map[k].pages[j] = IF j = i THEN n ELSE s.log_map[k].pages[j]
<1> DEFINE e == s.log_map[k]
           pages == [e.pages EXCEPT ![i] = n]
           f == [e EXCEPT !.pages = pages]
           r == WithPlace(s, k, i, n)
<1>1. /\ e \in [address : B!Blocks, pages : [B!Offsets -> B!Offsets \cup {-1}]]
  <2>1. e \in LogEntries /\ e # B!NoLog
    BY DEF States, B!HasLog
  <2> QED
    BY <2>1 DEF LogEntries
<1>2. /\ pages \in [B!Offsets -> B!Offsets \cup {-1}]
      /\ \A j \in B!Offsets : pages[j] = IF j = i THEN n ELSE e.pages[j]
  BY <1>1
<1>3. r = WithMaps(s, k, s.data_list[k], f)
  <2>1. r = [s EXCEPT !.log_map[k] = f]
    BY DEF WithPlace
  <2>2. [s.data_list EXCEPT ![k] = s.data_list[k]] = s.data_list
    BY DEF States
  <2> HIDE DEF f, r
  <2>3. [s EXCEPT !.log_map[k] = f]
          = [s EXCEPT !.data_list[k] = s.data_list[k], !.log_map[k] = f]
    BY <2>2 DEF States
  <2> QED
    BY <2>1, <2>3 DEF WithMaps
<1> HIDE DEF e, pages
<1>4. /\ f \in LogEntries /\ f.address = e.address /\ f.pages = pages
  BY <1>1, <1>2 DEF LogEntries
<1> HIDE DEF f, r
<1>5. /\ r \in States
      /\ SameFlash(r, s) /\ SameLists(r, s) /\ SameCounts(r, s) /\ SameCall(r, s)
      /\ r.data_list[k] = s.data_list[k] /\ r.log_map[k] = f /\ Address(r, k) = f.address
      /\ \A j \in B!Lbas \ {k} : r.data_list[j] = s.data_list[j] /\ r.log_map[j] = s.log_map[j]
  <2>1. s.data_list[k] \in B!Blocks \cup {-1} /\ s \in States /\ k \in B!Lbas
    BY DEF States
  <2> QED
    BY ONLY <1>3, <1>4, <2>1, MapsSet
<1>6. r.data_list = s.data_list
  <2>1. /\ r.data_list \in [B!Lbas -> B!Blocks \cup {-1}]
        /\ s.data_list \in [B!Lbas -> B!Blocks \cup {-1}]
    BY <1>5 DEF States
  <2>2. \A j \in B!Lbas : r.data_list[j] = s.data_list[j]
    BY <1>5
  <2> QED
    BY ONLY <2>1, <2>2
<1>7. Address(r, k) = Address(s, k) /\ Address(s, k) # -1
  BY <1>4, <1>5, LogFacts DEF Address, e
<1>8. B!HasLog(r, k)
  BY <1>5, <1>7, LogFacts
<1> QED
  BY <1>2, <1>4, <1>5, <1>6, <1>7, <1>8 DEF r, e

-----------------------------------------------------------------------------
(* Operations on pages of the blocks that logical block k has.             *)

(* An operation that only changes pages of blocks that k has, and what k   *)
(* maps, keeps the invariant if it keeps what k holds.                     *)
LEMMA InPlace ==
  ASSUME NEW s, NEW r, NEW k \in B!Lbas,
         NEW written, NEW kept, NEW more, NEW less,
         Good(s, written, kept), r \in States,
         SameLists(r, s), SameCounts(r, s), r.data_list = s.data_list, Address(r, k) = Address(s, k),
         \A j \in B!Lbas \ {k} : r.log_map[j] = s.log_map[j],
         \A c \in B!Blocks \ OwnedBy(s, k) : Untouched(r, s, c, k),
         written \subseteq more,
         \A j \in B!Lbas \ {k}, i \in B!Offsets : B!Page(j, i) \in less => B!Page(j, i) \in kept,
         HeldAt(r, k, more, less), LogFresh(r, k)
  PROVE  Good(r, more, less)
<1>1. /\ s \in States /\ Owned(s, {}) /\ Counted(s) /\ Clean(s, {}) /\ Held(s, written, kept)
      /\ Cardinality(B!Logs(s)) <= BastLimit
  BY DEF Good
<1>2. /\ OwnedBy(r, k) = OwnedBy(s, k)
      /\ \A j \in B!Lbas : r.data_list[j] = s.data_list[j] /\ Address(r, j) = Address(s, j)
      /\ Free(r) = Free(s) /\ Listed(r) = Listed(s)
  BY DEF OwnedBy, Address, SameLists, Free, Listed
<1>3. DataLbas(r) = DataLbas(s) /\ B!Logs(r) = B!Logs(s)
  <2>1. \A j \in B!Lbas : (j \in DataLbas(r) <=> j \in DataLbas(s)) /\ (j \in B!Logs(r) <=> j \in B!Logs(s))
    BY <1>1, <1>2, LogFacts
  <2> QED
    BY <2>1, LbaSets
<1>4. Moves(r, s, k, {}, {}, {})
  <2>1. /\ \A m, n \in DOMAIN s.free_list : s.free_list[m] = s.free_list[n] => m = n
        /\ \A c \in Listed(s) : c < s.current_free
        /\ s.data_list[k] # -1 => s.data_list[k] # Address(s, k)
    BY <1>1, LogFacts DEF Owned
  <2> QED
    BY <1>2, <2>1 DEF Moves, SameLists
<1>5. Owned(r, {}) /\ Clean(r, {}) /\ HeldElsewhere(r, k, more, less)
  <2>1. HeldElsewhere(s, k, written, kept)
    BY <1>1 DEF Held, HeldElsewhere
  <2> QED
    BY <1>1, <1>4, <2>1, Moved
<1>6. Held(r, more, less)
  BY <1>5 DEF Held, HeldElsewhere
<1> QED
  BY <1>1, <1>3, <1>5, <1>6 DEF Good, Counted, SameCounts

(* The write itself: the next page of the log is empty, and what it        *)
(* replaces is no longer valid in the data block, or no longer mapped by   *)
(* the log.                                                                *)
LEMMA WriteLogFacts ==
  ASSUME NEW s, NEW written, NEW kept, NEW k \in B!Lbas, NEW i \in B!Offsets,
         Good(s, written, kept), B!HasLog(s, k), s.pages_valid[Address(s, k)] < BlockSize
  PROVE  LET r == B!WriteLog(s, k, i, B!Page(k, i))
         IN  /\ Good(r, written \cup {B!Page(k, i)}, kept \cup {B!Page(k, i)})
             /\ r.asserted = s.asserted /\ r.first_free = s.first_free
<1>0. PICK b, d, n, o : /\ b = Address(s, k) /\ d = s.data_list[k] /\ n = s.pages_valid[b]
                        /\ o = s.log_map[k].pages[i]
  OBVIOUS
<1> DEFINE l == B!Page(k, i)
           p == B!Page(b, n)
           R == B!Replaced(s, k, i)
           w == WithPlace(s, k, i, n)
           x == B!WritePage(w, p, l)
           r == B!WriteLog(s, k, i, l)
           more == written \cup {l}
           less == kept \cup {l}
           dead == B!HasData(s, k) /\ StateOf(s, d, i) # "EMPTY"
<1>1. /\ s \in States /\ Owned(s, {}) /\ Held(s, written, kept)
      /\ HeldAt(s, k, written, kept) /\ LogFresh(s, k)
  BY DEF Good, Held
<1>2. /\ b \in B!Blocks /\ n \in B!Offsets /\ l \in B!Lpns
      /\ d \in B!Blocks \cup {-1} /\ (B!HasData(s, k) <=> d # -1) /\ -1 \notin B!Blocks /\ d # b
      /\ o \in B!Offsets \cup {-1} /\ (B!InLog(s, k, i) <=> o # -1)
      /\ OwnedBy(s, k) = {b, d} \ {-1}
  <2>1. /\ b \in B!Blocks /\ d \in B!Blocks \cup {-1} /\ (B!HasData(s, k) <=> d # -1)
        /\ -1 \notin B!Blocks /\ o \in B!Offsets \cup {-1}
        /\ k \in B!Logs(s) /\ (k \in DataLbas(s) <=> d # -1)
    BY <1>0, <1>1, LogFacts
  <2>2. d # b
    BY <1>0, <1>1, <2>1 DEF Owned
  <2>3. n \in B!Offsets
    BY <1>0, <1>1, <2>1, ConfigFacts DEF States, B!Offsets
  <2>4. l \in B!Lpns
    BY Addresses
  <2>5. B!InLog(s, k, i) <=> o # -1
    BY <1>0 DEF B!InLog
  <2> QED
    BY <1>0, <2>1, <2>2, <2>3, <2>4, <2>5 DEF OwnedBy
<1>3. /\ p \in B!Pages /\ B!BlockOf(p) = b
      /\ \A c \in B!Blocks, j \in B!Offsets :
           /\ B!Page(c, j) \in B!Pages
           /\ B!Page(c, j) = p <=> c = b /\ j = n
  BY <1>2, Addresses
<1>4. /\ R \subseteq B!Pages
      /\ \A c \in B!Blocks, j \in B!Offsets :
           B!Page(c, j) \in R <=> \/ dead /\ c = d /\ j = i
                                  \/ ~dead /\ o # -1 /\ c = b /\ j = o
  <2>1. R = IF dead THEN {B!Page(d, i)} ELSE IF o # -1 THEN {B!Page(b, o)} ELSE {}
    BY <1>0, <1>2 DEF B!Replaced, B!DataPage, B!LogPage, StateOf, Address
  <2>2. dead => d \in B!Blocks
    BY <1>2
  <2>3. o # -1 => o \in B!Offsets
    BY <1>2
  <2> HIDE DEF R, dead
  <2>4. \A c, e \in B!Blocks, j, m \in B!Offsets : B!Page(c, j) = B!Page(e, m) <=> c = e /\ j = m
    BY Addresses
  <2> QED
    BY <1>2, <2>1, <2>2, <2>3, <2>4, Addresses
<1>5. r = WithInvalid(x, R)
  BY <1>0 DEF B!WriteLog, WithInvalid, WithPlace, Address
<1>6. /\ w \in States
      /\ SameFlash(w, s) /\ SameLists(w, s) /\ SameCounts(w, s) /\ SameCall(w, s)
      /\ w.data_list = s.data_list
      /\ \A j \in B!Lbas \ {k} : w.log_map[j] = s.log_map[j]
      /\ Address(w, k) = b /\ B!HasLog(w, k)
      /\ \A j \in B!Offsets :
           w.log_map[k].pages[j] = IF j = i THEN n ELSE s.log_map[k].pages[j]
  <2> HIDE DEF l, p, R, x, r
  <2>1. /\ s \in States /\ k \in B!Lbas /\ i \in B!Offsets /\ n \in B!Offsets \cup {-1}
        /\ B!HasLog(s, k)
    BY <1>1, <1>2
  <2>2. /\ w \in States
        /\ SameFlash(w, s) /\ SameLists(w, s) /\ SameCounts(w, s) /\ SameCall(w, s)
        /\ w.data_list = s.data_list
        /\ \A j \in B!Lbas \ {k} : w.log_map[j] = s.log_map[j]
        /\ Address(w, k) = Address(s, k) /\ B!HasLog(w, k)
        /\ \A j \in B!Offsets :
             w.log_map[k].pages[j] = IF j = i THEN n ELSE s.log_map[k].pages[j]
    BY ONLY <2>1, WithPlaceFacts
  <2> QED
    BY <1>0, <2>2
<1> HIDE DEF l, p, R, w, r
<1>7. /\ x \in States
      /\ SameLayer(x, w) /\ SameLists(x, w) /\ SameCounts(x, w) /\ SameCall(x, w)
      /\ \A q \in B!Pages :
           /\ x.state[q] = IF q = p THEN "VALID" ELSE w.state[q]
           /\ x.data[q] = IF q = p THEN l ELSE IF w.data[q] = l THEN -1 ELSE w.data[q]
      /\ \A c \in B!Blocks :
           x.pages_valid[c] = w.pages_valid[c] + IF c = b THEN 1 ELSE 0
  <2>1. w.state[p] = "EMPTY" /\ w.pages_valid[b] < BlockSize
    <3>1. s.pages_valid[b] <= n
      BY <1>0, <1>1, <1>2, ConfigFacts DEF States
    <3>2. StateOf(s, b, n) = "EMPTY"
      BY <1>0, <1>1, <1>2, <3>1 DEF LogFresh
    <3> QED
      BY <1>0, <1>6, <3>2 DEF SameFlash, StateOf, p
  <2> QED
    BY <1>2, <1>3, <1>6, <2>1, WritePageFacts
<1> HIDE DEF x
<1>8. /\ r \in States /\ r.data = x.data /\ r.pages_valid = x.pages_valid
      /\ SameLayer(r, x) /\ SameLists(r, x) /\ SameCounts(r, x) /\ SameCall(r, x)
      /\ \A q \in B!Pages : r.state[q] = IF q \in R THEN "INVALID" ELSE x.state[q]
  BY <1>4, <1>5, <1>7, InvalidateFacts
<1>9. /\ SameLists(r, s) /\ SameCounts(r, s) /\ SameCall(r, s) /\ r.data_list = s.data_list
      /\ Address(r, k) = b /\ B!HasLog(r, k)
      /\ \A j \in B!Lbas \ {k} : r.log_map[j] = s.log_map[j]
      /\ \A j \in B!Offsets :
           r.log_map[k].pages[j] = IF j = i THEN n ELSE s.log_map[k].pages[j]
  BY <1>6, <1>7, <1>8 DEF SameLists, SameCounts, SameCall, SameLayer, Address, B!HasLog
<1>10. \A c \in B!Blocks :
         /\ r.pages_valid[c] = s.pages_valid[c] + IF c = b THEN 1 ELSE 0
         /\ \A j \in B!Offsets :
              /\ StateOf(r, c, j) = IF B!Page(c, j) \in R THEN "INVALID"
                                    ELSE IF c = b /\ j = n THEN "VALID" ELSE StateOf(s, c, j)
              /\ DataOf(r, c, j) = IF c = b /\ j = n THEN l
                                   ELSE IF DataOf(s, c, j) = l THEN -1 ELSE DataOf(s, c, j)
  BY <1>3, <1>6, <1>7, <1>8 DEF SameFlash, StateOf, DataOf
<1>11. \A c \in B!Blocks \ OwnedBy(s, k) : Untouched(r, s, c, k)
  <2> SUFFICES ASSUME NEW c \in B!Blocks \ OwnedBy(s, k) PROVE Untouched(r, s, c, k)
    OBVIOUS
  <2>1. c # b /\ c # d
    BY <1>2
  <2>2. r.pages_valid[c] = s.pages_valid[c]
    BY <1>1, <1>10, <2>1 DEF States
  <2>3. \A j \in B!Offsets : B!Page(c, j) \notin R
    BY <1>4, <2>1
  <2> QED
    BY <1>10, <2>1, <2>2, <2>3 DEF Untouched, l
<1>12. \A j \in B!Offsets : j # i => B!Page(k, j) # l
  BY Addresses DEF l
<1>13. ASSUME NEW j \in B!Offsets
       PROVE  /\ B!InLog(r, k, j) => LogHolds(r, k, j, more)
              /\ DataValid(r, k, j) => DataHolds(r, k, j, more)
              /\ B!Page(k, j) \in less => B!InLog(r, k, j) \/ DataValid(r, k, j)
  <2>1. CASE j = i
    <3>1. r.log_map[k].pages[j] = n /\ B!InLog(r, k, j)
      BY <1>2, <1>9, <2>1, ConfigFacts DEF B!InLog, B!Offsets
    <3>2. B!Page(b, n) \notin R
      <4>1. o # -1 => o # n
        <5>1. ASSUME o # -1 PROVE o < n
          <6>1. B!InLog(s, k, i)
            BY <1>2, <5>1
          <6> QED
            BY <1>0, <1>1, <6>1 DEF HeldAt, LogHolds
        <5> QED
          BY <1>2, <5>1, ConfigFacts DEF B!Offsets
      <4> QED
        BY <1>2, <1>4, <4>1
    <3>3. StateOf(r, b, n) = "VALID" /\ DataOf(r, b, n) = l
      BY <1>2, <1>10, <3>2
    <3>4. n < r.pages_valid[b]
      BY <1>0, <1>2, <1>10, ConfigFacts DEF B!Offsets
    <3>5. LogHolds(r, k, j, more)
      BY <1>9, <2>1, <3>1, <3>3, <3>4 DEF LogHolds, l
    <3>6. ~DataValid(r, k, j)
      <4>1. ASSUME B!HasData(r, k) PROVE StateOf(r, d, i) # "VALID"
        <5>1. d \in B!Blocks /\ B!HasData(s, k)
          BY <1>0, <1>2, <1>9, <4>1 DEF B!HasData, B!NoBlock
        <5>2. CASE StateOf(s, d, i) = "EMPTY"
          BY <1>2, <1>4, <1>10, <5>1, <5>2
        <5>3. CASE StateOf(s, d, i) # "EMPTY"
          BY <1>4, <1>10, <5>1, <5>3
        <5> QED
          BY <5>2, <5>3
      <4> QED
        BY <1>0, <1>9, <2>1, <4>1 DEF DataValid
    <3> QED
      BY <3>1, <3>5, <3>6
  <2>2. CASE j # i
    <3> DEFINE m == s.log_map[k].pages[j]
    <3>1. /\ r.log_map[k].pages[j] = m /\ (B!InLog(r, k, j) <=> B!InLog(s, k, j))
          /\ (B!HasData(r, k) <=> B!HasData(s, k)) /\ B!Page(k, j) # l
      BY <1>9, <1>12, <2>2 DEF B!InLog, B!HasData
    <3>2. ASSUME B!InLog(s, k, j) PROVE LogHolds(r, k, j, more)
      <4>1. LogHolds(s, k, j, written) /\ m \in B!Offsets
        BY <1>1, <3>2, LogFacts DEF HeldAt, B!InLog
      <4>2. /\ m < n /\ StateOf(s, b, m) = "VALID" /\ DataOf(s, b, m) = B!Page(k, j)
            /\ B!Page(k, j) \in written
        BY <1>0, <4>1 DEF LogHolds
      <4>3. m # n
        BY <1>2, <4>1, <4>2, ConfigFacts DEF B!Offsets
      <4>4. o # -1 => m # o
        <5>1. ASSUME o # -1 PROVE DataOf(s, b, o) = l
          BY <1>0, <1>1, <1>2, <5>1 DEF HeldAt, LogHolds, l
        <5> QED
          BY <3>1, <4>2, <5>1
      <4>5. B!Page(b, m) \notin R
        BY <1>2, <1>4, <4>1, <4>4
      <4>6. StateOf(r, b, m) = "VALID" /\ DataOf(r, b, m) = B!Page(k, j)
        BY <1>2, <1>10, <3>1, <4>1, <4>2, <4>3, <4>5
      <4>7. m < r.pages_valid[b]
        BY <1>0, <1>2, <1>10, <4>1, <4>2, ConfigFacts DEF B!Offsets
      <4> QED
        BY <1>9, <3>1, <4>2, <4>6, <4>7 DEF LogHolds
    <3>3. /\ DataValid(r, k, j) <=> DataValid(s, k, j)
          /\ DataHolds(s, k, j, written) /\ DataValid(s, k, j) => DataHolds(r, k, j, more)
      <4>1. CASE B!HasData(s, k)
        <5>1. d \in B!Blocks /\ B!Page(d, j) \notin R
          BY <1>2, <1>4, <2>2, <4>1
        <5>2. StateOf(r, d, j) = StateOf(s, d, j)
          BY <1>2, <1>10, <5>1
        <5>3. DataOf(s, d, j) = B!Page(k, j) => DataOf(r, d, j) = B!Page(k, j)
          BY <1>2, <1>10, <3>1, <5>1
        <5> QED
          BY <1>0, <1>9, <3>1, <5>2, <5>3 DEF DataValid, DataHolds
      <4>2. CASE ~B!HasData(s, k)
        BY <3>1, <4>2 DEF DataValid
      <4> QED
        BY <4>1, <4>2
    <3>4. /\ DataValid(s, k, j) => DataHolds(s, k, j, written)
          /\ B!Page(k, j) \in kept => B!InLog(s, k, j) \/ DataValid(s, k, j)
      BY <1>1 DEF HeldAt
    <3> QED
      BY <3>1, <3>2, <3>3, <3>4
  <2> QED
    BY <2>1, <2>2
<1>14. HeldAt(r, k, more, less)
  BY <1>13 DEF HeldAt
<1>15. LogFresh(r, k)
  <2> SUFFICES ASSUME NEW j \in B!Offsets, r.pages_valid[b] <= j PROVE StateOf(r, b, j) = "EMPTY"
    BY <1>9 DEF LogFresh
  <2>1. n < j /\ s.pages_valid[b] <= j
    BY <1>0, <1>2, <1>10, ConfigFacts DEF B!Offsets
  <2>2. StateOf(s, b, j) = "EMPTY"
    BY <1>0, <1>1, <2>1 DEF LogFresh
  <2>3. o # -1 => o # j
    <3>1. ASSUME o # -1 PROVE o < n
      <4>1. B!InLog(s, k, i)
        BY <1>2, <3>1
      <4> QED
        BY <1>0, <1>1, <4>1 DEF HeldAt, LogHolds
    <3> QED
      BY <1>2, <2>1, <3>1, ConfigFacts DEF B!Offsets
  <2>4. j # n /\ B!Page(b, j) \notin R
    BY <1>2, <1>4, <2>1, <2>3, ConfigFacts DEF B!Offsets
  <2> QED
    BY <1>2, <1>10, <2>2, <2>4
<1>16. \A j \in B!Lbas \ {k}, m \in B!Offsets : B!Page(j, m) \in less => B!Page(j, m) \in kept
  BY Addresses DEF l
<1>17. Good(r, more, less)
  BY <1>0, <1>8, <1>9, <1>11, <1>14, <1>15, <1>16, InPlace
<1> QED
  BY <1>9, <1>17 DEF r, l, SameCall, SameLists

(* One of the blocks of logical block k is erased and given back; data     *)
(* block d and log e remain.                                               *)
LEMMA GiveBackFacts ==
  ASSUME NEW s, NEW written, NEW kept, Good(s, written, kept), NEW k \in B!Lbas,
         NEW type \in {"DATA", "LOG"}, NEW b \in B!Blocks,
         NEW d \in B!Blocks \cup {-1}, NEW e \in LogEntries,
         OwnedBy(s, k) = ({d, e.address} \ {-1}) \cup {b}, b # d, b # e.address,
         d # -1 => d # e.address,
         NEW r, r = B!EraseAndInvalidate(WithMaps(s, k, d, e), b, type)
  PROVE  /\ r \in States /\ Owned(r, {}) /\ Clean(r, {}) /\ HeldElsewhere(r, k, written, kept)
         /\ r.data_list[k] = d /\ r.log_map[k] = e /\ Address(r, k) = e.address
         /\ \A j \in B!Lbas \ {k} : r.data_list[j] = s.data_list[j] /\ r.log_map[j] = s.log_map[j]
         /\ \A c \in B!Blocks \ {b} :
              /\ r.pages_valid[c] = s.pages_valid[c]
              /\ \A i \in B!Offsets : /\ StateOf(r, c, i) = StateOf(s, c, i)
                                      /\ DataOf(r, c, i) = DataOf(s, c, i)
         /\ r.data_active = s.data_active - IF type = "DATA" THEN 1 ELSE 0
         /\ r.log_active = s.log_active - IF type = "LOG" THEN 1 ELSE 0
         /\ r.asserted = s.asserted /\ r.first_free = s.first_free
<1> DEFINE u == WithMaps(s, k, d, e)
<1>0. r = B!EraseAndInvalidate(u, b, type)
  OBVIOUS
<1>1. s \in States /\ Owned(s, {}) /\ Clean(s, {}) /\ Held(s, written, kept)
  BY DEF Good
<1> HIDE DEF u
<1>2. /\ u \in States
      /\ SameFlash(u, s) /\ SameLists(u, s) /\ SameCounts(u, s) /\ SameCall(u, s)
      /\ u.data_list[k] = d /\ u.log_map[k] = e /\ Address(u, k) = e.address
      /\ \A j \in B!Lbas \ {k} : u.data_list[j] = s.data_list[j] /\ u.log_map[j] = s.log_map[j]
  <2>1. /\ s \in States /\ k \in B!Lbas /\ d \in B!Blocks \cup {-1} /\ e \in LogEntries
        /\ u = WithMaps(s, k, d, e)
    BY <1>1 DEF u
  <2> QED
    BY ONLY <2>1, MapsSet
<1>3. /\ r \in States /\ Erased(r, u, b)
      /\ SameLayer(r, u) /\ SameCall(r, u)
      /\ r.first_free = u.first_free /\ r.current_free = u.current_free
      /\ r.free_list = Append(u.free_list, b)
      /\ r.data_active = u.data_active - IF type = "DATA" THEN 1 ELSE 0
      /\ r.log_active = u.log_active - IF type = "LOG" THEN 1 ELSE 0
  BY <1>0, <1>2, EraseAndInvalidateFacts
<1>4. /\ r.data_list[k] = d /\ r.log_map[k] = e /\ Address(r, k) = e.address
      /\ \A j \in B!Lbas \ {k} : r.data_list[j] = s.data_list[j] /\ r.log_map[j] = s.log_map[j]
      /\ r.asserted = s.asserted /\ r.first_free = s.first_free /\ r.current_free = s.current_free
      /\ r.free_list = Append(s.free_list, b)
  BY <1>2, <1>3 DEF SameLayer, SameLists, SameCall, Address
<1>5. /\ r.data_active = s.data_active - IF type = "DATA" THEN 1 ELSE 0
      /\ r.log_active = s.log_active - IF type = "LOG" THEN 1 ELSE 0
  BY <1>2, <1>3 DEF SameCounts
<1>6. /\ Blank(r, b)
      /\ \A c \in B!Blocks \ {b} :
           /\ r.pages_valid[c] = s.pages_valid[c]
           /\ \A i \in B!Offsets : /\ StateOf(r, c, i) = StateOf(s, c, i)
                                   /\ DataOf(r, c, i) = DataOf(s, c, i)
  BY <1>2, <1>3 DEF Erased, Blank, SameFlash, StateOf, DataOf
<1>7. b \notin Free(s)
  BY <1>1, LogFacts DEF Owned, OwnedBy
<1>8. /\ Free(r) = Free(s) \cup {b}
      /\ \A m, n \in DOMAIN r.free_list : r.free_list[m] = r.free_list[n] => m = n
      /\ \A c \in Listed(r) : c < r.current_free
  <2>1. /\ \A m, n \in DOMAIN s.free_list : s.free_list[m] = s.free_list[n] => m = n
        /\ \A c \in Listed(s) : c < s.current_free
    BY <1>1 DEF Owned
  <2>2. /\ s \in States /\ r \in States /\ b \in B!Blocks
        /\ r.free_list = Append(s.free_list, b) /\ r.current_free = s.current_free
    BY <1>1, <1>3, <1>4
  <2> QED
    BY ONLY <1>7, <2>1, <2>2, FreeAppended
<1>9. OwnedBy(r, k) = {d, e.address} \ {-1}
  BY <1>4 DEF OwnedBy
<1>10. Moves(r, s, k, {}, {b}, {})
  <2>1. \A c \in B!Blocks \ OwnedBy(s, k) : Untouched(r, s, c, k)
    BY <1>6 DEF Untouched
  <2> QED
    BY <1>4, <1>6, <1>8, <1>9, <2>1 DEF Moves
<1>11. Owned(r, {}) /\ Clean(r, {}) /\ HeldElsewhere(r, k, written, kept)
  <2>1. HeldElsewhere(s, k, written, kept)
    BY <1>1 DEF Held, HeldElsewhere
  <2>2. /\ s \in States /\ r \in States /\ Owned(s, {}) /\ Clean(s, {}) /\ k \in B!Lbas
        /\ written \subseteq written
        /\ \A j \in B!Lbas \ {k}, i \in B!Offsets : B!Page(j, i) \in kept => B!Page(j, i) \in kept
    BY <1>1, <1>3
  <2> QED
    BY ONLY <1>10, <2>1, <2>2, Moved
<1> QED
  BY <1>3, <1>4, <1>5, <1>6, <1>11

(* A trim that leaves only invalid pages in a log gives the log back.      *)
LEMMA DisposeLogFacts ==
  ASSUME NEW s, NEW written, NEW kept, Good(s, written, kept), NEW k \in B!Lbas, B!HasLog(s, k)
  PROVE  LET r == B!DisposeLog(s, k)
         IN  /\ Good(r, written, kept)
             /\ \A i \in B!Offsets : B!InLog(r, k, i) => B!InLog(s, k, i)
             /\ r.asserted = s.asserted /\ r.first_free = s.first_free
<1>0. PICK b, d : b = Address(s, k) /\ d = s.data_list[k]
  OBVIOUS
<1> DEFINE r == B!DisposeLog(s, k)
<1>1. CASE ~B!IsInactive(s, b)
  BY <1>0, <1>1 DEF B!DisposeLog, Address
<1>2. CASE B!IsInactive(s, b)
  <2>1. /\ s \in States /\ Owned(s, {}) /\ Counted(s) /\ HeldAt(s, k, written, kept)
        /\ Cardinality(B!Logs(s)) <= BastLimit
    BY DEF Good, Held
  <2>2. /\ b \in B!Blocks /\ d \in B!Blocks \cup {-1} /\ (B!HasData(s, k) <=> d # -1)
        /\ -1 \notin B!Blocks /\ d # b /\ OwnedBy(s, k) = {b, d} \ {-1}
    <3>1. /\ b \in B!Blocks /\ d \in B!Blocks \cup {-1} /\ (B!HasData(s, k) <=> d # -1)
          /\ -1 \notin B!Blocks /\ k \in B!Logs(s) /\ (k \in DataLbas(s) <=> d # -1)
          /\ OwnedBy(s, k) = {b, d} \ {-1}
      BY <1>0, <2>1, LogFacts DEF OwnedBy
    <3> QED
      BY <1>0, <2>1, <3>1 DEF Owned
  <2>3. r = B!EraseAndInvalidate(WithMaps(s, k, d, B!NoLog), b, "LOG")
    <3>1. [s EXCEPT !.log_map[k] = B!NoLog] = WithMaps(s, k, d, B!NoLog)
      <4>1. [s.data_list EXCEPT ![k] = s.data_list[k]] = s.data_list
        BY <2>1 DEF States
      <4>2. [s EXCEPT !.log_map[k] = B!NoLog]
              = [s EXCEPT !.data_list[k] = s.data_list[k], !.log_map[k] = B!NoLog]
        BY <2>1, <4>1 DEF States
      <4> QED
        BY <1>0, <4>2 DEF WithMaps
    <3> QED
      BY <1>0, <1>2, <3>1 DEF B!DisposeLog, Address
  <2> HIDE DEF r
  <2>4. /\ r \in States /\ Owned(r, {}) /\ Clean(r, {}) /\ HeldElsewhere(r, k, written, kept)
        /\ r.data_list[k] = d /\ r.log_map[k] = B!NoLog /\ Address(r, k) = -1
        /\ \A j \in B!Lbas \ {k} : r.data_list[j] = s.data_list[j] /\ r.log_map[j] = s.log_map[j]
        /\ \A c \in B!Blocks \ {b} :
             /\ r.pages_valid[c] = s.pages_valid[c]
             /\ \A i \in B!Offsets : /\ StateOf(r, c, i) = StateOf(s, c, i)
                                     /\ DataOf(r, c, i) = DataOf(s, c, i)
        /\ r.data_active = s.data_active
        /\ r.log_active = s.log_active - 1
        /\ r.asserted = s.asserted /\ r.first_free = s.first_free
    <3>1. B!NoLog \in LogEntries /\ B!NoLog.address = -1
      BY NoLogFacts
    <3>2. OwnedBy(s, k) = ({d, B!NoLog.address} \ {-1}) \cup {b} /\ b # d /\ b # B!NoLog.address
          /\ (d # -1 => d # B!NoLog.address)
      BY <2>2, <3>1
    <3>3. s.data_active \in Int
      BY <2>1 DEF States
    <3>4. "LOG" \in {"DATA", "LOG"}
      OBVIOUS
    <3>5. /\ r \in States /\ Owned(r, {}) /\ Clean(r, {}) /\ HeldElsewhere(r, k, written, kept)
          /\ r.data_list[k] = d /\ r.log_map[k] = B!NoLog /\ Address(r, k) = B!NoLog.address
          /\ \A j \in B!Lbas \ {k} : r.data_list[j] = s.data_list[j] /\ r.log_map[j] = s.log_map[j]
          /\ \A c \in B!Blocks \ {b} :
               /\ r.pages_valid[c] = s.pages_valid[c]
               /\ \A i \in B!Offsets : /\ StateOf(r, c, i) = StateOf(s, c, i)
                                       /\ DataOf(r, c, i) = DataOf(s, c, i)
          /\ r.data_active = s.data_active - IF "LOG" = "DATA" THEN 1 ELSE 0
          /\ r.log_active = s.log_active - IF "LOG" = "LOG" THEN 1 ELSE 0
          /\ r.asserted = s.asserted /\ r.first_free = s.first_free
      BY <2>2, <2>3, <3>1, <3>2, <3>4, GiveBackFacts
    <3> QED
      BY <3>1, <3>3, <3>5
  <2>5. ~B!HasLog(r, k) /\ \A i \in B!Offsets : ~B!InLog(r, k, i)
    BY <2>4, LogFacts DEF B!InLog
  <2>6. \A i \in B!Offsets : ~B!InLog(s, k, i)
    <3> SUFFICES ASSUME NEW i \in B!Offsets, B!InLog(s, k, i) PROVE FALSE
      OBVIOUS
    <3>1. s.log_map[k].pages[i] \in B!Offsets
      BY <2>1, LogFacts DEF B!InLog
    <3>2. StateOf(s, b, s.log_map[k].pages[i]) = "VALID"
      BY <1>0, <2>1 DEF HeldAt, LogHolds
    <3> QED
      BY <1>2, <3>1, <3>2 DEF B!IsInactive, StateOf
  <2>7. HeldAt(r, k, written, kept) /\ LogFresh(r, k)
    <3>1. ASSUME NEW i \in B!Offsets
          PROVE  /\ DataValid(r, k, i) <=> DataValid(s, k, i)
                 /\ DataHolds(s, k, i, written) /\ DataValid(s, k, i) => DataHolds(r, k, i, written)
      <4>1. CASE d # -1
        BY <1>0, <2>2, <2>4, <2>5, <4>1 DEF DataValid, DataHolds, B!HasData
      <4>2. CASE d = -1
        BY <1>0, <2>4, <4>2 DEF DataValid, B!HasData, B!NoBlock
      <4> QED
        BY <4>1, <4>2
    <3> QED
      BY <2>1, <2>5, <2>6, <3>1 DEF HeldAt, LogFresh
  <2>8. Held(r, written, kept)
    BY <2>4, <2>7 DEF Held, HeldElsewhere
  <2>9. /\ Cardinality(DataLbas(r)) = Cardinality(DataLbas(s))
        /\ Cardinality(B!Logs(r)) = Cardinality(B!Logs(s)) - 1
    <3>1. /\ Cardinality(DataLbas(r)) + (IF B!HasData(s, k) THEN 1 ELSE 0)
               = Cardinality(DataLbas(s)) + (IF B!HasData(r, k) THEN 1 ELSE 0)
          /\ Cardinality(B!Logs(r)) + (IF B!HasLog(s, k) THEN 1 ELSE 0)
               = Cardinality(B!Logs(s)) + (IF B!HasLog(r, k) THEN 1 ELSE 0)
      BY <2>1, <2>4, CountMoved
    <3>2. B!HasData(r, k) <=> B!HasData(s, k)
      BY <1>0, <2>4 DEF B!HasData
    <3>3. /\ Cardinality(DataLbas(r)) \in Nat /\ Cardinality(DataLbas(s)) \in Nat
          /\ Cardinality(B!Logs(r)) \in Nat /\ Cardinality(B!Logs(s)) \in Nat
      BY LbaSets
    <3> QED
      BY <2>5, <3>1, <3>2, <3>3
  <2>10. Counted(r) /\ Cardinality(B!Logs(r)) <= BastLimit
    BY <2>1, <2>4, <2>9, LbaSets, ConfigFacts DEF Counted
  <2> QED
    BY <2>4, <2>5, <2>8, <2>10 DEF Good, r
<1> QED
  BY <1>1, <1>2

(* The same for the data block.                                            *)
LEMMA DisposeDataFacts ==
  ASSUME NEW s, NEW written, NEW kept, Good(s, written, kept), NEW k \in B!Lbas, B!HasData(s, k)
  PROVE  LET r == B!DisposeData(s, k)
         IN  /\ Good(r, written, kept)
             /\ \A i \in B!Offsets : /\ B!InLog(r, k, i) => B!InLog(s, k, i)
                                     /\ DataValid(r, k, i) => DataValid(s, k, i)
             /\ r.asserted = s.asserted /\ r.first_free = s.first_free
<1>0. PICK b, d, e : b = Address(s, k) /\ d = s.data_list[k] /\ e = s.log_map[k]
  OBVIOUS
<1> DEFINE r == B!DisposeData(s, k)
<1>1. CASE ~B!IsInactive(s, d)
  BY <1>0, <1>1 DEF B!DisposeData
<1>2. CASE B!IsInactive(s, d)
  <2>1. /\ s \in States /\ Owned(s, {}) /\ Counted(s) /\ HeldAt(s, k, written, kept)
        /\ LogFresh(s, k) /\ Cardinality(B!Logs(s)) <= BastLimit
    BY DEF Good, Held
  <2>2. /\ d \in B!Blocks /\ b \in B!Blocks \cup {-1} /\ (B!HasLog(s, k) <=> b # -1)
        /\ -1 \notin B!Blocks /\ d # b /\ OwnedBy(s, k) = {d, b} \ {-1}
        /\ e \in LogEntries /\ e.address = b
    <3>1. /\ d \in B!Blocks /\ b \in B!Blocks \cup {-1} /\ (B!HasLog(s, k) <=> b # -1)
          /\ -1 \notin B!Blocks /\ k \in DataLbas(s) /\ (k \in B!Logs(s) <=> b # -1)
          /\ OwnedBy(s, k) = {d, b} \ {-1}
      BY <1>0, <2>1, LogFacts DEF OwnedBy
    <3>2. e \in LogEntries /\ e.address = b
      BY <1>0, <2>1 DEF States, Address
    <3> QED
      BY <1>0, <2>1, <3>1, <3>2 DEF Owned
  <2>3. r = B!EraseAndInvalidate(WithMaps(s, k, -1, e), d, "DATA")
    <3>1. [s EXCEPT !.data_list[k] = -1] = WithMaps(s, k, -1, e)
      <4>1. [s.log_map EXCEPT ![k] = s.log_map[k]] = s.log_map
        BY <2>1 DEF States
      <4>2. [s EXCEPT !.data_list[k] = -1]
              = [s EXCEPT !.data_list[k] = -1, !.log_map[k] = s.log_map[k]]
        BY <2>1, <4>1 DEF States
      <4> QED
        BY <1>0, <4>2 DEF WithMaps
    <3> QED
      BY <1>0, <1>2, <3>1 DEF B!DisposeData, B!NoBlock
  <2> HIDE DEF r
  <2>4. /\ r \in States /\ Owned(r, {}) /\ Clean(r, {}) /\ HeldElsewhere(r, k, written, kept)
        /\ r.data_list[k] = -1 /\ r.log_map[k] = e /\ Address(r, k) = b
        /\ \A j \in B!Lbas \ {k} : r.data_list[j] = s.data_list[j] /\ r.log_map[j] = s.log_map[j]
        /\ \A c \in B!Blocks \ {d} :
             /\ r.pages_valid[c] = s.pages_valid[c]
             /\ \A i \in B!Offsets : /\ StateOf(r, c, i) = StateOf(s, c, i)
                                     /\ DataOf(r, c, i) = DataOf(s, c, i)
        /\ r.data_active = s.data_active - 1
        /\ r.log_active = s.log_active
        /\ r.asserted = s.asserted /\ r.first_free = s.first_free
    <3>1. /\ OwnedBy(s, k) = ({-1, e.address} \ {-1}) \cup {d} /\ d # -1 /\ d # e.address
          /\ (-1 # -1 => -1 # e.address)
          /\ -1 \in B!Blocks \cup {-1}
      BY <2>2
    <3>2. s.log_active \in Int
      BY <2>1 DEF States
    <3>3. "DATA" \in {"DATA", "LOG"}
      OBVIOUS
    <3>4. /\ r \in States /\ Owned(r, {}) /\ Clean(r, {}) /\ HeldElsewhere(r, k, written, kept)
          /\ r.data_list[k] = -1 /\ r.log_map[k] = e /\ Address(r, k) = e.address
          /\ \A j \in B!Lbas \ {k} : r.data_list[j] = s.data_list[j] /\ r.log_map[j] = s.log_map[j]
          /\ \A c \in B!Blocks \ {d} :
               /\ r.pages_valid[c] = s.pages_valid[c]
               /\ \A i \in B!Offsets : /\ StateOf(r, c, i) = StateOf(s, c, i)
                                       /\ DataOf(r, c, i) = DataOf(s, c, i)
          /\ r.data_active = s.data_active - IF "DATA" = "DATA" THEN 1 ELSE 0
          /\ r.log_active = s.log_active - IF "DATA" = "LOG" THEN 1 ELSE 0
          /\ r.asserted = s.asserted /\ r.first_free = s.first_free
      BY <2>2, <2>3, <3>1, <3>3, GiveBackFacts
    <3> QED
      BY <2>2, <3>2, <3>4
  <2>5. ~B!HasData(r, k) /\ \A i \in B!Offsets : ~DataValid(r, k, i)
    BY <2>4 DEF DataValid, B!HasData, B!NoBlock
  <2>6. \A i \in B!Offsets : ~DataValid(s, k, i)
    BY <1>0, <1>2 DEF DataValid, B!IsInactive, StateOf
  <2>7. /\ B!HasLog(r, k) <=> B!HasLog(s, k)
        /\ \A i \in B!Offsets : B!InLog(r, k, i) <=> B!InLog(s, k, i)
    BY <1>0, <2>4 DEF B!HasLog, B!InLog
  <2>8. HeldAt(r, k, written, kept)
    <3>1. ASSUME NEW i \in B!Offsets, B!InLog(s, k, i) PROVE LogHolds(r, k, i, written)
      <4>1. LogHolds(s, k, i, written) /\ B!HasLog(s, k)
        BY <2>1, <3>1 DEF HeldAt, B!InLog
      <4>2. s.log_map[k].pages[i] \in B!Offsets
        BY <2>1, <3>1, <4>1, LogFacts DEF B!InLog
      <4>3. b \in B!Blocks \ {d}
        BY <2>2, <4>1
      <4> QED
        BY <1>0, <2>4, <4>1, <4>2, <4>3 DEF LogHolds
    <3> QED
      BY <2>1, <2>5, <2>6, <2>7, <3>1 DEF HeldAt
  <2>9. LogFresh(r, k)
    BY <1>0, <2>1, <2>2, <2>4, <2>7 DEF LogFresh
  <2>10. Held(r, written, kept)
    BY <2>4, <2>8, <2>9 DEF Held, HeldElsewhere
  <2>11. /\ Cardinality(DataLbas(r)) = Cardinality(DataLbas(s)) - 1
         /\ Cardinality(B!Logs(r)) = Cardinality(B!Logs(s))
    <3>1. /\ Cardinality(DataLbas(r)) + (IF B!HasData(s, k) THEN 1 ELSE 0)
               = Cardinality(DataLbas(s)) + (IF B!HasData(r, k) THEN 1 ELSE 0)
          /\ Cardinality(B!Logs(r)) + (IF B!HasLog(s, k) THEN 1 ELSE 0)
               = Cardinality(B!Logs(s)) + (IF B!HasLog(r, k) THEN 1 ELSE 0)
      BY <2>1, <2>4, CountMoved
    <3>2. /\ Cardinality(DataLbas(r)) \in Nat /\ Cardinality(DataLbas(s)) \in Nat
          /\ Cardinality(B!Logs(r)) \in Nat /\ Cardinality(B!Logs(s)) \in Nat
      BY LbaSets
    <3> QED
      BY <2>5, <2>7, <3>1, <3>2
  <2>12. Counted(r) /\ Cardinality(B!Logs(r)) <= BastLimit
    BY <2>1, <2>4, <2>11, LbaSets, ConfigFacts DEF Counted
  <2> QED
    BY <2>4, <2>5, <2>7, <2>10, <2>12 DEF Good, r
<1> QED
  BY <1>1, <1>2

(* A trim takes the page out of the log ...                                *)
LEMMA TrimLogFacts ==
  ASSUME NEW s, NEW written, NEW kept, NEW k \in B!Lbas, NEW i \in B!Offsets,
         Good(s, written, kept), B!Page(k, i) \notin kept
  PROVE  LET r == B!TrimLog(s, k, i)
         IN  /\ Good(r, written, kept) /\ ~B!InLog(r, k, i)
             /\ r.asserted = s.asserted /\ r.first_free = s.first_free
<1> DEFINE r == B!TrimLog(s, k, i)
<1>1. CASE ~B!InLog(s, k, i)
  BY <1>1 DEF B!TrimLog
<1>2. CASE B!InLog(s, k, i)
  <2>0. PICK b, o : b = Address(s, k) /\ o = s.log_map[k].pages[i]
    OBVIOUS
  <2> DEFINE p == B!Page(b, o)
             u == WithInvalid(s, {p})
             t == WithPlace(u, k, i, -1)
  <2>1. /\ s \in States /\ HeldAt(s, k, written, kept) /\ LogFresh(s, k) /\ B!HasLog(s, k)
    BY <1>2 DEF Good, Held, B!InLog
  <2>2. /\ b \in B!Blocks /\ o \in B!Offsets /\ b \in OwnedBy(s, k)
        /\ s.data_list[k] # -1 => s.data_list[k] # b
        /\ LogHolds(s, k, i, written)
        /\ s.data_list[k] # -1 => s.data_list[k] \in B!Blocks
    <3>1. /\ b \in B!Blocks /\ o \in B!Offsets /\ b \in OwnedBy(s, k)
          /\ k \in B!Logs(s) /\ (k \in DataLbas(s) <=> s.data_list[k] # -1)
          /\ s.data_list[k] \in B!Blocks \cup {-1}
      BY <1>2, <2>0, <2>1, LogFacts DEF B!InLog, OwnedBy
    <3>2. Owned(s, {})
      BY DEF Good
    <3>3. s.data_list[k] # -1 => s.data_list[k] # b
      BY <2>0, <3>1, <3>2 DEF Owned
    <3> QED
      BY <1>2, <2>1, <3>1, <3>3 DEF HeldAt
  <2>3. /\ p \in B!Pages
        /\ \A c \in B!Blocks, j \in B!Offsets :
             /\ B!Page(c, j) \in B!Pages
             /\ B!Page(c, j) \in {p} <=> c = b /\ j = o
    BY <2>2, Addresses
  <2>4. r = B!DisposeLog(t, k)
    <3>1. B!InvalidatePage(s, p) = u
      BY <2>1, <2>3, InvalidatePageSame
    <3>2. B!LogPage(s, k, i) = p
      BY <2>0 DEF B!LogPage, Address
    <3> HIDE DEF p, u
    <3> QED
      BY <1>2, <3>1, <3>2 DEF B!TrimLog, WithPlace
  <2> HIDE DEF p, u, t, r
  <2>5. /\ u \in States /\ u.data = s.data /\ u.pages_valid = s.pages_valid
        /\ SameLayer(u, s) /\ SameLists(u, s) /\ SameCounts(u, s) /\ SameCall(u, s)
        /\ \A q \in B!Pages : u.state[q] = IF q \in {p} THEN "INVALID" ELSE s.state[q]
    BY <2>1, <2>3, InvalidateFacts DEF u
  <2>6. /\ t \in States
        /\ SameFlash(t, u) /\ SameLists(t, u) /\ SameCounts(t, u) /\ SameCall(t, u)
        /\ t.data_list = u.data_list
        /\ \A j \in B!Lbas \ {k} : t.log_map[j] = u.log_map[j]
        /\ Address(t, k) = Address(u, k) /\ B!HasLog(t, k)
        /\ \A j \in B!Offsets :
             t.log_map[k].pages[j] = IF j = i THEN -1 ELSE u.log_map[k].pages[j]
    <3>1. /\ u \in States /\ k \in B!Lbas /\ i \in B!Offsets /\ -1 \in B!Offsets \cup {-1}
          /\ B!HasLog(u, k) /\ t = WithPlace(u, k, i, -1)
      BY <2>1, <2>5 DEF SameLayer, B!HasLog, t
    <3> QED
      BY ONLY <3>1, WithPlaceFacts
  <2>7. /\ SameLists(t, s) /\ SameCounts(t, s) /\ SameCall(t, s) /\ t.data_list = s.data_list
        /\ Address(t, k) = b
        /\ \A j \in B!Lbas \ {k} : t.log_map[j] = s.log_map[j]
        /\ \A j \in B!Offsets :
             t.log_map[k].pages[j] = IF j = i THEN -1 ELSE s.log_map[k].pages[j]
    BY <2>0, <2>5, <2>6 DEF SameLists, SameCounts, SameCall, SameLayer, Address
  <2>8. \A c \in B!Blocks :
          /\ t.pages_valid[c] = s.pages_valid[c]
          /\ \A j \in B!Offsets :
               /\ StateOf(t, c, j) = IF c = b /\ j = o THEN "INVALID" ELSE StateOf(s, c, j)
               /\ DataOf(t, c, j) = DataOf(s, c, j)
    BY <2>3, <2>5, <2>6 DEF SameFlash, StateOf, DataOf
  <2>9. ~B!InLog(t, k, i)
    BY <2>7 DEF B!InLog
  <2>10. ASSUME NEW j \in B!Offsets
         PROVE  /\ B!InLog(t, k, j) => LogHolds(t, k, j, written)
                /\ DataValid(t, k, j) => DataHolds(t, k, j, written)
                /\ B!Page(k, j) \in kept => B!InLog(t, k, j) \/ DataValid(t, k, j)
    <3>1. /\ B!InLog(t, k, j) <=> j # i /\ B!InLog(s, k, j)
          /\ DataValid(t, k, j) <=> DataValid(s, k, j)
      <4>1. B!InLog(t, k, j) <=> j # i /\ B!InLog(s, k, j)
        BY <2>1, <2>6, <2>7, <2>9 DEF B!InLog
      <4>2. B!HasData(t, k) <=> B!HasData(s, k)
        BY <2>7 DEF B!HasData
      <4>3. B!HasData(s, k) => StateOf(t, s.data_list[k], j) = StateOf(s, s.data_list[k], j)
        BY <2>2, <2>8 DEF B!HasData, B!NoBlock
      <4> QED
        BY <2>7, <4>1, <4>2, <4>3 DEF DataValid
    <3>2. ASSUME j # i, B!InLog(s, k, j) PROVE LogHolds(t, k, j, written)
      <4> DEFINE m == s.log_map[k].pages[j]
      <4>1. LogHolds(s, k, j, written) /\ m \in B!Offsets
        BY <2>1, <3>2, LogFacts DEF HeldAt, B!InLog
      <4>2. m # o
        <5>1. DataOf(s, b, o) = B!Page(k, i) /\ DataOf(s, b, m) = B!Page(k, j)
          BY <2>0, <2>2, <4>1 DEF LogHolds
        <5>2. B!Page(k, i) # B!Page(k, j)
          BY <3>2, Addresses
        <5> QED
          BY <5>1, <5>2
      <4> QED
        BY <2>0, <2>2, <2>7, <2>8, <3>2, <4>1, <4>2 DEF LogHolds
    <3>3. ASSUME DataValid(s, k, j) PROVE DataHolds(t, k, j, written)
      <4>1. DataHolds(s, k, j, written) /\ B!HasData(s, k)
        BY <2>1, <3>3 DEF HeldAt, DataValid
      <4>2. DataOf(t, s.data_list[k], j) = DataOf(s, s.data_list[k], j)
        BY <2>2, <2>8, <4>1 DEF B!HasData, B!NoBlock
      <4> QED
        BY <2>7, <3>1, <4>1, <4>2 DEF DataHolds
    <3>4. B!Page(k, j) \in kept => j # i /\ (B!InLog(s, k, j) \/ DataValid(s, k, j))
      BY <2>1 DEF HeldAt
    <3> QED
      BY <3>1, <3>2, <3>3, <3>4
  <2>11. LogFresh(t, k)
    <3> SUFFICES ASSUME NEW j \in B!Offsets, s.pages_valid[b] <= j PROVE StateOf(t, b, j) = "EMPTY"
      BY <2>2, <2>7, <2>8 DEF LogFresh
    <3>1. StateOf(s, b, j) = "EMPTY"
      BY <2>0, <2>1 DEF LogFresh
    <3>2. j # o
      BY <2>0, <2>2, <3>1 DEF LogHolds
    <3> QED
      BY <2>2, <2>8, <3>1, <3>2
  <2>12. Good(t, written, kept)
    <3>1. \A c \in B!Blocks \ OwnedBy(s, k) : Untouched(t, s, c, k)
      BY <2>2, <2>8 DEF Untouched
    <3>2. HeldAt(t, k, written, kept)
      BY <2>10 DEF HeldAt
    <3>3. \A j \in B!Lbas \ {k}, m \in B!Offsets : B!Page(j, m) \in kept => B!Page(j, m) \in kept
      OBVIOUS
    <3> QED
      BY <2>0, <2>6, <2>7, <2>11, <3>1, <3>2, <3>3, InPlace
  <2>13. /\ Good(r, written, kept)
         /\ \A j \in B!Offsets : B!InLog(r, k, j) => B!InLog(t, k, j)
         /\ r.asserted = t.asserted /\ r.first_free = t.first_free
    BY <2>4, <2>6, <2>12, DisposeLogFacts
  <2> QED
    BY <2>7, <2>9, <2>13 DEF SameCall, SameLists, r
<1> QED
  BY <1>1, <1>2

(* ... and makes it invalid in the data block, so that neither has it.     *)
LEMMA TrimDataFacts ==
  ASSUME NEW s, NEW written, NEW kept, NEW k \in B!Lbas, NEW i \in B!Offsets,
         Good(s, written, kept), B!Page(k, i) \notin kept, ~B!InLog(s, k, i)
  PROVE  LET r == B!TrimData(s, k, i)
         IN  /\ Good(r, written, kept) /\ ~B!InLog(r, k, i) /\ ~DataValid(r, k, i)
             /\ r.asserted = s.asserted /\ r.first_free = s.first_free
<1> DEFINE r == B!TrimData(s, k, i)
<1>1. CASE ~B!HasData(s, k)
  BY <1>1 DEF B!TrimData, DataValid
<1>2. CASE B!HasData(s, k)
  <2>0. PICK b, d : b = Address(s, k) /\ d = s.data_list[k]
    OBVIOUS
  <2> DEFINE p == B!Page(d, i)
             t == WithInvalid(s, {p})
  <2>1. /\ s \in States /\ HeldAt(s, k, written, kept) /\ LogFresh(s, k) /\ Owned(s, {})
    BY DEF Good, Held
  <2>2. /\ d \in B!Blocks /\ d \in OwnedBy(s, k)
        /\ B!HasLog(s, k) => b \in B!Blocks /\ b # d
    <3>1. /\ d \in B!Blocks /\ d \in OwnedBy(s, k) /\ k \in DataLbas(s)
          /\ B!HasLog(s, k) => b \in B!Blocks /\ k \in B!Logs(s)
      BY <1>2, <2>0, <2>1, LogFacts DEF OwnedBy
    <3> QED
      BY <2>0, <2>1, <3>1 DEF Owned
  <2>3. /\ p \in B!Pages
        /\ \A c \in B!Blocks, j \in B!Offsets :
             /\ B!Page(c, j) \in B!Pages
             /\ B!Page(c, j) \in {p} <=> c = d /\ j = i
    BY <2>2, Addresses
  <2>4. r = B!DisposeData(t, k)
    <3>1. B!InvalidatePage(s, p) = t
      BY <2>1, <2>3, InvalidatePageSame
    <3>2. B!DataPage(s, k, i) = p
      BY <2>0 DEF B!DataPage
    <3> HIDE DEF p, t
    <3> QED
      BY <1>2, <3>1, <3>2 DEF B!TrimData
  <2> HIDE DEF p, t, r
  <2>5. /\ t \in States /\ t.data = s.data /\ t.pages_valid = s.pages_valid
        /\ SameLayer(t, s) /\ SameLists(t, s) /\ SameCounts(t, s) /\ SameCall(t, s)
        /\ \A q \in B!Pages : t.state[q] = IF q \in {p} THEN "INVALID" ELSE s.state[q]
    BY <2>1, <2>3, InvalidateFacts DEF t
  <2>6. \A c \in B!Blocks :
          /\ t.pages_valid[c] = s.pages_valid[c]
          /\ \A j \in B!Offsets :
               /\ StateOf(t, c, j) = IF c = d /\ j = i THEN "INVALID" ELSE StateOf(s, c, j)
               /\ DataOf(t, c, j) = DataOf(s, c, j)
    BY <2>3, <2>5 DEF StateOf, DataOf
  <2>7. /\ t.data_list = s.data_list /\ t.log_map = s.log_map /\ Address(t, k) = Address(s, k)
        /\ (B!HasData(t, k) <=> B!HasData(s, k)) /\ (B!HasLog(t, k) <=> B!HasLog(s, k))
        /\ \A j \in B!Offsets : B!InLog(t, k, j) <=> B!InLog(s, k, j)
    BY <2>5 DEF SameLayer, Address, B!HasData, B!HasLog, B!InLog
  <2>8. ~B!InLog(t, k, i) /\ ~DataValid(t, k, i)
    BY <2>0, <2>2, <2>6, <2>7 DEF DataValid
  <2>9. ASSUME NEW j \in B!Offsets
        PROVE  /\ B!InLog(t, k, j) => LogHolds(t, k, j, written)
               /\ DataValid(t, k, j) => DataHolds(t, k, j, written)
               /\ B!Page(k, j) \in kept => B!InLog(t, k, j) \/ DataValid(t, k, j)
    <3>1. DataValid(t, k, j) <=> j # i /\ DataValid(s, k, j)
      BY <2>0, <2>2, <2>6, <2>7, <2>8 DEF DataValid
    <3>2. ASSUME B!InLog(s, k, j) PROVE LogHolds(t, k, j, written)
      <4>1. LogHolds(s, k, j, written) /\ s.log_map[k].pages[j] \in B!Offsets /\ B!HasLog(s, k)
        BY <2>1, <3>2, LogFacts DEF HeldAt, B!InLog
      <4> QED
        BY <2>0, <2>2, <2>6, <2>7, <4>1 DEF LogHolds
    <3>3. ASSUME DataValid(s, k, j) PROVE DataHolds(t, k, j, written)
      <4>1. DataHolds(s, k, j, written)
        BY <2>1, <3>3 DEF HeldAt
      <4> QED
        BY <2>0, <2>2, <2>6, <2>7, <4>1 DEF DataHolds
    <3>4. B!Page(k, j) \in kept => j # i /\ (B!InLog(s, k, j) \/ DataValid(s, k, j))
      BY <2>1 DEF HeldAt
    <3> QED
      BY <2>7, <3>1, <3>2, <3>3, <3>4
  <2>10. LogFresh(t, k)
    BY <2>0, <2>1, <2>2, <2>6, <2>7 DEF LogFresh
  <2>11. Good(t, written, kept)
    <3>1. \A c \in B!Blocks \ OwnedBy(s, k) : Untouched(t, s, c, k)
      BY <2>2, <2>6 DEF Untouched
    <3>2. HeldAt(t, k, written, kept)
      BY <2>9 DEF HeldAt
    <3>3. \A j \in B!Lbas \ {k} : t.log_map[j] = s.log_map[j]
      BY <2>7
    <3>4. \A j \in B!Lbas \ {k}, m \in B!Offsets : B!Page(j, m) \in kept => B!Page(j, m) \in kept
      OBVIOUS
    <3> QED
      BY <2>5, <2>7, <2>10, <3>1, <3>2, <3>3, <3>4, InPlace
  <2>12. /\ Good(r, written, kept)
         /\ \A j \in B!Offsets : /\ B!InLog(r, k, j) => B!InLog(t, k, j)
                                 /\ DataValid(r, k, j) => DataValid(t, k, j)
         /\ r.asserted = t.asserted /\ r.first_free = t.first_free
    BY <1>2, <2>4, <2>7, <2>11, DisposeDataFacts
  <2> QED
    BY <2>5, <2>8, <2>12 DEF SameCall, SameLists, r
<1> QED
  BY <1>1, <1>2

-----------------------------------------------------------------------------
(* The operations of the host.                                             *)

(* A page that neither the log nor the data block has is not written.      *)
LEMMA HeldLess ==
  ASSUME NEW s, NEW written, NEW k \in B!Lbas, NEW i \in B!Offsets,
         Good(s, written, written \ {B!Page(k, i)}),
         ~B!InLog(s, k, i), ~DataValid(s, k, i)
  PROVE  Good(s, written \ {B!Page(k, i)}, written \ {B!Page(k, i)})
<1> DEFINE less == written \ {B!Page(k, i)}
<1>1. ASSUME NEW j \in B!Lbas, NEW m \in B!Offsets, B!InLog(s, j, m) \/ DataValid(s, j, m)
      PROVE  B!Page(j, m) # B!Page(k, i)
  <2>1. ~(j = k /\ m = i)
    BY <1>1
  <2> QED
    BY <2>1, Addresses
<1>2. ASSUME NEW j \in B!Lbas PROVE HeldAt(s, j, less, less)
  <2>1. HeldAt(s, j, written, less)
    BY DEF Good, Held
  <2>2. ASSUME NEW m \in B!Offsets
        PROVE  /\ B!InLog(s, j, m) => LogHolds(s, j, m, less)
               /\ DataValid(s, j, m) => DataHolds(s, j, m, less)
               /\ B!Page(j, m) \in less => B!InLog(s, j, m) \/ DataValid(s, j, m)
    <3>1. /\ B!InLog(s, j, m) => LogHolds(s, j, m, written)
          /\ DataValid(s, j, m) => DataHolds(s, j, m, written)
          /\ B!Page(j, m) \in less => B!InLog(s, j, m) \/ DataValid(s, j, m)
      BY <2>1 DEF HeldAt
    <3>2. B!InLog(s, j, m) => LogHolds(s, j, m, less)
      BY <1>1, <3>1 DEF LogHolds
    <3>3. DataValid(s, j, m) => DataHolds(s, j, m, less)
      BY <1>1, <3>1 DEF DataHolds
    <3> QED
      BY <3>1, <3>2, <3>3
  <2> QED
    BY <2>2 DEF HeldAt
<1>3. Held(s, less, less)
  BY <1>2 DEF Good, Held
<1> QED
  BY <1>3 DEF Good

(* After both the page is no longer written, and all others are kept.      *)
LEMMA TrimFacts ==
  ASSUME NEW s, NEW written, Good(s, written, written), NEW k \in B!Lbas, NEW i \in B!Offsets
  PROVE  LET r == B!TrimData(B!TrimLog(s, k, i), k, i)
             less == written \ {B!Page(k, i)}
         IN  /\ Good(r, less, less)
             /\ r.asserted = s.asserted /\ r.first_free = s.first_free
<1> DEFINE less == written \ {B!Page(k, i)}
           t == B!TrimLog(s, k, i)
           r == B!TrimData(t, k, i)
<1>1. Good(s, written, less)
  <2>1. ASSUME NEW j \in B!Lbas PROVE HeldAt(s, j, written, less)
    <3>1. HeldAt(s, j, written, written)
      BY DEF Good, Held
    <3> QED
      BY <3>1 DEF HeldAt
  <2> QED
    BY <2>1 DEF Good, Held
<1>2. B!Page(k, i) \notin less
  OBVIOUS
<1> HIDE DEF less
<1>3. /\ Good(t, written, less) /\ ~B!InLog(t, k, i)
      /\ t.asserted = s.asserted /\ t.first_free = s.first_free
  BY <1>1, <1>2, TrimLogFacts
<1> HIDE DEF t
<1>4. /\ Good(r, written, less) /\ ~B!InLog(r, k, i) /\ ~DataValid(r, k, i)
      /\ r.asserted = t.asserted /\ r.first_free = t.first_free
  BY <1>2, <1>3, TrimDataFacts
<1> HIDE DEF r
<1>5. Good(r, less, less)
  BY <1>4, HeldLess DEF less
<1> QED
  BY <1>3, <1>4, <1>5 DEF less, r, t

(* Nothing else matters to the invariant.                                   *)
LEMMA SameGood ==
  ASSUME NEW s, NEW written, NEW kept, Good(s, written, kept), NEW r \in States,
         SameFlash(r, s), SameLayer(r, s), SameLists(r, s), SameCounts(r, s)
  PROVE  Good(r, written, kept)
<1>1. /\ r.state = s.state /\ r.data = s.data /\ r.pages_valid = s.pages_valid
      /\ r.data_list = s.data_list /\ r.log_map = s.log_map
      /\ r.first_free = s.first_free /\ r.current_free = s.current_free
      /\ r.free_list = s.free_list
      /\ r.data_active = s.data_active /\ r.log_active = s.log_active
  BY DEF SameFlash, SameLayer, SameLists, SameCounts
<1>2. /\ DataLbas(r) = DataLbas(s) /\ B!Logs(r) = B!Logs(s)
      /\ Listed(r) = Listed(s) /\ Free(r) = Free(s)
  BY <1>1 DEF DataLbas, B!HasData, B!Logs, B!HasLog, Listed, Free
<1>3. Owned(r, {})
  <2>1. Owned(s, {})
    BY DEF Good
  <2> QED
    BY <1>1, <1>2, <2>1 DEF Owned, Address
<1>4. Counted(r) /\ Cardinality(B!Logs(r)) <= BastLimit
  BY <1>1, <1>2 DEF Good, Counted
<1>5. Clean(r, {})
  BY <1>1, <1>2 DEF Good, Clean, StateOf
<1>6. ASSUME NEW k \in B!Lbas PROVE HeldAt(r, k, written, kept) /\ LogFresh(r, k)
  <2>1. HeldAt(s, k, written, kept) /\ LogFresh(s, k)
    BY DEF Good, Held
  <2>2. LogFresh(r, k)
    BY <1>1, <2>1 DEF LogFresh, B!HasLog, Address, StateOf
  <2>3. ASSUME NEW i \in B!Offsets
        PROVE  /\ B!InLog(r, k, i) <=> B!InLog(s, k, i)
               /\ LogHolds(r, k, i, written) <=> LogHolds(s, k, i, written)
               /\ DataValid(r, k, i) <=> DataValid(s, k, i)
               /\ DataHolds(r, k, i, written) <=> DataHolds(s, k, i, written)
    BY <1>1 DEF B!InLog, B!HasLog, LogHolds, Address, StateOf, DataOf, DataValid, B!HasData,
                DataHolds
  <2>4. HeldAt(r, k, written, kept)
    BY <2>1, <2>3 DEF HeldAt
  <2> QED
    BY <2>2, <2>4
<1> QED
  BY <1>3, <1>4, <1>5, <1>6 DEF Good, Held

(* The block that a call took is of no interest after it.                  *)
LEMMA Returned ==
  ASSUME NEW s, NEW written, NEW kept, Good(s, written, kept)
  PROVE  LET r == [s EXCEPT !.got = B!NoBlock]
         IN  /\ Good(r, written, kept)
             /\ r.asserted = s.asserted /\ r.first_free = s.first_free
<1>0. PICK r : r = [s EXCEPT !.got = B!NoBlock]
  OBVIOUS
<1>1. s \in States
  BY DEF Good
<1>2. r \in States
  BY <1>0, <1>1 DEF States, B!NoBlock
<1>3. /\ SameFlash(r, s) /\ SameLayer(r, s) /\ SameLists(r, s) /\ SameCounts(r, s)
      /\ r.asserted = s.asserted
  BY <1>0, <1>1 DEF States, SameFlash, SameLayer, SameLists, SameCounts
<1>4. Good(r, written, kept)
  BY <1>2, <1>3, SameGood
<1> QED
  BY <1>0, <1>3, <1>4 DEF SameLists

(* So is what stands when the program ends in a call.                      *)
LEMMA Stopped ==
  ASSUME NEW s, NEW written, NEW kept, Good(s, written, kept),
         NEW a \in BOOLEAN, NEW w \in BOOLEAN
  PROVE  LET r == [s EXCEPT !.asserted = a, !.worn_out = w]
         IN  Good(r, written, kept) /\ r.first_free = s.first_free /\ r.asserted = a
<1>0. PICK r : r = [s EXCEPT !.asserted = a, !.worn_out = w]
  OBVIOUS
<1>1. s \in States
  BY DEF Good
<1>2. r \in States /\ r.asserted = a
  BY <1>0, <1>1 DEF States
<1>3. SameFlash(r, s) /\ SameLayer(r, s) /\ SameLists(r, s) /\ SameCounts(r, s)
  BY <1>0, <1>1 DEF States, SameFlash, SameLayer, SameLists, SameCounts
<1>4. Good(r, written, kept)
  BY <1>2, <1>3, SameGood
<1> QED
  BY <1>0, <1>2, <1>3, <1>4 DEF SameLists

(* What a step of the host keeps, from the state s and the pages written   *)
(* to those of the state r after it.                                       *)
Safe(s, written) ==
  /\ written \subseteq B!Lpns
  /\ Good(s, written, written)
  /\ Room(s) => s.asserted

(* A write, with any victim; if the program ends in it, the device stands as   *)
(* it was before.                                                          *)
LEMMA WriteSafe ==
  ASSUME Safe(ssd, live), NEW l \in B!Lpns, B!Write(l)
  PROVE  Safe(ssd', live')
<1> DEFINE k == B!BlockOf(l)
           i == B!Offset(l)
<1>1. k \in B!Lbas /\ i \in B!Offsets /\ l = B!Page(k, i)
  BY Addresses
<1>2. /\ Good(ssd, live, live) /\ ssd \in States /\ ssd.asserted
      /\ Cardinality(B!Logs(ssd)) <= BastLimit /\ live \subseteq B!Lpns
  BY DEF Safe, Good, B!Write, B!IsRunning
<1>3. PICK v \in IF ~B!HasLog(ssd, k) /\ B!LogsFull(ssd) THEN B!Victims(ssd) ELSE {k} :
        B!Return(B!WriteLog(B!Prepared(ssd, k, v), k, i, l), live \cup {l})
  BY DEF B!Write
<1> HIDE DEF k, i
<1>4. /\ v \in B!Lbas
      /\ ~B!HasLog(ssd, k) /\ Cardinality(B!Logs(ssd)) >= BastLimit => B!HasLog(ssd, v)
  <2>1. B!LogsFull(ssd) <=> Cardinality(B!Logs(ssd)) >= BastLimit
    BY CardinalitySame DEF B!LogsFull
  <2>2. \A u \in B!Victims(ssd) : u \in B!Lbas /\ B!HasLog(ssd, u)
    BY DEF B!Victims, B!Logs
  <2> QED
    BY <1>1, <1>3, <2>1, <2>2
<1> DEFINE q == B!Prepared(ssd, k, v)
           r == B!WriteLog(q, k, i, l)
<1>5. Prepares(q, ssd, k, live, live)
  BY <1>1, <1>2, <1>4, PreparedFacts
<1>6. B!Return(r, live \cup {l})
  BY <1>3
<1> HIDE DEF q
<1>7. Failed(q) => Failed(r)
  BY FailedLog
<1>8. ~Failed(q) => /\ Good(r, live \cup {l}, live \cup {l})
                    /\ r.asserted = q.asserted /\ r.first_free = q.first_free
                    /\ q.first_free = ssd.first_free
  <2>1. SUFFICES ASSUME ~Failed(q)
                 PROVE  /\ Good(r, live \cup {l}, live \cup {l})
                        /\ r.asserted = q.asserted /\ r.first_free = q.first_free
                        /\ q.first_free = ssd.first_free
    OBVIOUS
  <2>2. Ready(q, ssd, k, live, live)
    BY <1>5, <2>1 DEF Prepares
  <2>3. /\ Good(q, live, live) /\ B!HasLog(q, k)
        /\ q.pages_valid[Address(q, k)] < BlockSize /\ q.first_free = ssd.first_free
    BY <2>2 DEF Ready
  <2>4. LET w == B!WriteLog(q, k, i, B!Page(k, i))
        IN  /\ Good(w, live \cup {B!Page(k, i)}, live \cup {B!Page(k, i)})
            /\ w.asserted = q.asserted /\ w.first_free = q.first_free
    BY ONLY <1>1, <2>3, WriteLogFacts
  <2> QED
    BY <1>1, <2>3, <2>4
<1> HIDE DEF r
<1>9. CASE B!IsRunning(r)
  <2>1. ssd' = [r EXCEPT !.got = B!NoBlock] /\ live' = live \cup {l} /\ r.asserted
    BY <1>6, <1>9 DEF B!Return, B!IsRunning
  <2>2. ~Failed(q)
    BY <1>7, <2>1 DEF Failed
  <2>3. /\ Good(ssd', live', live') /\ ssd'.asserted = r.asserted
    BY <1>8, <2>1, <2>2, Returned
  <2> QED
    BY <1>2, <2>1, <2>3 DEF Safe
<1>10. CASE ~B!IsRunning(r)
  <2> DEFINE a == r.asserted
             w == ssd.worn_out \/ r.worn_out
  <2>1. ssd' = [ssd EXCEPT !.asserted = a, !.worn_out = w] /\ live' = live
    BY <1>6, <1>10 DEF B!Return
  <2>5. a \in BOOLEAN
    <3>1. ~Failed(q) => r \in States
      BY <1>8 DEF Good
    <3> QED
      BY <1>7, <3>1 DEF Failed, States
  <2>6. w \in BOOLEAN
    OBVIOUS
  <2>3. Room(ssd) => a
    BY <1>2, <1>5, <1>7, <1>8 DEF Prepares, Failed
  <2> HIDE DEF a, w
  <2>2. Good(ssd', live', live') /\ ssd'.first_free = ssd.first_free /\ ssd'.asserted = a
    BY <1>2, <2>1, <2>5, <2>6, Stopped
  <2>4. Room(ssd') => ssd'.asserted
    BY <2>2, <2>3 DEF Room
  <2> QED
    BY <1>2, <2>1, <2>2, <2>4 DEF Safe
<1> QED
  BY <1>9, <1>10

(* A trim of any page, written or not.                                     *)
LEMMA TrimSafe ==
  ASSUME Safe(ssd, live), NEW l \in B!Lpns, B!Trim(l)
  PROVE  Safe(ssd', live')
<1> DEFINE k == B!BlockOf(l)
           i == B!Offset(l)
<1>1. k \in B!Lbas /\ i \in B!Offsets /\ l = B!Page(k, i)
  BY Addresses
<1> DEFINE r == B!TrimData(B!TrimLog(ssd, k, i), k, i)
<1>2. B!Return(r, live \ {l}) /\ ssd.asserted
  BY DEF B!Trim, B!IsRunning
<1> HIDE DEF k, i
<1>3. Good(ssd, live, live) /\ live \subseteq B!Lpns /\ Good(r, live \ {l}, live \ {l}) /\ r.asserted
  <2>1. Good(ssd, live, live) /\ live \subseteq B!Lpns
    BY DEF Safe
  <2>2. Good(r, live \ {l}, live \ {l}) /\ r.asserted = ssd.asserted
    BY <1>1, <2>1, TrimFacts
  <2> QED
    BY <1>2, <2>1, <2>2
<1> HIDE DEF r
<1>4. CASE B!IsRunning(r)
  <2>1. ssd' = [r EXCEPT !.got = B!NoBlock] /\ live' = live \ {l}
    BY <1>2, <1>4 DEF B!Return
  <2>2. Good(ssd', live', live') /\ ssd'.asserted = r.asserted
    BY <1>3, <2>1, Returned
  <2> QED
    BY <1>3, <2>1, <2>2 DEF Safe
<1>5. CASE ~B!IsRunning(r)
  <2> DEFINE w == ssd.worn_out \/ r.worn_out
  <2>1. ssd' = [ssd EXCEPT !.asserted = TRUE, !.worn_out = w] /\ live' = live
    BY <1>2, <1>3, <1>5 DEF B!Return
  <2>2. w \in BOOLEAN
    OBVIOUS
  <2> HIDE DEF w
  <2>3. Good(ssd', live', live') /\ ssd'.asserted
    BY <1>3, <2>1, <2>2, Stopped
  <2> QED
    BY <1>3, <2>1, <2>3 DEF Safe
<1> QED
  BY <1>4, <1>5

(* BastInv is inductive.                                                   *)
LEMMA StepSafe ==
  ASSUME BastInv, [Next]_vars
  PROVE  BastInv'
<1>1. BastInv <=> (ftl = "BAST" => Safe(ssd, live))
  BY DEF BastInv, Safe
<1>2. BastInv' <=> (ftl' = "BAST" => Safe(ssd', live'))
  BY DEF BastInv, Safe, Good, Owned, Counted, Clean, Held, HeldAt, LogFresh, LogHolds, DataHolds,
         DataValid, DataLbas, Room
<1>3. SUFFICES ASSUME ftl' = "BAST" PROVE Safe(ssd', live')
  BY <1>2
<1>4. ftl = "BAST" /\ Safe(ssd, live)
  BY <1>1, <1>3 DEF Next, vars, Read, Write, Trim, Host
<1>5. CASE Write
  <2>1. PICK l \in B!Lpns : B!Write(l)
    BY <1>4, <1>5 DEF Write
  <2> QED
    BY <1>4, <2>1, WriteSafe
<1>6. CASE Trim
  <2>1. PICK l \in B!Lpns : B!Trim(l)
    BY <1>4, <1>6 DEF Trim
  <2> QED
    BY <1>4, <2>1, TrimSafe
<1>7. CASE Read
  BY <1>4, <1>7 DEF Read
<1>8. CASE UNCHANGED vars
  BY <1>4, <1>8 DEF vars
<1> QED
  BY <1>5, <1>6, <1>7, <1>8 DEF Next

(* A new device: nothing is mapped, and the blocks from first on are free. *)
LEMMA InitSafe ==
  ASSUME Init
  PROVE  BastInv
<1>1. SUFFICES ASSUME ftl = "BAST", B!Init PROVE Safe(ssd, live)
  BY DEF Init, BastInv, Safe
<1>2. PICK first \in FirstFree :
        ssd = B!LayerInit([data_list |-> [k \in B!Lbas |-> B!NoBlock],
                           log_map |-> [k \in B!Lbas |-> B!NoLog]], first)
  BY <1>1 DEF B!Init
<1>3. live = {}
  BY <1>1 DEF B!Init
<1>4. first \in 0 .. NumberOfBlocks
  BY ConfigFacts
<1>5. PICK s : s = ssd
  OBVIOUS
<1> DEFINE fields == [data_list |-> [k \in B!Lbas |-> B!NoBlock],
                      log_map |-> [k \in B!Lbas |-> B!NoLog]]
           flash == B!FlashInit(first)
<1>6. /\ DOMAIN fields = {"data_list", "log_map"}
      /\ DOMAIN flash = {"state", "data", "pages_valid", "erases_remaining", "worn_out", "asserted", "first_free", "current_free",
                         "free_list", "invalid_list", "data_active", "log_active",
                         "out_of_blocks", "got"}
  BY DEF B!FlashInit
<1>7. s = [x \in DOMAIN fields \cup DOMAIN flash |->
             IF x \in DOMAIN fields THEN fields[x] ELSE flash[x]]
  BY <1>2, <1>5 DEF B!LayerInit
<1>8. s = [state |-> [p \in B!Pages |-> "EMPTY"],
           data |-> [p \in B!Pages |-> -1],
           pages_valid |-> [b \in B!Blocks |-> 0],
           erases_remaining |-> [b \in B!Blocks |-> BastErases], worn_out |-> FALSE,
           asserted |-> TRUE,
           first_free |-> first, current_free |-> first,
           free_list |-> << >>, invalid_list |-> << >>,
           data_active |-> 0, log_active |-> 0,
           out_of_blocks |-> FALSE, got |-> -1,
           data_list |-> [k \in B!Lbas |-> -1],
           log_map |-> [k \in B!Lbas |-> B!NoLog]]
  BY <1>6, <1>7 DEF B!FlashInit, B!Junk, B!NoBlock
<1> HIDE DEF fields, flash
<1>9. s \in States
  <2>1. << >> \in Seq(B!Blocks)
    OBVIOUS
  <2>2. [k \in B!Lbas |-> B!NoLog] \in [B!Lbas -> LogEntries]
    BY DEF LogEntries
  <2> QED
    BY <1>4, <1>8, <2>1, <2>2, ConfigFacts DEF States
<1>10. DataLbas(s) = {} /\ B!Logs(s) = {} /\ Listed(s) = {}
  BY <1>8 DEF DataLbas, B!HasData, B!NoBlock, B!Logs, B!HasLog, Listed
<1>11. Free(s) = first .. NumberOfBlocks - 1
  BY <1>8, <1>10 DEF Free
<1>12. Owned(s, {})
  <2>1. \A b \in B!Blocks : first <= b <=> b \in Free(s)
    BY <1>4, <1>11, ConfigFacts DEF B!Blocks
  <2>2. /\ s.first_free = first /\ s.current_free = first /\ DOMAIN s.free_list = {}
        /\ first <= first
    BY <1>4, <1>8
  <2> QED
    BY <1>10, <2>1, <2>2 DEF Owned
<1>13. Counted(s) /\ Cardinality(B!Logs(s)) <= BastLimit
  <2>1. s.data_active = 0 /\ s.log_active = 0
    BY <1>8
  <2>2. Cardinality(DataLbas(s)) = 0 /\ Cardinality(B!Logs(s)) = 0
    BY <1>10, FS_EmptySet
  <2>3. 0 <= BastLimit
    BY ConfigFacts
  <2> QED
    BY <2>1, <2>2, <2>3 DEF Counted
<1>14. Clean(s, {})
  <2>1. \A b \in Free(s) : b \in B!Blocks
    BY <1>4, <1>11, ConfigFacts DEF B!Blocks
  <2> QED
    BY <1>8, <2>1, Addresses DEF Clean, StateOf
<1>15. Held(s, {}, {})
  BY <1>8 DEF Held, HeldAt, LogFresh, B!InLog, B!HasLog, DataValid, B!HasData, B!NoBlock
<1>16. s.asserted
  BY <1>8
<1> QED
  BY <1>3, <1>5, <1>9, <1>12, <1>13, <1>14, <1>15, <1>16 DEF Safe, Good

(* In every reachable state with the BAST layer: what a page of a log or a *)
(* data block holds, which block is whose, and what the counters count.    *)
THEOREM BastInvariant == Spec => []BastInv
<1>1. Init => BastInv
  BY InitSafe
<1>2. BastInv /\ [Next]_vars => BastInv'
  BY StepSafe
<1> QED
  BY <1>1, <1>2, PTL DEF Spec

-----------------------------------------------------------------------------
(* What follows from it.                                                   *)

LEMMA SafeTyped ==
  ASSUME Safe(ssd, live)
  PROVE  B!TypeOK
<1>1. /\ ssd \in States /\ Owned(ssd, {}) /\ Counted(ssd)
      /\ Cardinality(B!Logs(ssd)) <= BastLimit /\ live \subseteq B!Lpns
  BY DEF Safe, Good
<1>2. B!FlashTypeOK
  <2>1. /\ ssd.first_free \in Nat /\ ssd.current_free \in 0 .. NumberOfBlocks
        /\ ssd.first_free <= ssd.current_free
    BY <1>1, ConfigFacts DEF States, Owned
  <2>2. ssd.current_free \in ssd.first_free .. NumberOfBlocks
    BY <2>1, ConfigFacts
  <2>3. << >> \in Seq(B!Blocks)
    OBVIOUS
  <2>4. /\ ssd.state \in [B!Pages -> {"EMPTY", "VALID", "INVALID"}]
        /\ ssd.data \in [B!Pages -> B!Lpns \cup {-1}]
        /\ ssd.pages_valid \in [B!Blocks -> 0 .. BlockSize]
        /\ ssd.erases_remaining \in [B!Blocks -> 0 .. BastErases]
        /\ ssd.free_list \in Seq(B!Blocks) /\ ssd.invalid_list = << >>
        /\ ssd.data_active \in Int /\ ssd.log_active \in Int
    BY <1>1 DEF States
  <2> QED
    BY <1>1, <2>2, <2>3, <2>4 DEF B!FlashTypeOK, B!Junk
<1>3. ssd.data_active \in Nat /\ ssd.log_active \in 0 .. BastLimit
  <2>1. Cardinality(DataLbas(ssd)) \in Nat /\ Cardinality(B!Logs(ssd)) \in Nat
    BY LbaSets
  <2> QED
    BY <1>1, <2>1, ConfigFacts DEF Counted
<1>4. ssd.invalid_list = << >> /\ ssd.data_list \in [B!Lbas -> B!Blocks \cup {-1}]
  BY <1>1 DEF States
<1>5. ASSUME NEW k \in B!Logs(ssd)
      PROVE  /\ ssd.log_map[k].address \in B!Blocks
             /\ ssd.log_map[k].pages \in [B!Offsets -> B!Offsets \cup {-1}]
  <2>1. k \in B!Lbas /\ ssd.log_map[k] # B!NoLog
    BY DEF B!Logs, B!HasLog
  <2>2. ssd.log_map[k] \in LogEntries
    BY <1>1, <2>1 DEF States
  <2>3. ssd.log_map[k] \in [address : B!Blocks, pages : [B!Offsets -> B!Offsets \cup {-1}]]
    BY <2>1, <2>2 DEF LogEntries
  <2> QED
    BY <2>3
<1> QED
  BY <1>2, <1>3, <1>4, <1>5 DEF B!TypeOK, B!NoBlock

LEMMA SafeReads ==
  ASSUME Safe(ssd, live)
  PROVE  B!ReadsNewest
<1> SUFFICES ASSUME NEW l \in live
             PROVE  /\ ssd.state[B!ReadAddress(ssd, l)] = "VALID"
                    /\ ssd.data[B!ReadAddress(ssd, l)] = l
  BY DEF B!ReadsNewest
<1> DEFINE k == B!BlockOf(l)
           i == B!Offset(l)
<1>1. k \in B!Lbas /\ i \in B!Offsets /\ l = B!Page(k, i)
  BY Addresses DEF Safe
<1>2. HeldAt(ssd, k, live, live)
  BY <1>1 DEF Safe, Good, Held
<1>3. B!ReadAddress(ssd, l)
        = LET p == IF B!InLog(ssd, k, i) THEN B!LogPage(ssd, k, i)
                   ELSE IF B!HasData(ssd, k) THEN B!DataPage(ssd, k, i) ELSE 0
          IN  IF ssd.state[p] = "INVALID" THEN 0 ELSE p
  BY DEF B!ReadAddress
<1> HIDE DEF k, i
<1>4. /\ B!InLog(ssd, k, i) => LogHolds(ssd, k, i, live)
      /\ DataValid(ssd, k, i) => DataHolds(ssd, k, i, live)
      /\ B!InLog(ssd, k, i) \/ DataValid(ssd, k, i)
  BY <1>1, <1>2 DEF HeldAt
<1>5. CASE B!InLog(ssd, k, i)
  <2>1. ssd.state[B!LogPage(ssd, k, i)] = "VALID" /\ ssd.data[B!LogPage(ssd, k, i)] = l
    BY <1>1, <1>4, <1>5 DEF LogHolds, StateOf, DataOf, Address, B!LogPage
  <2>2. B!ReadAddress(ssd, l) = B!LogPage(ssd, k, i)
    BY <1>3, <1>5, <2>1
  <2> QED
    BY <2>1, <2>2
<1>6. CASE ~B!InLog(ssd, k, i)
  <2>1. /\ B!HasData(ssd, k)
        /\ ssd.state[B!DataPage(ssd, k, i)] = "VALID" /\ ssd.data[B!DataPage(ssd, k, i)] = l
    BY <1>1, <1>4, <1>6 DEF DataValid, DataHolds, StateOf, DataOf, B!DataPage
  <2>2. B!ReadAddress(ssd, l) = B!DataPage(ssd, k, i)
    BY <1>3, <1>6, <2>1
  <2> QED
    BY <2>1, <2>2
<1> QED
  BY <1>5, <1>6

LEMMA SafeBlocks ==
  ASSUME Safe(ssd, live)
  PROVE  B!BlocksOwned
<1>1. Owned(ssd, {}) /\ ssd \in States
  BY DEF Safe, Good
<1>2. /\ B!DataBlocks = {ssd.data_list[k] : k \in DataLbas(ssd)}
      /\ B!LogBlocks = {Address(ssd, k) : k \in B!Logs(ssd)}
  BY DEF B!DataBlocks, DataLbas, B!LogBlocks, Address
<1>3. B!FreeBlocks = Free(ssd)
  BY DEF B!FreeBlocks, Free, Listed, B!Range
<1>4. \A j, k \in B!Lbas :
        B!HasData(ssd, j) /\ ssd.data_list[j] = ssd.data_list[k] => j = k
  BY <1>1 DEF Owned, DataLbas, B!HasData
<1>5. \A j, k \in B!Logs(ssd) : ssd.log_map[j].address = ssd.log_map[k].address => j = k
  BY <1>1 DEF Owned, Address
<1>6. B!IsInjective(ssd.free_list)
  BY <1>1 DEF Owned, B!IsInjective
<1>7. /\ \A j \in DataLbas(ssd), k \in B!Logs(ssd) : ssd.data_list[j] # Address(ssd, k)
      /\ \A k \in DataLbas(ssd) : ssd.data_list[k] \notin Free(ssd)
      /\ \A k \in B!Logs(ssd) : Address(ssd, k) \notin Free(ssd)
      /\ \A b \in B!Blocks :
           ssd.first_free <= b <=> \/ \E k \in DataLbas(ssd) : ssd.data_list[k] = b
                                   \/ \E k \in B!Logs(ssd) : Address(ssd, k) = b
                                   \/ b \in Free(ssd)
  BY <1>1 DEF Owned
<1>8. B!DataBlocks \cap B!LogBlocks = {}
  BY <1>2, <1>7
<1>9. (B!DataBlocks \cup B!LogBlocks) \cap B!FreeBlocks = {}
  BY <1>2, <1>3, <1>7
<1>10. B!DataBlocks \cup B!LogBlocks \cup B!FreeBlocks \subseteq B!Blocks
  <2>1. B!DataBlocks \subseteq B!Blocks
    BY <1>1, <1>2 DEF States, DataLbas, B!HasData, B!NoBlock
  <2>2. B!LogBlocks \subseteq B!Blocks
    BY <1>2, SafeTyped DEF B!TypeOK, Address
  <2>3. B!FreeBlocks \subseteq B!Blocks
    BY <1>1, <1>3, FreeBlocksType
  <2> QED
    BY <2>1, <2>2, <2>3
<1>11. \A b \in B!Blocks :
         ssd.first_free <= b <=> b \in B!DataBlocks \cup B!LogBlocks \cup B!FreeBlocks
  BY <1>2, <1>3, <1>7
<1>12. \A b : b \in ssd.first_free .. NumberOfBlocks - 1
                <=> b \in B!Blocks /\ ssd.first_free <= b
  <2>1. ssd.first_free \in Nat
    BY <1>1, ConfigFacts DEF States
  <2> QED
    BY <2>1, ConfigFacts DEF B!Blocks
<1>13. ssd.first_free .. NumberOfBlocks - 1 = B!DataBlocks \cup B!LogBlocks \cup B!FreeBlocks
  BY <1>10, <1>11, <1>12
<1> QED
  BY <1>4, <1>5, <1>6, <1>8, <1>9, <1>13 DEF B!BlocksOwned

LEMMA SafeCounts ==
  ASSUME Safe(ssd, live)
  PROVE  B!CountersAgree
<1>1. Owned(ssd, {}) /\ Counted(ssd)
  BY DEF Safe, Good
<1>2. Cardinality(B!DataBlocks) = Cardinality(DataLbas(ssd))
  <2> DEFINE S == DataLbas(ssd)
             f == [k \in S |-> ssd.data_list[k]]
             T == {ssd.data_list[k] : k \in S}
  <2>1. f \in [S -> T] /\ IsFiniteSet(S)
    BY LbaSets
  <2>2. \A x, y \in S : f[x] = f[y] => x = y
    BY <1>1 DEF Owned
  <2>3. {f[x] : x \in S} = B!DataBlocks
    BY DEF B!DataBlocks, DataLbas
  <2> HIDE DEF S, f, T
  <2>4. (\A x, y \in S : f[x] = f[y] => x = y)
        => Cardinality({f[x] : x \in S}) = Cardinality(S)
    BY ONLY <2>1, ImageCount
  <2>5. Cardinality({f[x] : x \in S}) = Cardinality(S)
    BY ONLY <2>2, <2>4
  <2> QED
    BY <2>3, <2>5 DEF S
<1>3. Cardinality(B!LogBlocks) = Cardinality(B!Logs(ssd))
  <2> DEFINE S == B!Logs(ssd)
             f == [k \in S |-> Address(ssd, k)]
             T == {Address(ssd, k) : k \in S}
  <2>1. f \in [S -> T] /\ IsFiniteSet(S)
    BY LbaSets
  <2>2. \A x, y \in S : f[x] = f[y] => x = y
    BY <1>1 DEF Owned
  <2>3. {f[x] : x \in S} = B!LogBlocks
    BY DEF B!LogBlocks, Address
  <2> HIDE DEF S, f, T
  <2>4. (\A x, y \in S : f[x] = f[y] => x = y)
        => Cardinality({f[x] : x \in S}) = Cardinality(S)
    BY ONLY <2>1, ImageCount
  <2>5. Cardinality({f[x] : x \in S}) = Cardinality(S)
    BY ONLY <2>2, <2>4
  <2> QED
    BY <2>3, <2>5 DEF S
<1> QED
  BY <1>1, <1>2, <1>3, CardinalitySame DEF B!CountersAgree, Counted

LEMMA SafePages ==
  ASSUME Safe(ssd, live)
  PROVE  B!DataPagesNewest
<1> SUFFICES ASSUME NEW k \in B!Lbas, B!HasData(ssd, k), NEW i \in B!Offsets,
                    ssd.state[B!DataPage(ssd, k, i)] = "VALID"
             PROVE  B!Page(k, i) \in live /\ ~B!InLog(ssd, k, i)
  BY DEF B!DataPagesNewest
<1>1. HeldAt(ssd, k, live, live)
  BY DEF Safe, Good, Held
<1>2. DataValid(ssd, k, i)
  BY DEF DataValid, StateOf, B!DataPage
<1> QED
  BY <1>1, <1>2 DEF HeldAt, DataHolds

LEMMA InvSafe ==
  ASSUME BastInv, ftl = "BAST"
  PROVE  Safe(ssd, live)
  BY DEF BastInv, Safe

-----------------------------------------------------------------------------
(* The properties of the simulator, where the layer is BAST: for devices   *)
(* of every size, wherever the device's first free block is, and for every *)
(* limit of logs.                                                          *)

(* The types; above all, the counters of data and log blocks, unsigned in  *)
(* the code, never go below 0, so that no block is given back twice or     *)
(* under the wrong kind, and there are never more logs than the limit.     *)
THEOREM BastTyped == Spec => [](ftl = "BAST" => TypeOK)
<1>1. BastInv => (ftl = "BAST" => TypeOK)
  BY InvSafe, SafeTyped DEF TypeOK
<1> QED
  BY <1>1, BastInvariant, PTL

(* A page that was written and not trimmed since is read with its last     *)
(* data, whatever merges, switches and erases came between.                *)
THEOREM BastReads == Spec => [](ftl = "BAST" => ReadsNewest)
<1>1. BastInv => (ftl = "BAST" => ReadsNewest)
  BY InvSafe, SafeReads DEF ReadsNewest, Sound
<1> QED
  BY <1>1, BastInvariant, PTL

(* Every block that the layer uses is one logical block's data block, one  *)
(* log, or free once: none is erased or given out while in use, and none   *)
(* is lost.                                                                *)
THEOREM BastBlocks == Spec => [](ftl = "BAST" => BlocksOwned)
<1>1. BastInv => (ftl = "BAST" => BlocksOwned)
  BY InvSafe, SafeBlocks DEF BlocksOwned, Sound
<1> QED
  BY <1>1, BastInvariant, PTL

(* The block manager's counters are the numbers of data and log blocks,    *)
(* through every merge, promotion and trim.                                *)
THEOREM BastCounts == Spec => [](ftl = "BAST" => CountersAgree)
<1>1. BastInv => (ftl = "BAST" => CountersAgree)
  BY InvSafe, SafeCounts DEF CountersAgree, Sound
<1> QED
  BY <1>1, BastInvariant, PTL

(* With one block more than the logical blocks and the logs need, no       *)
(* assertion fails but the one that ends the program when a worn block is  *)
(* to be erased: there is a free block when a merge or a new log takes     *)
(* one, and a page is written only when it is empty.                       *)
THEOREM BastAsserts == Spec => [](ftl = "BAST" => AssertionsHold)
<1>1. BastInv => (ftl = "BAST" => AssertionsHold)
  BY DEF BastInv, AssertionsHold, Room, B!HasRoom, Sound
<1> QED
  BY <1>1, BastInvariant, PTL

(* A valid page of a data block is the newest copy, and no log hides it:   *)
(* what a merge takes from the data block is what a read would return.     *)
THEOREM BastDataPages == Spec => []DataPagesNewest
<1>1. BastInv => DataPagesNewest
  BY InvSafe, SafePages DEF DataPagesNewest
<1> QED
  BY <1>1, BastInvariant, PTL

-----------------------------------------------------------------------------
(* The page layer.                                                         *)

PageStates ==
  [state : [P!Pages -> {"EMPTY", "VALID", "INVALID"}],
   data : [P!Pages -> P!Lpns \cup {-1}],
   pages_valid : [P!Blocks -> 0 .. BlockSize],
   erases_remaining : [P!Blocks -> 0 .. BlockErases],
   worn_out : BOOLEAN, asserted : BOOLEAN,
   first_free : 0 .. NumberOfBlocks, current_free : 0 .. NumberOfBlocks,
   free_list : Seq(P!Blocks), invalid_list : Seq(P!Blocks),
   data_active : Int, log_active : Int,
   out_of_blocks : BOOLEAN, got : {P!NoBlock},
   pages_active : 0 .. Ulong - 1, trimmed : SUBSET P!Lpns]

(* The counter can only wrap in a trim.                                    *)
PageInv ==
  ftl = "PAGE" =>
    /\ ssd \in PageStates /\ live \subseteq P!Lpns
    /\ ssd.current_free = ssd.first_free
    /\ ~trimming => P!InUse

LEMMA PageConfig ==
  /\ NumberOfBlocks \in Nat \ {0} /\ BlockSize \in Nat \ {0}
  /\ Ulong \in Nat /\ Ulong > NumberOfBlocks * BlockSize
  /\ NumberOfBlocks * BlockSize \in Nat /\ BlockSize <= NumberOfBlocks * BlockSize
  /\ 0 \in P!Blocks /\ BlockErases \in Nat
<1>1. /\ NumberOfBlocks \in Nat \ {0} /\ BlockSize \in Nat \ {0} /\ BlockErases \in Nat
      /\ Ulong \in Nat /\ Ulong > NumberOfBlocks * BlockSize
  BY SimulatorAssumption DEF P!FlashAssumption, P!PageAssumption
<1>2. NumberOfBlocks * BlockSize \in Nat /\ BlockSize <= NumberOfBlocks * BlockSize
  BY <1>1, SMT
<1> QED
  BY <1>1, <1>2 DEF P!Blocks

(* Unsigned arithmetic.                                                    *)
LEMMA Wraps ==
  ASSUME NEW n \in Int, NEW u \in Nat \ {0}
  PROVE  n % u \in 0 .. u - 1 /\ (n \in 0 .. u - 1 => n % u = n)
  BY SMT

LEMMA AddPagesFacts ==
  ASSUME NEW s \in PageStates, NEW n \in Int
  PROVE  LET r == P!AddPages(s, n)
         IN  /\ r \in PageStates /\ r.current_free = s.current_free /\ r.first_free = s.first_free
             /\ r.asserted = s.asserted
             /\ s.pages_active + n \in 0 .. Ulong - 1 => r.pages_active = s.pages_active + n
<1> DEFINE m == (s.pages_active + n) % Ulong
           r == P!AddPages(s, n)
<1>1. r = [s EXCEPT !.pages_active = m]
  BY DEF P!AddPages
<1>2. s.pages_active + n \in Int /\ Ulong \in Nat \ {0}
  BY PageConfig DEF PageStates
<1>3. m \in 0 .. Ulong - 1 /\ (s.pages_active + n \in 0 .. Ulong - 1 => m = s.pages_active + n)
  BY <1>2, Wraps
<1> HIDE DEF m, r
<1>4. r \in PageStates /\ r.pages_active = m
  BY <1>1, <1>3 DEF PageStates
<1>5. r.current_free = s.current_free /\ r.first_free = s.first_free /\ r.asserted = s.asserted
  BY <1>1 DEF PageStates
<1> QED
  BY <1>3, <1>4, <1>5 DEF r

LEMMA EraseFirstFacts ==
  ASSUME NEW s \in PageStates
  PROVE  LET r == P!EraseFirst(s)
         IN  /\ r \in PageStates /\ r.current_free = s.current_free /\ r.first_free = s.first_free
             /\ r.asserted = s.asserted
             /\ s.pages_active >= BlockSize => r.pages_active = s.pages_active - BlockSize
<1> DEFINE e == IF P!IsWornOut(s, {0}) THEN s ELSE P!Erase(s, 0)
           r == P!EraseFirst(s)
           st == P!With(s.state, P!PagesOf(0), "EMPTY")
           da == P!With(s.data, P!PagesOf(0), P!Junk)
           pv == [s.pages_valid EXCEPT ![0] = 0]
           er == P!Wear(s, {0})
           wo == s.worn_out \/ P!IsWornOut(s, {0})
<1>1. P!Erase(s, 0) = [s EXCEPT !.state = st, !.data = da, !.pages_valid = pv,
                                !.erases_remaining = er, !.worn_out = wo]
  BY DEF P!Erase, PageStates
<1>2. /\ st \in [P!Pages -> {"EMPTY", "VALID", "INVALID"}]
      /\ da \in [P!Pages -> P!Lpns \cup {-1}]
  BY DEF P!With, PageStates, P!Junk
<1>3. pv \in [P!Blocks -> 0 .. BlockSize]
  BY PageConfig DEF PageStates
<1>9. er \in [P!Blocks -> 0 .. BlockErases] /\ wo \in BOOLEAN
  <2>1. s.erases_remaining \in [P!Blocks -> 0 .. BlockErases]
    BY DEF PageStates
  <2> QED
    BY <2>1, PageConfig DEF P!Wear
<1> HIDE DEF st, da, pv, er, wo
<1>10. LET d == P!Erase(s, 0)
       IN  /\ d \in PageStates /\ d.current_free = s.current_free /\ d.first_free = s.first_free
           /\ d.asserted = s.asserted /\ d.pages_active = s.pages_active
  BY <1>1, <1>2, <1>3, <1>9 DEF PageStates
<1>4. /\ e \in PageStates /\ e.current_free = s.current_free /\ e.first_free = s.first_free
      /\ e.asserted = s.asserted /\ e.pages_active = s.pages_active
  BY <1>10
<1>5. r = P!AddPages(e, -BlockSize) /\ -BlockSize \in Int
  BY PageConfig DEF P!EraseFirst
<1> HIDE DEF r, e
<1>6. /\ r \in PageStates /\ r.current_free = e.current_free /\ r.first_free = e.first_free
      /\ r.asserted = e.asserted
      /\ e.pages_active + -BlockSize \in 0 .. Ulong - 1
           => r.pages_active = e.pages_active + -BlockSize
  BY <1>4, <1>5, AddPagesFacts
<1>7. s.pages_active \in 0 .. Ulong - 1
  BY DEF PageStates
<1>8. s.pages_active >= BlockSize => r.pages_active = s.pages_active - BlockSize
  BY <1>4, <1>6, <1>7, PageConfig
<1> QED
  BY <1>4, <1>6, <1>8 DEF r

(* What a request that ends in state r leaves.                             *)
LEMMA PageReturned ==
  ASSUME NEW r \in PageStates, ssd \in PageStates, NEW written, P!Return(r, written)
  PROVE  /\ ssd' \in PageStates /\ ssd'.current_free \in {r.current_free, ssd.current_free}
         /\ ssd'.first_free = ssd'.current_free \/ r.first_free # r.current_free
              \/ ssd.first_free # ssd.current_free
         /\ ssd'.pages_active \in {r.pages_active, ssd.pages_active}
         /\ live' \in {written, live}
<1>1. CASE P!IsRunning(r)
  <2>1. ssd' = [r EXCEPT !.got = P!NoBlock] /\ live' = written
    BY <1>1 DEF P!Return
  <2> QED
    BY <2>1 DEF PageStates
<1>2. CASE ~P!IsRunning(r)
  <2> DEFINE w == ssd.worn_out \/ r.worn_out
  <2>1. ssd' = [ssd EXCEPT !.asserted = r.asserted, !.worn_out = w] /\ live' = live
    BY <1>2 DEF P!Return
  <2>2. w \in BOOLEAN /\ r.asserted \in BOOLEAN
    BY DEF PageStates
  <2> HIDE DEF w
  <2> QED
    BY <2>1, <2>2 DEF PageStates
<1> QED
  BY <1>1, <1>2

LEMMA PageWrite ==
  ASSUME PageInv, ftl = "PAGE", NEW l \in P!Lpns, P!Write(l), ftl' = ftl, trimming' = trimming
  PROVE  PageInv'
<1> DEFINE e == IF P!IsFull(ssd) THEN P!EraseFirst(ssd) ELSE ssd
           r == P!AddPages(e, 1)
<1>1. /\ ssd \in PageStates /\ live \subseteq P!Lpns /\ ssd.current_free = ssd.first_free
      /\ ~trimming => ssd.pages_active <= NumberOfBlocks * BlockSize
      /\ ssd.pages_active \in 0 .. Ulong - 1
  BY DEF PageInv, P!InUse, PageStates
<1>2. /\ e \in PageStates /\ e.current_free = e.first_free
      /\ ~trimming => e.pages_active < NumberOfBlocks * BlockSize
  <2>1. CASE P!IsFull(ssd)
    <3>1. /\ e \in PageStates /\ e.current_free = ssd.current_free /\ e.first_free = ssd.first_free
          /\ ssd.pages_active >= BlockSize => e.pages_active = ssd.pages_active - BlockSize
      BY <1>1, <2>1, EraseFirstFacts
    <3>2. ssd.pages_active = NumberOfBlocks * BlockSize
      BY <2>1 DEF P!IsFull
    <3> HIDE DEF e
    <3> QED
      BY <1>1, <3>1, <3>2, PageConfig
  <2>2. CASE ~P!IsFull(ssd)
    BY <1>1, <2>2, PageConfig DEF P!IsFull
  <2> QED
    BY <2>1, <2>2
<1> HIDE DEF e
<1>3. e.pages_active \in 0 .. Ulong - 1
  BY <1>2 DEF PageStates
<1>4. /\ r \in PageStates /\ r.current_free = e.current_free /\ r.first_free = e.first_free
      /\ e.pages_active + 1 \in 0 .. Ulong - 1 => r.pages_active = e.pages_active + 1
  BY <1>2, AddPagesFacts
<1>5. P!Return(r, live \cup {l})
  BY DEF P!Write, e
<1> HIDE DEF r
<1>6. ~trimming => r.pages_active <= NumberOfBlocks * BlockSize
  BY <1>2, <1>3, <1>4, PageConfig
<1>7. /\ ssd' \in PageStates /\ ssd'.first_free = ssd'.current_free
      /\ ssd'.pages_active \in {r.pages_active, ssd.pages_active}
      /\ live' \in {live \cup {l}, live}
  BY <1>1, <1>2, <1>4, <1>5, PageReturned
<1> QED
  BY <1>1, <1>6, <1>7 DEF PageInv, P!InUse

LEMMA PageTrim ==
  ASSUME PageInv, ftl = "PAGE", NEW l \in P!Lpns, P!Trim(l), trimming, ftl' = ftl, trimming' = trimming
  PROVE  PageInv'
<1> DEFINE t == [ssd EXCEPT !.trimmed = @ \cup {l}]
           e == P!EraseFirst(t)
           k == P!BlockOf(l)
           r == P!Clear(t, k)
<1>1. ssd \in PageStates /\ live \subseteq P!Lpns /\ ssd.current_free = ssd.first_free
  BY DEF PageInv
<1>2. t \in PageStates /\ t.current_free = t.first_free
  BY <1>1 DEF PageStates
<1> HIDE DEF t
<1>3. e \in PageStates /\ e.current_free = e.first_free
  BY <1>2, EraseFirstFacts
<1>4. r = IF P!PagesOf(k) \subseteq t.trimmed THEN [e EXCEPT !.trimmed = @ \ P!PagesOf(k)] ELSE t
  BY DEF P!Clear
<1>5. P!Return(r, live \ {l})
  BY DEF P!Trim, t
<1> HIDE DEF e, r, k
<1>6. r \in PageStates /\ r.current_free = r.first_free
  BY <1>2, <1>3, <1>4 DEF PageStates
<1>7. ssd' \in PageStates /\ ssd'.first_free = ssd'.current_free /\ live' \in {live \ {l}, live}
  BY <1>1, <1>5, <1>6, PageReturned
<1> QED
  BY <1>1, <1>7 DEF PageInv

LEMMA PageInit ==
  ASSUME Init
  PROVE  PageInv
<1>1. SUFFICES ASSUME ftl = "PAGE", P!Init
               PROVE  /\ ssd \in PageStates /\ live \subseteq P!Lpns
                      /\ ssd.current_free = ssd.first_free /\ P!InUse
  BY DEF Init, PageInv
<1>2. PICK first \in {0}, trimmed \in SUBSET P!Lpns :
        ssd = P!LayerInit([pages_active |-> 0, trimmed |-> trimmed], first)
  BY <1>1 DEF P!Init
<1> DEFINE fields == [pages_active |-> 0, trimmed |-> trimmed]
           flash == P!FlashInit(first)
<1>3. /\ DOMAIN fields = {"pages_active", "trimmed"}
      /\ DOMAIN flash = {"state", "data", "pages_valid", "erases_remaining", "worn_out", "asserted", "first_free", "current_free",
                         "free_list", "invalid_list", "data_active", "log_active",
                         "out_of_blocks", "got"}
  BY DEF P!FlashInit
<1>4. ssd = [x \in DOMAIN fields \cup DOMAIN flash |->
               IF x \in DOMAIN fields THEN fields[x] ELSE flash[x]]
  BY <1>2 DEF P!LayerInit
<1>5. ssd = [state |-> [p \in P!Pages |-> "EMPTY"],
             data |-> [p \in P!Pages |-> -1],
             pages_valid |-> [b \in P!Blocks |-> 0],
             erases_remaining |-> [b \in P!Blocks |-> BlockErases], worn_out |-> FALSE,
             asserted |-> TRUE,
             first_free |-> first, current_free |-> first,
             free_list |-> << >>, invalid_list |-> << >>,
             data_active |-> 0, log_active |-> 0,
             out_of_blocks |-> FALSE, got |-> P!NoBlock,
             pages_active |-> 0, trimmed |-> trimmed]
  BY <1>3, <1>4 DEF P!FlashInit, P!Junk
<1> HIDE DEF fields, flash
<1>6. << >> \in Seq(P!Blocks) /\ first \in 0 .. NumberOfBlocks /\ 0 \in 0 .. Ulong - 1
  BY PageConfig
<1>7. ssd \in PageStates
  BY <1>5, <1>6, PageConfig DEF PageStates
<1>8. ssd.pages_active = 0 /\ ssd.current_free = ssd.first_free
  BY <1>5
<1>9. live = {}
  BY <1>1 DEF P!Init
<1> QED
  BY <1>7, <1>8, <1>9, PageConfig DEF P!InUse

LEMMA PageStep ==
  ASSUME PageInv, [Next]_vars
  PROVE  PageInv'
<1>1. SUFFICES ASSUME ftl' = "PAGE" PROVE PageInv'
  BY DEF PageInv
<1>2. ftl = "PAGE" /\ ftl' = ftl /\ trimming' = trimming
  BY <1>1 DEF Next, vars, Read, Write, Trim, Host
<1>3. CASE Write
  BY <1>2, <1>3, PageWrite DEF Write
<1>4. CASE Trim
  BY <1>2, <1>4, PageTrim DEF Trim
<1>5. CASE Read
  BY <1>2, <1>5 DEF Read
<1>6. CASE UNCHANGED vars
  BY <1>6 DEF vars, PageInv, P!InUse
<1> QED
  BY <1>3, <1>4, <1>5, <1>6 DEF Next

LEMMA PageInvariant == Spec => []PageInv
<1>1. Init => PageInv
  BY PageInit
<1>2. PageInv /\ [Next]_vars => PageInv'
  BY PageStep
<1> QED
  BY <1>1, <1>2, PTL DEF Spec

LEMMA PageInvTyped ==
  ASSUME PageInv, ftl = "PAGE"
  PROVE  P!TypeOK
<1>1. ssd \in PageStates /\ live \subseteq P!Lpns /\ ssd.current_free = ssd.first_free
  BY DEF PageInv
<1>2. ssd.current_free \in ssd.first_free .. NumberOfBlocks
  BY <1>1, PageConfig DEF PageStates
<1>3. P!FlashTypeOK
  BY <1>1, <1>2 DEF P!FlashTypeOK, PageStates, P!Junk
<1>4. ssd.pages_active \in 0 .. Ulong - 1 /\ ssd.trimmed \subseteq P!Lpns
  BY <1>1 DEF PageStates
<1> QED
  BY <1>3, <1>4 DEF P!TypeOK

(* The page layer's types, its counter and the trimmed pages among them,   *)
(* also for a host that trims, where the counter may wrap.                 *)
THEOREM PageTyped == Spec => [](ftl = "PAGE" => TypeOK)
<1>1. PageInv => (ftl = "PAGE" => TypeOK)
  BY PageInvTyped DEF TypeOK
<1> QED
  BY <1>1, PageInvariant, PTL

(* For a host that does not trim the counter of pages in use never exceeds *)
(* the pages of the device: the test for a full device, which is one for   *)
(* equality, is not passed over.                                           *)
THEOREM PageCounts == Spec => [](ftl = "PAGE" => CountersAgree)
<1>1. PageInv => (ftl = "PAGE" => CountersAgree)
  BY DEF PageInv, CountersAgree, Sound
<1> QED
  BY <1>1, PageInvariant, PTL
=============================================================================
