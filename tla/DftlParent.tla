----------------------------- MODULE DftlParent ------------------------------
(***************************************************************************)
(* What FlashSim's DFTL and BDFTL share: FTLs/dftl_parent.cpp, the         *)
(* cleanup_block of both, and the collection by cost in ssd_bm.cpp. Pages  *)
(* are mapped one by one; part of the map is in the cached mapping table   *)
(* (CMT), whose size is only known by a counter.                           *)
(*                                                                         *)
(* Eviction takes the least recently used entry; here any cached one, as   *)
(* what is evicted changes nothing that a read returns: the page written   *)
(* for a dirty entry is a noop. So the time stamps are left out.           *)
(*                                                                         *)
(* Collecting a block needs pages, and taking a block may start another    *)
(* collection inside the first: hence the recursive function.              *)
(***************************************************************************)
EXTENDS Flash, FiniteSetsExt

CONSTANTS
  CmtLimit,    (* totalCMTentries                                           *)
  MaxRequests  (* bound of the model: requests served                       *)

(* A collection looks at the last two of the blocks.                       *)
DftlParentAssumption ==
  CmtLimit \in Nat \ {0} /\ MaxRequests \in Nat /\ NumberOfBlocks > 1

Unset == -1    (* what reverse_trans_map holds where nothing was written    *)

ParentInit(first) ==
  LayerInit([ppn     |-> [l \in Lpns |-> -1],       (* trans_map[l].ppn               *)
             cached  |-> {},                        (* trans_map[l].cached            *)
             cmt     |-> 0,
             reverse_trans_map |-> [p \in Pages |-> Unset],
             current_page |-> -1,                   (* currentDataPage                *)
             current_writing |-> -2,                (* current_writing_block          *)
             active_cost |-> [n \in 1 .. NumberOfBlocks |-> n - 1],
             nested   |-> FALSE,   (* history: a collection began in a cleanup_block *)
             requests |-> 0], first)

(* update_translation_map; the index -1, which a trim writes, is outside   *)
(* the array and read by nobody.                                           *)
MapOneWay(s, l, p) == [s EXCEPT !.ppn[l] = p]                 (* mutant      *)
UpdateTranslationMap(s, l, p) ==
  [s EXCEPT !.ppn[l] = p,
            !.reverse_trans_map = IF p = -1 THEN @ ELSE [@ EXCEPT ![p] = l]]

-----------------------------------------------------------------------------
(* The cached mapping table.                                               *)

(* evict_page_from_cache: as many entries as the counter asks for. With   *)
(* fewer in the cache its assertion fails.                                 *)
Excess(s)    == IF s.cmt < CmtLimit THEN 0 ELSE s.cmt - CmtLimit + 1
Evictable(s) ==
  IF Excess(s) <= Cardinality(s.cached) THEN kSubset(Excess(s), s.cached) ELSE {s.cached}

(* resolve_mapping: the eviction, and the entry of l when it was missed.   *)
Resolved(s, l, out) ==
  [s EXCEPT !.asserted = @ /\ Cardinality(out) = Excess(s),
            !.cached = (@ \ out) \cup (IF l \in @ THEN {} ELSE {l}),
            !.cmt = @ - Cardinality(out) + IF l \in s.cached THEN 0 ELSE 1]

(* evict_specific_page_from_cache, in a trim: the copy of the entry that   *)
(* is written back afterwards is still marked as cached.                   *)
Uncounted(s, l) == IF l \in s.cached THEN [s EXCEPT !.cmt = @ - 1] ELSE s

-----------------------------------------------------------------------------
(* active_cost: the blocks by their number of invalid pages, equal ones in *)
(* the order in which they came to it.                                     *)

InvalidCount(s, b) == Cardinality({i \in Offsets : s.state[Page(b, i)] = "INVALID"})

(* replace in an ordered index: the element stays if its neighbours allow  *)
(* it, otherwise it moves behind its equals (Bound is how many stay before *)
(* it).                                                                    *)
CostAt(s, n) == InvalidCount(s, s.active_cost[n])
PlaceOf(s, b) == CHOOSE n \in 1 .. NumberOfBlocks : s.active_cost[n] = b
InPlace(s, n) ==
  /\ n > 1 => CostAt(s, n - 1) <= CostAt(s, n)
  /\ n < NumberOfBlocks => CostAt(s, n) <= CostAt(s, n + 1)
Bound(s, rest, cost) ==
  Cardinality({n \in 1 .. NumberOfBlocks - 1 : InvalidCount(s, rest[n]) <= cost})
Reordered(s, b) ==
  LET rest == RemoveAt(s.active_cost, PlaceOf(s, b))
  IN  [s EXCEPT !.active_cost = InsertAt(rest, Bound(s, rest, InvalidCount(s, b)) + 1, b)]
UpdateBlock(s, b) == IF InPlace(s, PlaceOf(s, b)) THEN s ELSE Reordered(s, b)

InvalidateAt(s, p) == UpdateBlock(InvalidatePage(s, p), BlockOf(p))

(* The next candidate: the last of the index, but not the current block.   *)
Costliest(s) ==
  IF Last(s.active_cost) # s.current_writing THEN Last(s.active_cost)
  ELSE s.active_cost[NumberOfBlocks - 1]
IsCollectable(s, b) == InvalidCount(s, b) > 0 /\ s.pages_valid[b] = BlockSize

-----------------------------------------------------------------------------
(* Allocation, but for the collections that it may start.                  *)

(* get_page_block, and get_free_block(DATA). It collects first when the    *)
(* free list runs out.                                                     *)
RunsOut(s) ==
  s.current_free >= NumberOfBlocks /\ Len(s.free_list) <= 1 /\ ~s.out_of_blocks
OutOfBlocks(s) == [s EXCEPT !.out_of_blocks = TRUE]
Took(s) == [s EXCEPT !.current_writing = s.got, !.data_active = @ + 1]
TakeBlock(s) ==
  Took(IF s.current_free < NumberOfBlocks
       THEN [s EXCEPT !.got = s.current_free, !.current_free = @ + 1] ELSE TakeFree(s))

(* get_free_data_page, in the state's current_page. It collects first when *)
(* a block is at its end, unless it is asked not to; with no block begun   *)
(* it always does.                                                         *)
AtEnd(s) == s.current_page = -1 \/ Offset(s.current_page) = BlockSize - 1
StartBlock(s)  == [s EXCEPT !.current_page = Page(s.got, 0)]
NextInBlock(s) == [s EXCEPT !.current_page = @ + 1]

-----------------------------------------------------------------------------
(* Collection. Cleaning a block takes pages, and taking a block may start  *)
(* another collection: gc is the function that says what that one does to  *)
(* the simulator. InsertEventsByCost, which is given itself, comes last.   *)

(* The fields of the parent, the flash and the block manager, to which a   *)
(* collection keeps; a layer's own are merged back into what it returns.   *)
ParentOf(s) == Restrict(s, DOMAIN ParentInit(0))
Nested(gc, s) ==
  LET t == gc[ParentOf(s)]
  IN  [x \in DOMAIN s |-> CASE x = "nested" -> TRUE
                            [] x \in DOMAIN t \ {"nested"} -> t[x]
                            [] OTHER -> s[x]]
Copied(gc, s) ==
  IF ~AtEnd(s) THEN NextInBlock(s)
  ELSE StartBlock(TakeBlock(IF RunsOut(s) THEN Nested(gc, OutOfBlocks(s)) ELSE s))
NextCopy(gc, s) == Copied(gc, IF s.current_page = -1 THEN Nested(gc, s) ELSE s)

(* cleanup_block: the valid pages of b are written to new ones. moved is   *)
(* invalidated_translation: where the pages went, by the lpn that          *)
(* reverse_trans_map has for them, -1 for the lpns that are not in it.     *)
WriteCopy(s, p, q) ==
  [s EXCEPT !.asserted = @ /\ s.state[q] = "EMPTY",
            !.state[q] = "VALID", !.data[q] = s.data[p], !.pages_valid[BlockOf(q)] = @ + 1]
CopyPage(s, moved, p) ==
  [ssd   |-> InvalidateAt(WriteCopy(s, p, s.current_page), p),
   moved |-> [moved EXCEPT ![s.reverse_trans_map[p]] = s.current_page]]
CleanPage(gc, a, p) ==
  IF a.ssd.state[p] = "EMPTY" THEN [a EXCEPT !.ssd.asserted = FALSE]
  ELSE IF a.ssd.state[p] = "VALID" THEN CopyPage(NextCopy(gc, a.ssd), a.moved, p) ELSE a
NoneMoved == [l \in Lpns \cup {Unset} |-> -1]
Cleaned(gc, s, b) ==
  LET loop[i \in 0 .. BlockSize] ==
        IF i = 0 THEN [ssd |-> s, moved |-> NoneMoved]
        ELSE CleanPage(gc, loop[i - 1], Page(b, i - 1))
  IN  loop[BlockSize]

(* Then their entries, in the order of the lpns. An element of             *)
(* reverse_trans_map that was never set is an undefined index: the model   *)
(* ends there.                                                             *)
Remapped(s, moved) ==
  LET new   == {l \in Lpns : moved[l] # -1}
      at(p) == {l \in new : moved[l] = p}
  IN  [s EXCEPT !.asserted = @ /\ moved[Unset] = -1,
                !.ppn = [l \in Lpns |-> IF l \in new THEN moved[l] ELSE @[l]],
                !.reverse_trans_map =
                  [p \in Pages |-> IF at(p) # {} THEN Max(at(p)) ELSE @[p]],
                !.cached = @ \cup new,
                !.cmt = @ + Cardinality(new \ s.cached)]
Cleanup(gc, s, b) ==
  LET a == Cleaned(gc, s, b) IN Remapped(a.ssd, a.moved)

(* insert_events by cost: at most five rounds, as long as the candidate    *)
(* can be collected. The current block is passed over, and a collected one *)
(* is erased and free, but stays in data_active.                           *)
EraseCollected(s, b) ==
  UpdateBlock([Erase(s, b) EXCEPT !.free_list = Append(@, b)], b)
Round(gc, s, b) ==
  IF ~s.asserted \/ ~IsCollectable(s, b) \/ b = s.current_writing THEN s
  ELSE EraseCollected(Cleanup(gc, s, b), b)
Again(gc, s) == Round(gc, s, Costliest(s))
Collect(gc, s) ==
  IF ~IsCollectable(s, Last(s.active_cost)) THEN s
  ELSE Again(gc, Again(gc, Again(gc, Again(gc, Round(gc, s, Last(s.active_cost))))))
InsertByCost(gc, s) == IF IsUsed(s) THEN Collect(gc, s) ELSE s

States ==
  [state : [Pages -> {"EMPTY", "VALID", "INVALID"}], data : [Pages -> Lpns \cup {Junk}],
   pages_valid : [Blocks -> 0 .. BlockSize], erases_remaining : [Blocks -> 0 .. BlockErases],
   worn_out : BOOLEAN, asserted : BOOLEAN,
   first_free : Nat, current_free : Nat,
   free_list : Seq(Blocks), invalid_list : Seq(Blocks),
   data_active : Int, log_active : Int, out_of_blocks : BOOLEAN, got : Blocks \cup {NoBlock},
   ppn : [Lpns -> Pages \cup {-1}], reverse_trans_map : [Pages -> Lpns \cup {Unset}],
   cached : SUBSET Lpns, cmt : Int,
   current_page : Pages \cup {-1}, current_writing : Blocks \cup {-2},
   active_cost : [1 .. NumberOfBlocks -> Blocks], nested : BOOLEAN, requests : Nat]
InsertEventsByCost[s \in States] == InsertByCost(InsertEventsByCost, s)

(* The collections that begin outside a cleanup_block.                     *)
CollectFirst(s) == InsertByCost(InsertEventsByCost, s)
GetBlock(s) == TakeBlock(IF RunsOut(s) THEN CollectFirst(OutOfBlocks(s)) ELSE s)
NextPage(s) == IF AtEnd(s) THEN StartBlock(GetBlock(s)) ELSE NextInBlock(s)
GetFreeDataPage(s) == NextPage(IF AtEnd(s) THEN CollectFirst(s) ELSE s)

-----------------------------------------------------------------------------
(* What both layers do with a request for page l.                          *)

CanServe == IsRunning(ssd) /\ ssd.requests < MaxRequests
Served(s) == [s EXCEPT !.requests = @ + 1]

(* Return, which keeps the history of a request that does not end.         *)
Answer(s, written) ==
  IF IsRunning(s) THEN Return(s, written)
  ELSE /\ ssd' = [ssd EXCEPT !.asserted = s.asserted, !.worn_out = @ \/ s.worn_out,
                             !.nested = s.nested]
       /\ UNCHANGED live

(* The write of l to page p, with its last page as the replace address.    *)
Replaced(s, p) == IF p = -1 THEN s ELSE InvalidateAt(s, p)
Store(s, l, p) ==
  Replaced(WritePage(UpdateTranslationMap(s, l, p), p, l), s.ppn[l])

TrimMapped(s, l) ==
  IF s.ppn[l] = -1 THEN s
  ELSE UpdateTranslationMap(Uncounted(InvalidateAt(s, s.ppn[l]), l), l, -1)

ParentTypeOK ==
  /\ FlashTypeOK
  /\ ssd.ppn \in [Lpns -> Pages \cup {-1}]
  /\ ssd.reverse_trans_map \in [Pages -> Lpns \cup {Unset}]
  /\ ssd.cached \subseteq Lpns /\ ssd.cmt \in Int
  /\ ssd.current_page \in Pages \cup {-1} /\ ssd.current_writing \in Blocks \cup {-2}
  /\ Range(ssd.active_cost) = Blocks

(* Free blocks are free once, erased, not mapped and not being written.    *)
FreeBlocksErased ==
  /\ IsInjective(ssd.free_list)
  /\ \A p \in UNION {PagesOf(b) : b \in FreeBlocks} :
       ssd.state[p] = "EMPTY" /\ p \notin Range(ssd.ppn)
  /\ BlockOf(ssd.current_page) \notin FreeBlocks

(* A mapped page is the valid page that the reverse map has for it.        *)
MapsAgree ==
  \A l \in Lpns : ssd.ppn[l] # -1 =>
    ssd.state[ssd.ppn[l]] = "VALID" /\ ssd.reverse_trans_map[ssd.ppn[l]] = l

(* The counter of cached entries, which decides what is evicted, never     *)
(* exceeds them: eviction would run into its assertion.                    *)
CmtCovered == ssd.cmt <= Cardinality(ssd.cached)
CmtExact   == ssd.cmt = Cardinality(ssd.cached)
=============================================================================
