----------------------------- MODULE FlashBdftl -----------------------------
(***************************************************************************)
(* FlashSim's BDFTL, FTLs/bdftl_ftl.cpp: a logical block that is written   *)
(* in order is mapped as a block (optimal); the first write out of order   *)
(* turns it over to the page map that it shares with DFTL.                 *)
(***************************************************************************)
EXTENDS DftlParent

NewBlock == [pbn |-> NoBlock, next |-> 0, optimal |-> TRUE]

(* trim_map is allocated and not initialised: it may hold anything.        *)
Init ==
  /\ \E first \in FirstFree, trimmed \in SUBSET Lpns :
       ssd = [block_map |-> [k \in Lbas |-> NewBlock],
              trimmed   |-> trimmed,          (* trim_map                   *)
              inuse     |-> NoBlock,          (* inuseBlock                 *)
              queue     |-> << >>]            (* blockQueue                 *)
               @@ ParentInit(first)
  /\ live = {}

(* pbn + i; with no block -1 + i, modulo the size of the device (Fast).    *)
BlockPage(s, k, i) ==
  ((IF s.block_map[k].pbn = NoBlock THEN -1 ELSE Page(s.block_map[k].pbn, 0)) + i)
    % Cardinality(Pages)
IsOptimal(s, k) == s.block_map[k].optimal
HasBlock(s, k)  == s.block_map[k].pbn # NoBlock

ReadAddress(s, l) ==
  IF IsOptimal(s, BlockOf(l)) /\ HasBlock(s, BlockOf(l)) THEN BlockPage(s, BlockOf(l), Offset(l))
  ELSE IF ~IsOptimal(s, BlockOf(l)) /\ s.ppn[l] # -1 THEN s.ppn[l]
  ELSE 0

Read(l) ==
  /\ CanServe
  /\ IF IsOptimal(ssd, BlockOf(l)) THEN Answer(Served(ssd), live)
     ELSE \E out \in Evictable(ssd) : Answer(Resolved(Served(ssd), l, out), live)

-----------------------------------------------------------------------------
(* Writes.                                                                 *)

(* The write of the next page of an optimal block.                         *)
WriteBlock(s, k, l) ==
  WritePage([s EXCEPT !.block_map[k].next = @ + 1], BlockPage(s, k, Offset(l)), l)

(* The transfer of block k to the page map: it keeps the pages that have a *)
(* mapping already and are valid in the physical block of number k.        *)
Transferred(s, k) ==
  {i \in 0 .. s.block_map[k].next - 1 : s.state[Page(k, i)] = "VALID" /\ s.ppn[Page(k, i)] # -1}
Transfer(s, k) ==
  FoldLeft(LAMBDA t, i : [UpdateTranslationMap(t, Page(k, i), BlockPage(t, k, i)) EXCEPT
                            !.cached = @ \cup {Page(k, i)}, !.cmt = @ + 1],
           s, SetToSeq(Transferred(s, k)))

(* A block that is not full is kept for single pages.                      *)
Reuse(s, b) ==
  IF s.pages_valid[b] = BlockSize THEN s
  ELSE IF s.inuse = NoBlock THEN [s EXCEPT !.inuse = b]
  ELSE [s EXCEPT !.queue = Append(@, b)]
ToPages(s, k) == [s EXCEPT !.block_map[k].optimal = FALSE]
Convert(s, k) == Reuse(ToPages(Transfer(s, k), k), s.block_map[k].pbn)

(* get_free_biftl_page, in got: Block::get_next_page of the block in use,  *)
(* then of the next one in the queue, then a page as in DFTL.              *)
EmptyPages(s, b) == {p \in PagesOf(b) : s.state[p] = "EMPTY"}
FromInuse(s) == [s EXCEPT !.got = Min(EmptyPages(s, s.inuse))]
FromQueue(s) ==
  IF EmptyPages(s, s.inuse) = {} THEN [s EXCEPT !.asserted = FALSE, !.got = 0] ELSE FromInuse(s)
DataPage(s) == [s EXCEPT !.got = s.current_page]
GetFreePage(s) ==
  IF s.inuse = NoBlock THEN DataPage(GetFreeDataPage(s))
  ELSE IF EmptyPages(s, s.inuse) # {} THEN FromInuse(s)
  ELSE IF s.queue # << >>
       THEN FromQueue([s EXCEPT !.inuse = Head(s.queue), !.queue = Tail(@)])
  ELSE DataPage(GetFreeDataPage([s EXCEPT !.inuse = NoBlock]))

StorePage(s, l) == \E out \in Evictable(s) :
  Answer(Store(Resolved(s, l, out), l, s.got), live \cup {l})

UseBlock(s, k) == [s EXCEPT !.block_map[k].pbn = s.got]
WithBlock(s, k, i) ==
  IF IsOptimal(s, k) /\ ~HasBlock(s, k) /\ i = 0
  THEN UseBlock(GetBlock(s), k) ELSE s

Place(s, k, l) ==
  IF IsOptimal(s, k) /\ HasBlock(s, k) /\ s.block_map[k].next = Offset(l)
  THEN Answer(WriteBlock(s, k, l), live \cup {l})
  ELSE StorePage(GetFreePage(IF ~IsOptimal(s, k) THEN s
                             ELSE IF HasBlock(s, k) THEN Convert(s, k)
                             ELSE ToPages(s, k)), l)
Write(l) ==
  /\ CanServe
  /\ Place(WithBlock([Served(ssd) EXCEPT !.trimmed = @ \ {l}], BlockOf(l), Offset(l)), BlockOf(l), l)

-----------------------------------------------------------------------------
(* trim. In an optimal block that has no physical block yet the address is *)
(* that of some other page, which is invalidated.                          *)

DisposeBlock(s, b, k) ==
  IF IsInactive(s, b)
  THEN UpdateBlock(EraseAndInvalidate([s EXCEPT !.block_map[k].pbn = NoBlock, !.block_map[k].next = 0],
                                      b, "DATA"), b)
  ELSE s
TrimBlock(s, k, i) == DisposeBlock(InvalidateAt(s, BlockPage(s, k, i)), BlockOf(BlockPage(s, k, i)), k)

Reset(s, k) ==
  IF PagesOf(k) \subseteq s.trimmed THEN [s EXCEPT !.block_map[k] = NewBlock] ELSE s

TrimIn(s, k, l) ==
  IF IsOptimal(s, k) THEN TrimBlock(s, k, Offset(l)) ELSE Reset(TrimMapped(s, l), k)
Trim(l) ==
  /\ CanServe
  /\ Answer(TrimIn([Served(ssd) EXCEPT !.trimmed = @ \cup {l}], BlockOf(l), l), live \ {l})

-----------------------------------------------------------------------------
(* The parts of the correctness properties, which Simulator states.        *)

TypeOK ==
  /\ ParentTypeOK
  /\ ssd.block_map \in [Lbas -> [pbn : Blocks \cup {NoBlock}, next : 0 .. BlockSize, optimal : BOOLEAN]]
  /\ ssd.trimmed \subseteq Lpns
  /\ ssd.inuse \in Blocks \cup {NoBlock} /\ ssd.queue \in Seq(Blocks)

(* The transfer of a block to the page map drops its pages: those that     *)
(* were not written again have no mapping.                                 *)
HasMapping(l) == IsOptimal(ssd, BlockOf(l)) \/ ssd.ppn[l] # -1
ReadsMapped ==
  \A l \in live : HasMapping(l) => LET p == ReadAddress(ssd, l)
                                   IN  ssd.state[p] = "VALID" /\ ssd.data[p] = l
ReadsNewest == ReadsMapped /\ \A l \in live : HasMapping(l)

(* A page of an optimal block has no mapping of its own.                   *)
OptimalUnmapped == \A k \in Lbas : IsOptimal(ssd, k) => \A l \in PagesOf(k) : ssd.ppn[l] = -1
=============================================================================
