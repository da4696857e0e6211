----------------------------- MODULE Simulator ------------------------------
(***************************************************************************)
(* FlashSim with the translation layer that its configuration selects:     *)
(* Controller's constructor and event_arrive, and the host of              *)
(* verification.cpp, which writes at random and may trim.                  *)
(*                                                                         *)
(* The layers need devices of different shapes to show what they do; so    *)
(* each has its own sizes.                                                 *)
(***************************************************************************)
EXTENDS Integers, FiniteSets

CONSTANTS
  Layers,          (* values of FTL_IMPLEMENTATION to try                   *)
  BlockSize, LogicalBlocks, NumberOfBlocks, FirstFree,  (* as in Flash      *)
  FastBlocks, FastFirst,             (* NumberOfBlocks, FirstFree for FAST  *)
  DftlLogicalBlocks,                 (* LogicalBlocks for DFTL              *)
  BastLimit, FastLimit, CmtLimit,    (* BAST_, FAST_LOG_PAGE_LIMIT, CMT     *)
  FastRequests, DftlRequests, BdftlRequests,            (* bounds           *)
  FastTrimRequests,                  (* bound for FAST and a host that trims *)
  BlockErases, BastErases,           (* as in Flash, and for BAST           *)
  Ulong

VARIABLES
  ftl,        (* FTL_IMPLEMENTATION                                         *)
  trimming,   (* whether the host also trims                                *)
  ssd, live

vars == <<ftl, trimming, ssd, live>>

P == INSTANCE PageFtl WITH FirstFree <- {0}
B == INSTANCE Bast WITH LogLimit <- BastLimit, BlockErases <- BastErases
F == INSTANCE Fast WITH NumberOfBlocks <- FastBlocks, FirstFree <- FastFirst,
                        LogLimit <- FastLimit, MaxRequests <- FastRequests
D == INSTANCE FlashDftl WITH FirstFree <- {0}, LogicalBlocks <- DftlLogicalBlocks,
                        MaxRequests <- DftlRequests
H == INSTANCE FlashBdftl WITH FirstFree <- {0}, MaxRequests <- BdftlRequests

ASSUME SimulatorAssumption ==
  /\ P!FlashAssumption /\ P!PageAssumption
  /\ B!FlashAssumption /\ B!BastAssumption
  /\ F!FlashAssumption /\ F!FastAssumption
  /\ D!FlashAssumption /\ D!DftlParentAssumption
  /\ H!FlashAssumption /\ H!DftlParentAssumption

(* Controller::Controller.                                                 *)
Init ==
  /\ ftl \in Layers /\ trimming \in BOOLEAN
  /\ \/ ftl = "PAGE"  /\ P!Init
     \/ ftl = "BAST"  /\ B!Init
     \/ ftl = "FAST"  /\ F!Init
     \/ ftl = "DFTL"  /\ D!Init
     \/ ftl = "BDFTL" /\ H!Init

(* Controller::event_arrive. Only the layers with a cache change state in  *)
(* a read; what a read returns is a property.                              *)
Host == UNCHANGED <<ftl, trimming>>
Read ==
  /\ \/ ftl = "DFTL"  /\ \E l \in D!Lpns : D!Read(l)
     \/ ftl = "BDFTL" /\ \E l \in H!Lpns : H!Read(l)
  /\ Host
Write ==
  /\ \/ ftl = "PAGE"  /\ \E l \in P!Lpns : P!Write(l)
     \/ ftl = "BAST"  /\ \E l \in B!Lpns : B!Write(l)
     \/ ftl = "FAST"  /\ (trimming => ssd.requests < FastTrimRequests)
                      /\ \E l \in F!Lpns : F!Write(l)
     \/ ftl = "DFTL"  /\ \E l \in D!Lpns : D!Write(l)
     \/ ftl = "BDFTL" /\ \E l \in H!Lpns : H!Write(l)
  /\ Host
Trim ==
  /\ trimming
  /\ \/ ftl = "PAGE"  /\ \E l \in P!Lpns : P!Trim(l)
     \/ ftl = "BAST"  /\ \E l \in B!Lpns : B!Trim(l)
     \/ ftl = "FAST"  /\ ssd.requests < FastTrimRequests
                      /\ \E l \in F!Lpns : F!Trim(l)
     \/ ftl = "DFTL"  /\ \E l \in D!Lpns : D!Trim(l)
     \/ ftl = "BDFTL" /\ \E l \in H!Lpns : H!Trim(l)
  /\ Host

Next == Read \/ Write \/ Trim

Spec == Init /\ [][Next]_vars

-----------------------------------------------------------------------------
(* Correctness. Where trim breaks what a layer keeps (FAST, BDFTL, PAGE),  *)
(* the property is about hosts that do not trim. DFTL and BDFTL keep       *)
(* nothing once a collection began inside a cleanup_block (run             *)
(* dftl_nested): their properties are about the states before that.        *)

Sound(layer) == ftl = layer /\ ~ssd.nested

TypeOK ==
  /\ ftl = "PAGE"  => P!TypeOK
  /\ ftl = "BAST"  => B!TypeOK
  /\ ftl = "FAST"  => F!TypeOK
  /\ ftl = "DFTL"  => D!ParentTypeOK
  /\ ftl = "BDFTL" => H!TypeOK

(* What a read finds, whatever merges, switches, copies, evictions and     *)
(* erases came between. BAST and DFTL: the last data of a page that was    *)
(* written and not trimmed since. BDFTL: the same, but for the pages that  *)
(* a transfer to the page map left without a mapping. FAST: some data that *)
(* was written, never an erased page.                                      *)
ReadsNewest ==
  /\ ftl = "BAST" => B!ReadsNewest
  /\ Sound("DFTL") => D!ReadsNewest
  /\ Sound("BDFTL") /\ ~trimming => H!ReadsMapped
  /\ ftl = "FAST" /\ ~trimming => F!ReadsWritten

(* FAST's reads return the last data: they do not (run fast_stale).        *)
FastReadsNewest == ftl = "FAST" => F!ReadsNewest

(* DFTL's reads return the last data, also after a collection that began   *)
(* in a cleanup_block: they do not (run dftl_nested).                      *)
DftlReadsNewest == ftl = "DFTL" => D!ReadsNewest

(* Every block has one owner: it is a logical block's data block, a log,   *)
(* waiting to be erased, or free; with page maps, a free block is erased,  *)
(* unmapped and free only once. A block that was erased while in use, or   *)
(* that nobody gave back, breaks this.                                     *)
BlocksOwned ==
  /\ ftl = "BAST" => B!BlocksOwned
  /\ ftl = "FAST" /\ ~trimming => F!BlocksOwned
  /\ Sound("DFTL") => D!FreeBlocksErased
  /\ Sound("BDFTL") /\ ~trimming => H!FreeBlocksErased

(* The counters that decide when to collect, to evict or to erase count    *)
(* what they are named for. A trim in DFTL makes the counter of cached     *)
(* entries too small, so that the cache outgrows its limit; it is never    *)
(* too large.                                                              *)
CountersAgree ==
  /\ ftl = "BAST" => B!CountersAgree
  /\ ftl = "FAST" /\ ~trimming => F!CountersAgree
  /\ Sound("DFTL") => D!CmtCovered /\ (trimming \/ D!CmtExact)
  /\ Sound("BDFTL") => H!CmtCovered
  /\ ftl = "PAGE" /\ ~trimming => P!InUse

(* No assertion fails but the one that a block erased BLOCK_ERASES times   *)
(* is not erased again (worn_out), although a merge or a collection takes  *)
(* blocks before it gives any back: a page is written only when it is      *)
(* empty, a free block is there when one is taken, an entry when one is    *)
(* evicted, and no log block is taken when there are too many.             *)
AssertionsHold ==
  /\ ftl = "BAST" /\ B!HasRoom => ssd.asserted
  /\ ftl = "FAST" /\ ~trimming /\ F!HasRoom => ssd.asserted
  /\ Sound("DFTL") /\ D!HasRoom => ssd.asserted

(* The page maps and the reverse map that cleanup_block goes by agree, and *)
(* BDFTL maps a page either with its block or by itself.                   *)
MapsAgree ==
  /\ Sound("DFTL") => D!MapsAgree /\ D!ValidMapped
  /\ Sound("BDFTL") => H!OptimalUnmapped /\ (trimming \/ H!MapsAgree)

(* BAST: a merge copies the newest pages although an overwritten log page  *)
(* may still be valid: a valid page of a data block is what a read         *)
(* returns, and no log hides it.                                           *)
DataPagesNewest == ftl = "BAST" => B!DataPagesNewest
=============================================================================
