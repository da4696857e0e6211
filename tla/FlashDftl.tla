----------------------------- MODULE FlashDftl ------------------------------
(***************************************************************************)
(* FlashSim's DFTL, FTLs/dftl_ftl.cpp: every page is mapped by itself.     *)
(***************************************************************************)
EXTENDS DftlParent

Init == (\E first \in FirstFree : ssd = ParentInit(first)) /\ live = {}

ReadAddress(s, l) == IF s.ppn[l] = -1 THEN 0 ELSE s.ppn[l]

(* A read changes the cached mapping table.                                *)
Read(l) ==
  /\ CanServe
  /\ \E out \in Evictable(ssd) : Answer(Resolved(Served(ssd), l, out), live)

(* The old page is looked up after a collection may have moved it.         *)
StoreNext(s, l) == Store(s, l, s.current_page)
Write(l) ==
  /\ CanServe
  /\ \E out \in Evictable(ssd) :
       Answer(StoreNext(GetFreeDataPage(Resolved(Served(ssd), l, out)), l),
              live \cup {l})

Trim(l) == CanServe /\ Answer(TrimMapped(Served(ssd), l), live \ {l})

-----------------------------------------------------------------------------
(* The parts of the correctness properties, which Simulator states.        *)

ReadsNewest ==
  \A l \in live : LET p == ReadAddress(ssd, l)
                  IN  ssd.state[p] = "VALID" /\ ssd.data[p] = l

(* Every valid page is mapped.                                             *)
ValidMapped == \A p \in Pages : ssd.state[p] = "VALID" => p \in Range(ssd.ppn)

(* Room to spare: with all blocks in use, one that is not being written    *)
(* has an invalid page; and collections begin before no block is left.     *)
HasRoom ==
  /\ LogicalBlocks < NumberOfBlocks - ssd.first_free - 1
  /\ 10 * (NumberOfBlocks - ssd.first_free) > 9 * NumberOfBlocks
=============================================================================
