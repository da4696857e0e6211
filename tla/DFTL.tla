-------------------------------- MODULE DFTL --------------------------------
(***************************************************************************)
(* The demand-based flash translation layer of the Scala application,      *)
(* org.janzhou.ftl.DFTL: the table from logical pages to physical pages,   *)
(* the three lists of flash blocks, the cached part of the table, and      *)
(* read, write, trim, cache, gc and the forced garbage collection.         *)
(*                                                                         *)
(* An operation that garbage collects is split at the points where its     *)
(* intermediate state can be told apart: pc names the method the thread    *)
(* that holds the lock is in, and no other operation starts until pc is    *)
(* back at "idle".                                                         *)
(***************************************************************************)
EXTENDS Integers, Sequences, SequencesExt

CONSTANTS
  NumberOfBlocks,  (* SSD.NumberOfBlocks                                   *)
  ReserveBlocks,   (* SSD.ReserveBlocks: over-provisioning                 *)
  PagesPerBlock,   (* SSD.PagesPerBlock                                    *)
  CacheSize,       (* SSD.CacheSize: entries the cache list may hold       *)
  MappingPerPage   (* entries of the table in one translation page (512)   *)

TotalPages == (NumberOfBlocks - ReserveBlocks) * PagesPerBlock

(* What the configuration must satisfy for the constructor and the cache   *)
(* write-back to stay inside the table: clean_cache indexes whole groups   *)
(* of MappingPerPage entries.                                              *)
ASSUME ConfigAssumption ==
  /\ NumberOfBlocks \in Nat
  /\ ReserveBlocks \in Nat
  /\ ReserveBlocks < NumberOfBlocks
  /\ PagesPerBlock \in Nat \ {0}
  /\ CacheSize \in Nat
  /\ MappingPerPage \in Nat \ {0}
  /\ TotalPages % MappingPerPage = 0

Blocks  == 0 .. NumberOfBlocks - 1
Lpns    == 0 .. TotalPages - 1
NoBlock == -1                      (* null                                 *)
NoLpn   == -1                      (* no host write is in progress         *)

VARIABLES
  lpns, clean, dirty,              (* dftl_block: live lpns and counters   *)
  free_block, gc_block, full_block,
  block, ppn,                      (* dftl_table(lpn).block and .ppn       *)
  cached, unsaved,                 (* entries with cached, dirty = true    *)
  dftl_cache,
  pc,                              (* the method the lock holder is in     *)
  writing,                         (* the lpn a host write waits to place  *)
  todo                             (* move: lpns of the victim not moved   *)

blockVars == <<lpns, clean, dirty, free_block, gc_block, full_block>>
tableVars == <<block, ppn>>
cacheVars == <<cached, unsaved, dftl_cache>>
callVars  == <<pc, writing, todo>>
vars      == <<blockVars, tableVars, cacheVars, callVars>>

Init ==
  /\ lpns       = [b \in Blocks |-> << >>]
  /\ clean      = [b \in Blocks |-> PagesPerBlock]
  /\ dirty      = [b \in Blocks |-> 0]
  /\ free_block = [i \in 1 .. NumberOfBlocks |-> i - 1]
  /\ gc_block   = << >>
  /\ full_block = << >>
  /\ block      = [l \in Lpns |-> NoBlock]
  /\ ppn        = [l \in Lpns |-> TotalPages]
  /\ cached     = {}
  /\ unsaved    = {}
  /\ dftl_cache = << >>
  /\ pc         = "idle"
  /\ writing    = NoLpn
  /\ todo       = << >>

-----------------------------------------------------------------------------
(* The cached mapping table.                                               *)

(* The entries stored in the same translation page as entry l.             *)
Group(l) == {k \in Lpns : k \div MappingPerPage = l \div MappingPerPage}

Overflow(list) == IF Len(list) > CacheSize THEN Len(list) - CacheSize ELSE 0
Evicted(list)  == {list[i] : i \in 1 .. Overflow(list)}

(* clean_cache on the list: drop heads until CacheSize are left; an unsaved*)
(* head saves every entry of its group.                                    *)
CleanCache(list, isCached, isUnsaved) ==
  LET out == Evicted(list)
  IN  /\ dftl_cache' = SubSeq(list, Overflow(list) + 1, Len(list))
      /\ cached'     = isCached \ out
      /\ unsaved'    = isUnsaved \ (out \cup UNION {Group(l) : l \in out \cap isUnsaved})

(* cache(lpn): bring an entry in, or move it to the tail of the list. The  *)
(* list holds an entry at most once (CacheConsistent), so filtering it out *)
(* removes its first occurrence.                                           *)
CacheEntryTwice(l) ==      (* mutant: a hit is not taken off its place      *)
  CleanCache(Append(dftl_cache, l), cached \cup {l}, unsaved)
CacheEntry(l) ==
  IF l \in cached
  THEN CleanCache(Append(RemoveFirst(dftl_cache, l), l), cached, unsaved)
  ELSE CleanCache(Append(dftl_cache, l), cached \cup {l}, unsaved \ {l})

(* realRead(lpn): a miss loads the entry, a hit leaves the list as it is.  *)
RealRead(l) ==
  IF l \in cached THEN UNCHANGED cacheVars ELSE CacheEntry(l)

-----------------------------------------------------------------------------
(* trim(lpn) and write_withoutGC(lpn).                                     *)

IsMapped(l) == block[l] # NoBlock

ExhaustedEarly(l) == IsMapped(l) /\ dirty[block[l]] + 2 >= PagesPerBlock  (* mutant *)
ExhaustedNever(l) == IsMapped(l) /\ dirty[block[l]] + 1 > PagesPerBlock   (* mutant *)

(* The block the entry points to, when trim has made every page of it      *)
(* invalid: it leaves the full blocks and queues for erasure.              *)
Exhausted(l) == IsMapped(l) /\ dirty[block[l]] + 1 >= PagesPerBlock

LpnsKept(l)  == lpns        (* mutants: a list or counter not updated       *)
DirtyKept(l) == dirty
FullKept(l)  == full_block
LpnsTrimmed(l) ==
  IF IsMapped(l) THEN [lpns EXCEPT ![block[l]] = RemoveFirst(@, l)] ELSE lpns
DirtyTrimmed(l) ==
  IF IsMapped(l) THEN [dirty EXCEPT ![block[l]] = @ + 1] ELSE dirty
GcTrimmed(l) ==
  IF Exhausted(l) THEN Append(gc_block, block[l]) ELSE gc_block
FullTrimmed(l) ==
  IF Exhausted(l) THEN RemoveFirst(full_block, block[l]) ELSE full_block

(* The entry is flagged cached and dirty, yet not appended to the list.    *)
TrimEntry(l) ==
  /\ cached'  = IF IsMapped(l) THEN cached \cup {l} ELSE cached
  /\ unsaved' = IF IsMapped(l) THEN unsaved \cup {l} ELSE unsaved
  /\ UNCHANGED dftl_cache

TrimPage(l) ==
  /\ lpns'       = LpnsTrimmed(l)
  /\ dirty'      = DirtyTrimmed(l)
  /\ gc_block'   = GcTrimmed(l)
  /\ full_block' = FullTrimmed(l)
  /\ TrimEntry(l)
  /\ block'      = [block EXCEPT ![l] = NoBlock]
  /\ ppn'        = [ppn EXCEPT ![l] = TotalPages]
  /\ UNCHANGED <<clean, free_block>>

FirstPage == Head(free_block) * PagesPerBlock      (* mutant               *)
PageAfter == (Head(free_block) + 1) * PagesPerBlock - clean[Head(free_block)] + 1   (* mutant *)
FillsLate == clean[Head(free_block)] - 1 < 0       (* mutant               *)
(* The page the next write goes to: head of the free list, first clean one.*)
NextPage == (Head(free_block) + 1) * PagesPerBlock - clean[Head(free_block)]
Fills    == clean[Head(free_block)] - 1 <= 0

(* free_block.head throws on the empty list: the guard of the step.        *)
WriteWithoutGC(l) ==
  LET b == Head(free_block)
  IN  /\ free_block # << >>
      /\ clean'      = [clean EXCEPT ![b] = @ - 1]
      /\ free_block' = IF Fills THEN Tail(free_block) ELSE free_block
      /\ full_block' = IF Fills THEN Append(FullTrimmed(l), b) ELSE FullTrimmed(l)
      /\ gc_block'   = GcTrimmed(l)
      /\ lpns'       = [LpnsTrimmed(l) EXCEPT ![b] = Append(@, l)]
      /\ dirty'      = DirtyTrimmed(l)
      /\ block'      = [block EXCEPT ![l] = b]
      /\ ppn'        = [ppn EXCEPT ![l] = NextPage]
      /\ TrimEntry(l)

-----------------------------------------------------------------------------
(* The operations of the FTL interface, called with the lock held.         *)

Read(l) ==
  /\ pc = "idle"
  /\ RealRead(l)
  /\ UNCHANGED <<blockVars, tableVars, callVars>>

Trim(l) ==
  /\ pc = "idle"
  /\ TrimPage(l)
  /\ UNCHANGED callVars

(* cache(lpn) is public: CPFTL.prefetch calls it before any realRead, also *)
(* before the ones of move.                                                *)
Cache(l) ==
  /\ pc \in {"idle", "move"}
  /\ CacheEntry(l)
  /\ UNCHANGED <<blockVars, tableVars, callVars>>

IsOut == Len(free_block) <= 0                      (* mutant               *)
IsLow == Len(free_block) <= 2

Write(l) ==
  /\ pc = "idle"
  /\ pc' = IF IsLow THEN "force_gc" ELSE "write"
  /\ writing' = l
  /\ UNCHANGED <<blockVars, tableVars, cacheVars, todo>>

(* The second statement of write: place the page.                          *)
WriteData ==
  /\ pc = "write"
  /\ WriteWithoutGC(writing)
  /\ pc' = "idle"
  /\ writing' = NoLpn
  /\ UNCHANGED todo

(* gc, called by the background thread; false when enough blocks are free. *)
Gc ==
  /\ pc = "idle"
  /\ Len(free_block) < ReserveBlocks \div 2
  /\ pc' = "force_gc"
  /\ UNCHANGED <<blockVars, tableVars, cacheVars, writing, todo>>

IsVictimLeast(i) ==    (* mutant: the fewest                                 *)
  /\ \A j \in DOMAIN full_block : dirty[full_block[j]] >= dirty[full_block[i]]
  /\ \A j \in 1 .. i - 1 : dirty[full_block[j]] > dirty[full_block[i]]

(* The first full block with the most invalid pages.                       *)
IsVictim(i) ==
  /\ \A j \in DOMAIN full_block : dirty[full_block[j]] <= dirty[full_block[i]]
  /\ \A j \in 1 .. i - 1 : dirty[full_block[j]] < dirty[full_block[i]]

(* force_gc: move runs only when no block waits to be erased. The lpns it  *)
(* walks are the victim's list at this moment.                             *)
ForceGc ==
  /\ pc = "force_gc"
  /\ \/ /\ gc_block = << >>
        /\ \E i \in DOMAIN full_block :
             /\ IsVictim(i)
             /\ todo' = lpns[full_block[i]]
        /\ pc' = "move"
     \/ /\ gc_block # << >>
        /\ pc' = "reset"
        /\ UNCHANGED todo
  /\ UNCHANGED <<blockVars, tableVars, cacheVars, writing>>

MoveTrim ==            (* mutant: the entry is trimmed before it is rewritten *)
  /\ pc = "move"
  /\ todo # << >>
  /\ TrimPage(Head(todo))
  /\ pc' = "rewrite"
  /\ UNCHANGED <<writing, todo>>

(* One turn of the loop in move, first half: val from = read(lpn).         *)
MoveRead ==
  /\ pc = "move"
  /\ todo # << >>
  /\ RealRead(Head(todo))
  /\ pc' = "rewrite"
  /\ UNCHANGED <<blockVars, tableVars, writing, todo>>

(* Second half: val to = write_withoutGC(lpn), then device.move(from, to). *)
MoveWrite ==
  /\ pc = "rewrite"
  /\ WriteWithoutGC(Head(todo))
  /\ todo' = Tail(todo)
  /\ pc' = "move"
  /\ UNCHANGED writing

MoveDone ==
  /\ pc = "move"
  /\ todo = << >>
  /\ pc' = "reset"
  /\ UNCHANGED <<blockVars, tableVars, cacheVars, writing, todo>>

(* The rest of force_gc: erase the first waiting block.                    *)
EraseBlock ==
  LET b == Head(gc_block)
  IN  /\ pc = "reset"
      /\ gc_block # << >>
      /\ lpns'       = [lpns EXCEPT ![b] = << >>]
      /\ clean'      = [clean EXCEPT ![b] = PagesPerBlock]
      /\ dirty'      = [dirty EXCEPT ![b] = 0]
      /\ gc_block'   = Tail(gc_block)
      /\ free_block' = Append(free_block, b)
      /\ pc'         = IF writing = NoLpn THEN "idle" ELSE "write"
      /\ UNCHANGED <<full_block, tableVars, cacheVars, writing, todo>>

ForceGcStep == ForceGc \/ MoveRead \/ MoveWrite \/ MoveDone \/ EraseBlock

Next ==
  \/ \E l \in Lpns : Read(l) \/ Trim(l) \/ Cache(l) \/ Write(l)
  \/ WriteData
  \/ Gc
  \/ ForceGcStep

Spec == Init /\ [][Next]_vars

-----------------------------------------------------------------------------
(* Correctness.                                                            *)

Counter == 0 .. PagesPerBlock

(* The type invariant.                                                     *)
TypeOK ==
  /\ lpns \in [Blocks -> Seq(Lpns)]
  /\ clean \in [Blocks -> Counter]
  /\ dirty \in [Blocks -> Counter]
  /\ free_block \in Seq(Blocks)
  /\ gc_block \in Seq(Blocks)
  /\ full_block \in Seq(Blocks)
  /\ block \in [Lpns -> Blocks \cup {NoBlock}]
  /\ ppn \in [Lpns -> 0 .. NumberOfBlocks * PagesPerBlock]
  /\ cached \in SUBSET Lpns
  /\ unsaved \in SUBSET Lpns
  /\ dftl_cache \in Seq(Lpns)
  /\ pc \in {"idle", "force_gc", "move", "rewrite", "reset", "write"}
  /\ writing \in Lpns \cup {NoLpn}
  /\ todo \in Seq(Lpns)

(* The three lists share out the blocks: every block is in exactly one of  *)
(* them, once. A block lost by write_withoutGC, trim or force_gc would     *)
(* never be written again; one listed twice would be handed out while it   *)
(* holds data.                                                             *)
Partition ==
  /\ IsInjective(free_block) /\ IsInjective(gc_block) /\ IsInjective(full_block)
  /\ Range(free_block) \cap Range(gc_block) = {}
  /\ Range(free_block) \cap Range(full_block) = {}
  /\ Range(gc_block) \cap Range(full_block) = {}
  /\ Range(free_block) \cup Range(gc_block) \cup Range(full_block) = Blocks

(* Every page of a block is clean, invalid or live, and the list a block   *)
(* is in says how far it has got: only the head of the free list is partly *)
(* written, a full block holds live data, a waiting block holds none.      *)
PageAccounting ==
  /\ \A b \in Blocks : clean[b] + dirty[b] + Len(lpns[b]) = PagesPerBlock
  /\ \A i \in DOMAIN free_block : clean[free_block[i]] > 0
  /\ \A i \in 2 .. Len(free_block) : clean[free_block[i]] = PagesPerBlock
  /\ \A b \in Range(full_block) : clean[b] = 0 /\ lpns[b] # << >>
  /\ \A b \in Range(gc_block) : dirty[b] = PagesPerBlock

(* A block lists exactly the logical pages whose entry points to it, once  *)
(* each, and a mapped entry's physical page is a written one of its block. *)
(* Garbage collection copies by the block's list and reads by the table:   *)
(* an lpn missing from the list is data erased with the block.             *)
MappingConsistent ==
  /\ \A b \in Blocks : IsInjective(lpns[b])
  /\ \A b \in Blocks : Range(lpns[b]) = {l \in Lpns : block[l] = b}
  /\ \A l \in Lpns :
       IF IsMapped(l)
       THEN /\ ppn[l] >= block[l] * PagesPerBlock
            /\ ppn[l] < (block[l] + 1) * PagesPerBlock - clean[block[l]]
       ELSE ppn[l] = TotalPages

(* No physical page holds two logical pages.                               *)
MappingInjective ==
  \A k, l \in Lpns : IsMapped(k) /\ IsMapped(l) /\ ppn[k] = ppn[l] => k = l

(* The cache list holds at most CacheSize entries, once each; it lists only*)
(* cached entries, and an entry out of the cache has nothing to save, so a *)
(* later miss that clears its dirty flag loses nothing.                    *)
CacheConsistent ==
  /\ Len(dftl_cache) <= CacheSize
  /\ IsInjective(dftl_cache)
  /\ Range(dftl_cache) \subseteq cached
  /\ unsaved \subseteq cached

(* The loop of move walks a full block's live pages, all of them, and when *)
(* it ends some block waits to be erased.                                  *)
MoveConsistent ==
  /\ pc = "rewrite" => todo # << >>
  /\ pc \notin {"move", "rewrite"} => todo = << >>
  /\ pc \in {"move", "rewrite"} /\ todo # << >> =>
       \E b \in Range(full_block) : lpns[b] = todo
  /\ pc = "reset" \/ (pc = "move" /\ todo = << >>) => gc_block # << >>
  /\ pc = "write" => writing # NoLpn
  /\ pc = "idle" => writing = NoLpn

(* The heads the code takes without a test exist: a free block for every   *)
(* page write, host's or collector's, a victim for move, and a waiting     *)
(* block for the erase. Otherwise List.head throws and the application     *)
(* dies with the driver waiting for it.                                    *)
HeadsExist ==
  /\ pc \in {"write", "rewrite"} => free_block # << >>
  /\ pc = "force_gc" /\ gc_block = << >> => full_block # << >>
  /\ pc = "reset" => gc_block # << >>

(* The clean pages left: only the head of the free list is partly written. *)
FreePages ==
  IF free_block = << >> THEN 0
  ELSE clean[Head(free_block)] + (Len(free_block) - 1) * PagesPerBlock

(* Why the heads exist. Between operations at least a block's worth of     *)
(* pages is clean; collection needs a page for each live page of its       *)
(* victim, and since some block has an invalid page whenever space is that *)
(* short, it ends with a page to spare. Two reserve blocks are enough.     *)
FreeSpace ==
  /\ pc = "idle" => FreePages >= PagesPerBlock
  /\ pc = "force_gc" => FreePages >= PagesPerBlock /\ Len(free_block) < NumberOfBlocks
  /\ pc \in {"move", "rewrite"} => FreePages >= Len(todo) + 1
  /\ pc = "reset" => FreePages >= 1
  /\ pc = "write" => FreePages >= PagesPerBlock + 1

(* A block is erased only when no logical page points to it.               *)
EraseOnlyDead ==
  [][\A b \in Blocks :
       (clean'[b] > clean[b] => \A l \in Lpns : block[l] # b)]_vars

(* Garbage collection maps the same logical pages after each of its steps  *)
(* as before: it moves data and loses none.                                *)
CollectionKeepsData ==
  [][(pc \in {"force_gc", "move", "rewrite", "reset"}) =>
       {l \in Lpns : block'[l] # NoBlock} = {l \in Lpns : IsMapped(l)}]_vars

(* An operation that started, with its garbage collection, ends.           *)
OperationsEnd == pc # "idle" ~> pc = "idle"
=============================================================================
