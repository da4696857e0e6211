-------------------------------- MODULE Bast ---------------------------------
(***************************************************************************)
(* FlashSim's BAST translation layer, FTLs/bast_ftl.cpp: a block map for   *)
(* data blocks, and for a logical block that is being written a log block  *)
(* of its own, merged into a data block when it is full or is the victim.  *)
(***************************************************************************)
EXTENDS Flash, FiniteSetsExt

CONSTANT LogLimit    (* BAST_LOG_PAGE_LIMIT: log blocks at a time           *)

BastAssumption == LogLimit \in Nat \ {0}

NoLog     == [address |-> NoBlock]
NewLog(b) == [address |-> b, pages |-> [i \in Offsets |-> -1]]

Init ==
  /\ \E first \in FirstFree :
       ssd = LayerInit([data_list |-> [k \in Lbas |-> NoBlock],
                        log_map |-> [k \in Lbas |-> NoLog]], first)
  /\ live = {}

HasLog(s, k)  == s.log_map[k] # NoLog
HasData(s, k) == s.data_list[k] # NoBlock
Logs(s)       == {k \in Lbas : HasLog(s, k)}

(* Where the log and the data block of logical block k have its page i.    *)
InLog(s, k, i)    == HasLog(s, k) /\ s.log_map[k].pages[i] # -1
LogPage(s, k, i)  == Page(s.log_map[k].address, s.log_map[k].pages[i])
DataPage(s, k, i) == Page(s.data_list[k], i)

(* read: the address it sends to the flash.                                *)
ReadAddress(s, l) ==
  LET k == BlockOf(l)
      p == IF InLog(s, k, Offset(l)) THEN LogPage(s, k, Offset(l))
           ELSE IF HasData(s, k) THEN DataPage(s, k, Offset(l)) ELSE 0
  IN  IF s.state[p] = "INVALID" THEN 0 ELSE p

-----------------------------------------------------------------------------
(* Merges.                                                                 *)

(* is_sequential: page i of the log holds page i of the block, for every i.*)
IsSequential(s, k) == \A i \in Offsets : s.log_map[k].pages[i] = i

EraseData(s, k) ==
  IF HasData(s, k) THEN EraseAndInvalidate(s, s.data_list[k], "DATA") ELSE s

SwitchMerge(s, k) ==
  [EraseData(PromoteBlock(s), k) EXCEPT !.data_list[k] = s.log_map[k].address,
                                        !.log_map[k] = NoLog]

SourceData(s, k, i) == IF HasData(s, k) THEN DataPage(s, k, i) ELSE LogPage(s, k, i)  (* mutant *)
Source(s, k, i) == IF InLog(s, k, i) THEN LogPage(s, k, i) ELSE DataPage(s, k, i)
IsMerged(s, k, i) ==
  /\ InLog(s, k, i) \/ HasData(s, k)
  /\ s.state[Source(s, k, i)] = "VALID"

CopyMerged(s, k) ==
  MovePages(s, s.got, [i \in {i \in Offsets : IsMerged(s, k, i)} |-> Source(s, k, i)])

EraseOld(s, k) ==
  [EraseData(EraseAndInvalidate(s, s.log_map[k].address, "LOG"), k)
     EXCEPT !.data_list[k] = s.got, !.log_map[k] = NoLog]

RandomMerge(s, k) == EraseOld(CopyMerged(GetFreeBlock(s, "DATA"), k), k)

Merge(s, k) == IF IsSequential(s, k) THEN SwitchMerge(s, k) ELSE RandomMerge(s, k)

(* random() % log_map.size() - 1 in unsigned arithmetic, then int: any log *)
(* but the one with the highest logical block, unless there is only one.   *)
Victims(s) == {k \in Logs(s) : Cardinality(Logs(s)) = 1 \/ k # Max(Logs(s))}

LogsOverfull(s) == Cardinality(Logs(s)) > LogLimit           (* mutant      *)
LogsFull(s) == Cardinality(Logs(s)) >= LogLimit

(* allocate_new_logblock, with victim v when there are enough logs.        *)
UseLog(s, k) == [s EXCEPT !.log_map[k] = NewLog(s.got)]
AllocateLogBlock(s, k, v) ==
  UseLog(GetLogBlock(IF LogsFull(s) THEN Merge(s, v) ELSE s, NumberOfBlocks), k)

-----------------------------------------------------------------------------
(* The operations.                                                         *)

(* The log block that the write goes to: a new one when there is none, or  *)
(* when it is full and has been merged.                                    *)
MergeFull(s, k) ==
  IF s.pages_valid[s.log_map[k].address] < BlockSize THEN s
  ELSE AllocateLogBlock(Merge(s, k), k, k)
Prepared(s, k, v) == MergeFull(IF HasLog(s, k) THEN s ELSE AllocateLogBlock(s, k, v), k)

(* The page the write replaces: the one in the data block, if that was     *)
(* ever written, otherwise the one in the log. {} or one page.             *)
ReplacedLog(s, k, i) == IF InLog(s, k, i) THEN {LogPage(s, k, i)} ELSE {}  (* mutant *)
Replaced(s, k, i) ==
  IF HasData(s, k) /\ s.state[DataPage(s, k, i)] # "EMPTY" THEN {DataPage(s, k, i)}
  ELSE IF InLog(s, k, i) THEN {LogPage(s, k, i)} ELSE {}

(* The write itself, at the log's next page.                              *)
WriteLog(s, k, i, l) ==
  LET b == s.log_map[k].address
      n == s.pages_valid[b]
  IN  [WritePage([s EXCEPT !.log_map[k].pages[i] = n], Page(b, n), l)
         EXCEPT !.state = With(@, Replaced(s, k, i), "INVALID")]

Write(l) ==
  LET k == BlockOf(l)
  IN  /\ IsRunning(ssd)
      /\ \E v \in IF ~HasLog(ssd, k) /\ LogsFull(ssd) THEN Victims(ssd) ELSE {k} :
           Return(WriteLog(Prepared(ssd, k, v), k, Offset(l), l), live \cup {l})

(* trim: the page in the log, then the one in the data block; a block with *)
(* only invalid pages is erased at once.                                   *)
DisposeLog(s, k) ==
  IF IsInactive(s, s.log_map[k].address)
  THEN EraseAndInvalidate([s EXCEPT !.log_map[k] = NoLog], s.log_map[k].address, "LOG")
  ELSE s
TrimLog(s, k, i) ==
  IF ~InLog(s, k, i) THEN s
  ELSE DisposeLog([InvalidatePage(s, LogPage(s, k, i)) EXCEPT !.log_map[k].pages[i] = -1], k)

DisposeData(s, k) ==
  IF IsInactive(s, s.data_list[k])
  THEN EraseAndInvalidate([s EXCEPT !.data_list[k] = NoBlock], s.data_list[k], "DATA")
  ELSE s
TrimData(s, k, i) ==
  IF ~HasData(s, k) THEN s ELSE DisposeData(InvalidatePage(s, DataPage(s, k, i)), k)

Trim(l) ==
  LET k == BlockOf(l)
      i == Offset(l)
  IN  /\ IsRunning(ssd)
      /\ Return(TrimData(TrimLog(ssd, k, i), k, i), live \ {l})

-----------------------------------------------------------------------------
(* Correctness.                                                            *)

DataBlocks == {ssd.data_list[k] : k \in {k \in Lbas : HasData(ssd, k)}}
LogBlocks  == {ssd.log_map[k].address : k \in Logs(ssd)}

(* The types; data_active and log_active are unsigned in the code, so that *)
(* no block is given back twice or under the wrong kind.                   *)
TypeOK ==
  /\ FlashTypeOK
  /\ ssd.invalid_list = << >>
  /\ ssd.data_active \in Nat /\ ssd.log_active \in 0 .. LogLimit
  /\ ssd.data_list \in [Lbas -> Blocks \cup {NoBlock}]
  /\ \A k \in Logs(ssd) : /\ ssd.log_map[k].address \in Blocks
                          /\ ssd.log_map[k].pages \in [Offsets -> Offsets \cup {-1}]

(* A read of a page that was written and not trimmed since finds a valid   *)
(* page with its last data, whatever merges, switches and erases came      *)
(* between.                                                                *)
ReadsNewest ==
  \A l \in live : LET p == ReadAddress(ssd, l)
                  IN  ssd.state[p] = "VALID" /\ ssd.data[p] = l

(* Every block is owned by one: it is a logical block's data block, a log, *)
(* or free, and no two own the same. An erased block that is still mapped, *)
(* or one that nobody gave back, breaks this.                              *)
BlocksOwned ==
  /\ \A j, k \in Lbas : HasData(ssd, j) /\ ssd.data_list[j] = ssd.data_list[k] => j = k
  /\ \A j, k \in Logs(ssd) : ssd.log_map[j].address = ssd.log_map[k].address => j = k
  /\ IsInjective(ssd.free_list)
  /\ DataBlocks \cap LogBlocks = {}
  /\ (DataBlocks \cup LogBlocks) \cap FreeBlocks = {}
  /\ ssd.first_free .. NumberOfBlocks - 1 = DataBlocks \cup LogBlocks \cup FreeBlocks

(* The counters that decide when to collect count what they are named for. *)
CountersAgree ==
  /\ ssd.data_active = Cardinality(DataBlocks)
  /\ ssd.log_active = Cardinality(LogBlocks)

(* No assertion fails but the one on erasing a worn block: a page is       *)
(* written only when it is empty, a free block is there when one is taken, *)
(* and the logs in use never exceed the blocks. It needs one block beyond the data    *)
(* blocks and logs that can be in use, for the copies of a merge.          *)
HasRoom == LogicalBlocks + LogLimit + 1 <= NumberOfBlocks - ssd.first_free
AssertionsHold == HasRoom => ssd.asserted

(* A merge copies the newest pages although an overwritten log page may    *)
(* still be valid: a valid page of a data block is what a read returns,    *)
(* and no log hides it.                                                    *)
DataPagesNewest ==
  \A k \in Lbas : HasData(ssd, k) =>
    \A i \in Offsets : ssd.state[DataPage(ssd, k, i)] = "VALID" =>
      /\ Page(k, i) \in live
      /\ ~InLog(ssd, k, i)
=============================================================================
