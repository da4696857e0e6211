-------------------------------- MODULE Fast ---------------------------------
(***************************************************************************)
(* FlashSim's FAST translation layer, FTLs/fast_ftl.cpp: a block map, one  *)
(* sequential log block (SW), and a list of log blocks (RW) that every     *)
(* logical block shares and that is merged from its oldest block on.       *)
(*                                                                         *)
(* A block leaves its owner for the invalid list and is erased later, by   *)
(* insert_events. Nothing here invalidates the pages a write replaces.     *)
(***************************************************************************)
EXTENDS Flash, FiniteSetsExt

CONSTANTS
  LogLimit,    (* FAST_LOG_PAGE_LIMIT: log blocks in the list                *)
  MaxRequests  (* bound of the model: requests served                       *)

FastAssumption == LogLimit \in Nat \ {0, 1} /\ MaxRequests \in Nat

NewLog(b) == [address |-> b, pages |-> << >>]    (* pages: aPages, numPages *)

Init ==
  /\ \E first \in FirstFree :
       ssd = LayerInit([data_list  |-> [k \in Lbas |-> NoBlock],
                        log_pages  |-> << >>,
                        requests   |-> 0,
                        sequential |-> [lba |-> NoBlock, address |-> 0, offset |-> 0]], first)
  /\ live = {}

HasData(s, k) == s.data_list[k] # NoBlock

(* data_list[k] + i. After a trim data_list[k] may be -1; as an unsigned   *)
(* address this is taken modulo the size of the device, which divides 2^64.*)
DataPage(s, k, i) ==
  ((IF HasData(s, k) THEN Page(s.data_list[k], 0) ELSE -1) + i) % Cardinality(Pages)

(* The entries of the log: log block n has logical page l at index j.      *)
Entries(s) == UNION {{n} \X DOMAIN s.log_pages[n].pages : n \in DOMAIN s.log_pages}
Entry(s, e) == s.log_pages[e[1]].pages[e[2]]
EntriesOf(s, l) == {e \in Entries(s) : Entry(s, e) = l}
EntryPage(s, e) == Page(s.log_pages[e[1]].address, e[2] - 1)
Before(d, e) == d[1] < e[1] \/ (d[1] = e[1] /\ d[2] <= e[2])
First(es) == CHOOSE e \in es : \A d \in es : Before(e, d)
Latest(es) == CHOOSE e \in es : \A d \in es : Before(d, e)

InSequential(s, l) ==
  s.sequential.lba = BlockOf(l) /\ s.sequential.offset > Offset(l)
SequentialPage(s, i) == Page(s.sequential.address, i)

(* read: the first entry of the log, the sequential block, the data block. *)
ReadAddress(s, l) ==
  IF EntriesOf(s, l) # {} THEN EntryPage(s, First(EntriesOf(s, l)))
  ELSE IF InSequential(s, l) THEN SequentialPage(s, Offset(l))
  ELSE IF HasData(s, BlockOf(l)) THEN DataPage(s, BlockOf(l), Offset(l))
  ELSE 0

(* initialize_log_pages, at the first request.                             *)
AddLog(s) == [s EXCEPT !.log_pages = Append(@, NewLog(s.got))]
Initialized(s) ==
  IF s.log_pages # << >> THEN s
  ELSE FoldLeft(LAMBDA t, n : AddLog(GetLogBlock(t, LogLimit)), s, [n \in 1 .. LogLimit |-> n])

-----------------------------------------------------------------------------
(* Merges.                                                                 *)

DropData(s, k) ==
  IF HasData(s, k) THEN Invalidate(s, s.data_list[k], "DATA") ELSE s
Relieved(s) == IF NumFreeBlocks(s) < 5 THEN InsertEvents(s) ELSE s

SwitchSequential(s, k) == [DropData(s, k) EXCEPT !.data_list[k] = s.sequential.address]

(* merge_sequential: valid pages of the sequential block first, then those *)
(* of the data block, if there is one.                                     *)
IsSequentialValid(s, i) == s.state[SequentialPage(s, i)] = "VALID"
HasSource(s, k, i) ==
  IsSequentialValid(s, i) \/ (HasData(s, k) /\ s.state[DataPage(s, k, i)] = "VALID")
SequentialSource(s, k, i) ==
  IF IsSequentialValid(s, i) THEN SequentialPage(s, i) ELSE DataPage(s, k, i)
CopySequential(s, k) ==
  CopyPages(s, s.got, [i \in {i \in Offsets : HasSource(s, k, i)} |-> SequentialSource(s, k, i)])
RetireSequential(s, k) ==
  [DropData(Invalidate(s, s.sequential.address, "DATA"), k) EXCEPT !.data_list[k] = s.got]
MergeSequential(s) ==
  IF s.sequential.lba = NoBlock THEN s
  ELSE RetireSequential(CopySequential(Relieved(GetFreeBlock(s, "DATA")), s.sequential.lba),
                        s.sequential.lba)

(* random_merge of logical block k: the latest entry of each of its pages, *)
(* from any log block but never from an index 0, then the data block. The  *)
(* older entries it passes are removed.                                    *)
MergedEntries(s, k) ==
  {e \in Entries(s) : e[2] > 1 /\ Entry(s, e) # -1 /\ BlockOf(Entry(s, e)) = k}
MergedOf(s, k, i) == {e \in MergedEntries(s, k) : Offset(Entry(s, e)) = i}
CopyRandom(s, k) ==
  CopyPages(s, s.got,
    [i \in {i \in Offsets : MergedOf(s, k, i) # {} \/ s.state[DataPage(s, k, i)] = "VALID"} |->
       IF MergedOf(s, k, i) # {} THEN EntryPage(s, Latest(MergedOf(s, k, i)))
       ELSE DataPage(s, k, i)])
RemoveEntries(s, es) ==
  [s EXCEPT !.log_pages = [n \in DOMAIN @ |->
     [@[n] EXCEPT !.pages = [j \in DOMAIN @ |-> IF <<n, j>> \in es THEN -1 ELSE @[j]]]]]
OlderEntries(s, k) ==
  {e \in MergedEntries(s, k) : e # Latest(MergedOf(s, k, Offset(Entry(s, e))))}
RetireData(s, k) ==
  [Invalidate(s, BlockOf(DataPage(s, k, 0)), "DATA") EXCEPT !.data_list[k] = s.got]
MergeBlock(s, k) == RetireData(RemoveEntries(CopyRandom(s, k), OlderEntries(s, k)), k)

MergedBlocks(log) == {BlockOf(l) : l \in Range(log.pages) \ {-1}}
RandomMerge(s, log) ==
  FoldLeft(LAMBDA t, k : MergeBlock(GetFreeBlock(Relieved(t), "DATA"), k),
           s, SetToSortSeq(MergedBlocks(log), <))

-----------------------------------------------------------------------------
(* write_to_log_block. Each operator gives the state with the target page  *)
(* of the write in field got.                                              *)

NewSequential(s, k) ==
  [s EXCEPT !.sequential = [lba |-> k, address |-> s.got, offset |-> 1], !.got = Page(s.got, 0)]
StartSequential(s, k) == NewSequential(GetFreeBlock(s, "DATA"), k)

(* data_list[-1] is read and written when a trim has dropped a full        *)
(* sequential block: what happens then is undefined, and the model ends    *)
(* there, as it does after a failed assertion.                             *)
FinishSequential(s) ==
  IF s.sequential.offset # BlockSize THEN MergeSequential(s)
  ELSE IF s.sequential.lba = NoBlock THEN [s EXCEPT !.asserted = FALSE]
  ELSE SwitchSequential(s, s.sequential.lba)

(* controller.get_free_page: the page after those written.                 *)
AppendSequential(s) ==
  [s EXCEPT !.got = SequentialPage(s, s.pages_valid[s.sequential.address]),
            !.sequential.offset = @ + 1]
WriteSequential(s, k, i) ==
  IF i = 0 THEN StartSequential(FinishSequential(s), k)
  ELSE IF i = s.sequential.offset THEN AppendSequential(s)
  ELSE StartSequential(MergeSequential(s), k)

(* The random log: with every log block full, the oldest is merged, and a  *)
(* new one takes its place at the end.                                     *)
LogIsFull(s) == \A n \in DOMAIN s.log_pages : Len(s.log_pages[n].pages) = BlockSize
RetireLog(s) ==
  Invalidate([s EXCEPT !.log_pages = Tail(@)], Head(s.log_pages).address, "LOG")
WithRoom(s) ==
  IF LogIsFull(s) THEN AddLog(GetLogBlock(RetireLog(RandomMerge(s, Head(s.log_pages))), LogLimit))
  ELSE s
AppendLog(s, l) ==
  LET n == CHOOSE n \in DOMAIN s.log_pages :
             /\ Len(s.log_pages[n].pages) < BlockSize
             /\ \A m \in 1 .. n - 1 : Len(s.log_pages[m].pages) = BlockSize
  IN  [s EXCEPT !.log_pages[n].pages = Append(@, l),
                !.got = Page(s.log_pages[n].address, Len(s.log_pages[n].pages))]

WriteToLog(s, l) ==
  IF Offset(l) = 0 \/ s.sequential.lba = BlockOf(l)
  THEN WriteSequential(s, BlockOf(l), Offset(l))
  ELSE AppendLog(WithRoom(s), l)

-----------------------------------------------------------------------------
(* The operations.                                                         *)

CanServe == IsRunning(ssd) /\ ssd.requests < MaxRequests
Served(s) == [Initialized(s) EXCEPT !.requests = @ + 1]

UseData(s, k, i) == [s EXCEPT !.data_list[k] = s.got, !.got = Page(s.got, i)]
Placed(s, l) ==
  LET k == BlockOf(l)
      i == Offset(l)
  IN  IF ~HasData(s, k) THEN UseData(GetFreeBlock(s, "DATA"), k, i)
      ELSE IF s.state[DataPage(s, k, i)] = "EMPTY" THEN [s EXCEPT !.got = DataPage(s, k, i)]
      ELSE WriteToLog(s, l)

(* insert_events comes between the choice of the page and the write.       *)
Issue(s, l) == WritePage(InsertEvents(s), s.got, l)
Write(l) ==
  /\ CanServe
  /\ Return(Issue(Placed(Served(ssd), l), l), live \cup {l})

(* trim: the first entry of the log, else the sequential, else the data    *)
(* page; a block with only invalid pages is erased, as a log block.        *)
DisposeIf(s, b, disposed) ==
  IF IsInactive(s, b) THEN EraseAndInvalidate(disposed, b, "LOG") ELSE s

TrimEntry(s, e, k) ==
  LET t == [InvalidatePage(s, EntryPage(s, e)) EXCEPT !.log_pages[e[1]].pages[e[2]] = -1]
  IN  DisposeIf(t, s.log_pages[e[1]].address, [t EXCEPT !.data_list[k] = NoBlock])
TrimSequential(s, i) ==
  LET t == InvalidatePage(s, SequentialPage(s, i))
  IN  DisposeIf(t, s.sequential.address, [t EXCEPT !.sequential.lba = NoBlock])
TrimData(s, k, i) ==
  LET t == InvalidatePage(s, DataPage(s, k, i))
  IN  DisposeIf(t, s.data_list[k], [t EXCEPT !.data_list[k] = NoBlock])

TrimPage(s, l) ==
  IF EntriesOf(s, l) # {} THEN TrimEntry(s, First(EntriesOf(s, l)), BlockOf(l))
  ELSE IF InSequential(s, l) THEN TrimSequential(s, Offset(l))
  ELSE IF HasData(s, BlockOf(l)) THEN TrimData(s, BlockOf(l), Offset(l))
  ELSE s
Trim(l) ==
  /\ CanServe
  /\ Return(InsertEvents(TrimPage(Served(ssd), l)), live \ {l})

-----------------------------------------------------------------------------
(* The parts of the correctness properties, which Simulator states.        *)

Logs(s)    == {s.log_pages[n].address : n \in DOMAIN s.log_pages}
DataBlocks == {ssd.data_list[k] : k \in {k \in Lbas : HasData(ssd, k)}}

TypeOK ==
  /\ FlashTypeOK
  /\ ssd.data_list \in [Lbas -> Blocks \cup {NoBlock}]
  /\ \A n \in DOMAIN ssd.log_pages : /\ ssd.log_pages[n].address \in Blocks
                                     /\ ssd.log_pages[n].pages \in Seq(Lpns \cup {-1})
  /\ ssd.sequential \in [lba : Lbas \cup {NoBlock}, address : Blocks, offset : 0 .. BlockSize]

SequentialBlocks == IF ssd.sequential.lba = NoBlock THEN {} ELSE {ssd.sequential.address}
Owners ==
  <<DataBlocks, Logs(ssd), SequentialBlocks, Range(ssd.invalid_list), FreeBlocks>>
BlocksOwned ==
  /\ \A j, k \in Lbas : HasData(ssd, j) /\ ssd.data_list[j] = ssd.data_list[k] => j = k
  /\ IsInjective(ssd.free_list) /\ IsInjective(ssd.invalid_list)
  /\ \A i, j \in DOMAIN Owners : i # j => Owners[i] \cap Owners[j] = {}
  /\ UNION Range(Owners) = ssd.first_free .. NumberOfBlocks - 1

CountersAgree ==
  /\ ssd.data_active = Cardinality(DataBlocks) + Cardinality(SequentialBlocks)
  /\ ssd.log_active = Cardinality(Logs(ssd))

(* A page that was written is read from a page that was written.           *)
ReadsWritten == \A l \in live : ssd.state[ReadAddress(ssd, l)] = "VALID"
ReadsNewest  == \A l \in live : ssd.data[ReadAddress(ssd, l)] = l

(* The blocks in use, the copies of a merge, and so many that the ratio in *)
(* insert_events can be reached without the blocks that are never used.    *)
HasRoom ==
  /\ LogicalBlocks + LogLimit + 4 <= NumberOfBlocks
  /\ 10 * (NumberOfBlocks - ssd.first_free) > 9 * NumberOfBlocks
=============================================================================
