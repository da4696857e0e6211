-------------------------------- MODULE Flash --------------------------------
(***************************************************************************)
(* The flash memory of FlashSim and its block manager: ssd_page.cpp,       *)
(* ssd_block.cpp and ssd_bm.cpp, with the levels between them and the      *)
(* controller, which only pass a call on.                                  *)
(*                                                                         *)
(* The simulator is one thread, and a request is a chain of calls that     *)
(* nothing interrupts. So a call is an operator from the state before it   *)
(* to the state after it: s is a record whose fields are the fields of the *)
(* C++ objects, and the translation layers add their own fields to it.     *)
(*                                                                         *)
(* A page's contents are the logical page whose last data it holds. Time   *)
(* and statistics are left out; a noop event changes nothing else.         *)
(***************************************************************************)
EXTENDS Integers, Sequences, SequencesExt, FiniteSets

CONSTANTS
  NumberOfBlocks,  (* NUMBER_OF_ADDRESSABLE_BLOCKS                         *)
  BlockSize,       (* BLOCK_SIZE                                           *)
  BlockErases,     (* BLOCK_ERASES: how often a block can be erased        *)
  LogicalBlocks,   (* logical blocks the host uses                         *)
  FirstFree        (* values of simpleCurrentFree to start from, in blocks *)

(* Assumed by Simulator of the layers it uses.                             *)
FlashAssumption ==
  /\ NumberOfBlocks \in Nat \ {0} /\ BlockSize \in Nat \ {0}
  /\ BlockErases \in Nat
  /\ LogicalBlocks \in Nat
  /\ FirstFree \subseteq 0 .. NumberOfBlocks

VARIABLES
  ssd,       (* the simulator: flash, block manager and translation layer  *)
  live       (* lpns the host has written and not trimmed since            *)

vars == <<ssd, live>>

Blocks  == 0 .. NumberOfBlocks - 1
Offsets == 0 .. BlockSize - 1
Pages   == 0 .. NumberOfBlocks * BlockSize - 1
Lbas    == 0 .. LogicalBlocks - 1
Lpns    == 0 .. LogicalBlocks * BlockSize - 1
NoBlock == -1
Junk    == -1

(* Linear addresses.                                                       *)
Page(b, i) == b * BlockSize + i
BlockOf(p) == p \div BlockSize
Offset(p)  == p % BlockSize
PagesOf(b) == {Page(b, i) : i \in Offsets}

(* f, but v for every member of set.                                       *)
With(f, set, v) == [x \in DOMAIN f |-> IF x \in set THEN v ELSE f[x]]

(* No constructor initialises simpleCurrentFree: first is what the memory  *)
(* holds, in blocks (NumberOfBlocks for anything beyond the last one, and  *)
(* only whole blocks). The blocks below it are never used.                 *)
FlashInit(first) ==
  [state         |-> [p \in Pages |-> "EMPTY"],
   data          |-> [p \in Pages |-> Junk],
   pages_valid   |-> [b \in Blocks |-> 0],       (* pages written            *)
   erases_remaining |-> [b \in Blocks |-> BlockErases],
   worn_out      |-> FALSE,   (* the program ended at the erase of a worn block *)
   asserted      |-> TRUE,    (* no other assertion has failed               *)
   first_free    |-> first,
   current_free  |-> first,                      (* simpleCurrentFree        *)
   free_list     |-> << >>,
   invalid_list  |-> << >>,
   data_active   |-> 0,
   log_active    |-> 0,
   out_of_blocks |-> FALSE,
   got           |-> NoBlock]   (* within a call: the block get_page_block gave *)

(* The same, with the fields of a translation layer.                       *)
LayerInit(fields, first) ==
  LET flash == FlashInit(first)
  IN  [x \in DOMAIN fields \cup DOMAIN flash |->
         IF x \in DOMAIN fields THEN fields[x] ELSE flash[x]]

-----------------------------------------------------------------------------
(* Pages and blocks.                                                       *)

(* Every page invalid: block state INACTIVE.                               *)
IsInactive(s, b) == \A i \in Offsets : s.state[Page(b, i)] = "INVALID"

(* Page::_write, of new data of l: any other copy of it is out of date.    *)
Program(s, p, l) ==
  [s EXCEPT !.asserted = @ /\ s.state[p] = "EMPTY",
            !.state[p] = "VALID",
            !.data = [With(@, {q \in Pages : @[q] = l}, Junk) EXCEPT ![p] = l]]

(* Block::write. The count only goes down with an erase.                   *)
WritePage(s, p, l) == [Program(s, p, l) EXCEPT !.pages_valid[BlockOf(p)] = @ + 1]

InvalidatePage(s, p) == [s EXCEPT !.state[p] = "INVALID"]

(* Reads and writes that copy pages into block b: from maps the offsets    *)
(* written there to the pages they come from.                              *)
CopyPages(s, b, from) ==
  LET new == {Page(b, i) : i \in DOMAIN from}
  IN  [s EXCEPT !.asserted = @ /\ \A p \in new : s.state[p] = "EMPTY",
                !.state = With(@, new, "VALID"),
                !.pages_valid[b] = @ + Cardinality(DOMAIN from),
                !.data = [p \in Pages |-> IF p \in new THEN @[from[Offset(p)]] ELSE @[p]]]

(* The same with the source as the replace address of each write.          *)
MovePages(s, b, from) ==
  CopyPages([s EXCEPT !.state = With(@, Range(from), "INVALID")], b, from)

(* Block::_erase of the blocks bs: an erased page holds no data, and each  *)
(* block has one erase less. With none left the erase fails. The block     *)
(* manager asserts that none does: the program ends there (worn_out).      *)
Wear(s, bs) ==
  [b \in Blocks |-> IF b \in bs /\ s.erases_remaining[b] > 0
                    THEN s.erases_remaining[b] - 1 ELSE s.erases_remaining[b]]
IsWornOut(s, bs) == \E b \in bs : s.erases_remaining[b] = 0

Erase(s, b) ==
  [s EXCEPT !.state = With(@, PagesOf(b), "EMPTY"),
            !.data  = With(@, PagesOf(b), Junk),
            !.pages_valid[b] = 0,
            !.erases_remaining = Wear(s, {b}),
            !.worn_out = @ \/ IsWornOut(s, {b})]

-----------------------------------------------------------------------------
(* Block_manager.                                                          *)

Count(s, type, n) ==
  CASE type = "DATA" -> [s EXCEPT !.data_active = @ + n]
    [] type = "LOG"  -> [s EXCEPT !.log_active = @ + n]

EraseAndKeep(s, b, type) == Count(Erase(s, b), type, -1)      (* mutant      *)
EraseAndInvalidate(s, b, type) ==
  Count([Erase(s, b) EXCEPT !.free_list = Append(@, b)], type, -1)

(* promote_block(DATA).                                                    *)
PromoteHalf(s)  == Count(s, "DATA", 1)                        (* mutant      *)
PromoteBlock(s) == Count(Count(s, "DATA", 1), "LOG", -1)

(* invalidate: the block waits in the invalid list to be erased.           *)
Invalidate(s, b, type) == Count([s EXCEPT !.invalid_list = Append(@, b)], type, -1)

(* insert_events, as far as it goes for every translation layer: when nine *)
(* blocks in ten are used, erase up to five blocks of the invalid list,    *)
(* from its end. The ratio is a float, in which nine tenths are below the  *)
(* double 0.90: exactly nine in ten are not enough.                        *)
IsUsed(s) ==
  10 * (Len(s.invalid_list) + s.log_active + s.data_active - Len(s.free_list))
    > 9 * NumberOfBlocks

EraseInvalid(s) ==
  LET n   == IF Len(s.invalid_list) < 5 THEN Len(s.invalid_list) ELSE 5
      out == Reverse(SubSeq(s.invalid_list, Len(s.invalid_list) - n + 1, Len(s.invalid_list)))
      gone == UNION {PagesOf(b) : b \in Range(out)}
  IN  [s EXCEPT !.state = With(@, gone, "EMPTY"),
                !.data  = With(@, gone, Junk),
                !.pages_valid = With(@, Range(out), 0),
                !.erases_remaining = Wear(s, Range(out)),
                !.worn_out = @ \/ IsWornOut(s, Range(out)),
                !.free_list = @ \o out,
                !.invalid_list = SubSeq(@, 1, Len(@) - n)]

InsertEvents(s) == IF IsUsed(s) THEN EraseInvalid(s) ELSE s

(* get_page_block: the next block never used, then the free list; with     *)
(* none left the assertion fails.                                          *)
TakeFree(s) ==
  IF s.free_list = << >> THEN [s EXCEPT !.asserted = FALSE, !.got = 0]
  ELSE [s EXCEPT !.got = Head(s.free_list), !.free_list = Tail(@), !.out_of_blocks = FALSE]

GetPageBlock(s) ==
  IF s.current_free < NumberOfBlocks
  THEN [s EXCEPT !.got = s.current_free, !.current_free = @ + 1]
  ELSE TakeFree(IF Len(s.free_list) <= 1 /\ ~s.out_of_blocks
                THEN InsertEvents([s EXCEPT !.out_of_blocks = TRUE]) ELSE s)

(* get_free_block. For a log block it throws std::bad_alloc, which nobody  *)
(* catches, when there are more than limit (max_log_blocks): this too ends *)
(* the program. log_active is unsigned: below zero it is beyond any limit. *)
GetFreeBlock(s, type) == Count(GetPageBlock(s), type, 1)
GetLogBlock(s, limit) ==
  GetFreeBlock([s EXCEPT !.asserted = @ /\ s.log_active \in 0 .. limit], "LOG")

(* get_num_free_blocks: while there are blocks never used, it counts those *)
(* that were handed out in their place.                                    *)
NumFreeBlocks(s) ==
  Len(s.free_list) + IF s.current_free < NumberOfBlocks THEN s.current_free ELSE 0

FreeBlocks == Range(ssd.free_list) \cup ssd.current_free .. NumberOfBlocks - 1

-----------------------------------------------------------------------------
(* A request that ends in state s; an assertion that fails ends the        *)
(* program in the middle of the call.                                      *)
IsRunning(s) == s.asserted /\ ~s.worn_out
Return(s, written) ==
  IF IsRunning(s) THEN ssd' = [s EXCEPT !.got = NoBlock] /\ live' = written
  ELSE /\ ssd' = [ssd EXCEPT !.asserted = s.asserted, !.worn_out = @ \/ s.worn_out]
       /\ UNCHANGED live

(* The fields of the flash and the block manager.                          *)
FlashTypeOK ==
  /\ ssd.state \in [Pages -> {"EMPTY", "VALID", "INVALID"}]
  /\ ssd.data \in [Pages -> Lpns \cup {Junk}]
  /\ ssd.pages_valid \in [Blocks -> 0 .. BlockSize]
  /\ ssd.erases_remaining \in [Blocks -> 0 .. BlockErases]
  /\ ssd.free_list \in Seq(Blocks) /\ ssd.invalid_list \in Seq(Blocks)
  /\ ssd.current_free \in ssd.first_free .. NumberOfBlocks
  /\ ssd.data_active \in Int /\ ssd.log_active \in Int
  /\ live \subseteq Lpns
=============================================================================
