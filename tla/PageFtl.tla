------------------------------ MODULE PageFtl -------------------------------
(***************************************************************************)
(* FlashSim's page layer, FTLs/page_ftl.cpp. It keeps no mapping and every *)
(* transfer is a noop: it counts pages in use, to know when it would have  *)
(* to erase, and keeps the trimmed pages.                                  *)
(***************************************************************************)
EXTENDS Flash

CONSTANT Ulong    (* numPagesActive wraps here: 2^64 in the code            *)

PageAssumption == Ulong \in Nat /\ Ulong > NumberOfBlocks * BlockSize

(* trim_map is not initialised.                                            *)
Init ==
  /\ \E first \in FirstFree, trimmed \in SUBSET Lpns :
       ssd = LayerInit([pages_active |-> 0, trimmed |-> trimmed], first)
  /\ live = {}

AddPages(s, n) == [s EXCEPT !.pages_active = (@ + n) % Ulong]

(* A block with no erases left is taken for erased all the same.           *)
EraseFirst(s) ==
  AddPages(IF IsWornOut(s, {0}) THEN s ELSE Erase(s, 0), -BlockSize)

(* With all pages in use a block is taken for erased; overwrites count as  *)
(* new pages, and trim_map is left alone.                                  *)
IsFull(s) == s.pages_active = NumberOfBlocks * BlockSize
Write(l) == Return(AddPages(IF IsFull(ssd) THEN EraseFirst(ssd) ELSE ssd, 1), live \cup {l})

(* The trim of the last page of a logical block.                           *)
Clear(s, k) ==
  IF PagesOf(k) \subseteq s.trimmed
  THEN [EraseFirst(s) EXCEPT !.trimmed = @ \ PagesOf(k)] ELSE s
Trim(l) == Return(Clear([ssd EXCEPT !.trimmed = @ \cup {l}], BlockOf(l)), live \ {l})

TypeOK ==
  FlashTypeOK /\ ssd.pages_active \in 0 .. Ulong - 1 /\ ssd.trimmed \subseteq Lpns
InUse  == ssd.pages_active <= NumberOfBlocks * BlockSize
=============================================================================
