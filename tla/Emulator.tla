------------------------------ MODULE Emulator ------------------------------
(***************************************************************************)
(* The Scala application around DFTL: main.scala's request loop and its    *)
(* background GCThread share the translation layer under one lock, tell    *)
(* the driver which physical pages a request goes to, and make it copy     *)
(* pages (Device.move). EmulatedDisk adds what the disk holds.             *)
(*                                                                         *)
(* The driver main.scala talks to (one physical sector number per sector)  *)
(* is modelled from how main.scala uses it: it transfers the pages of a    *)
(* request after the application has handed over the whole translation.    *)
(***************************************************************************)
EXTENDS DFTL

CONSTANTS
  SectorsPerPage,  (* Device.SectorsPerPage                                *)
  MaxPages,        (* bound: pages that one host request touches           *)
  Threshold        (* heartbeats until the background collection (1024)    *)

ASSUME EmulatorAssumption ==
  /\ SectorsPerPage \in Nat \ {0}
  /\ MaxPages \in Nat \ {0}
  /\ Threshold \in Nat \ {0}

Sectors == 0 .. SectorsPerPage - 1
Pages   == 0 .. NumberOfBlocks * PagesPerBlock - 1

VARIABLES
  phase,      (* where the request loop is                                 *)
  request,    (* page accesses of the request not yet translated           *)
  map,        (* page accesses translated and not yet performed            *)
  old_ppn,    (* main.scala's old_ppn, TotalPages unless a partial write   *)
  heartbeat,  (* GCThread._heartbeat                                       *)
  elapsed     (* heartbeats since the driver was given the request         *)

loopVars == <<phase, request, map, old_ppn>>
timeVars == <<heartbeat, elapsed>>
emuVars  == <<vars, loopVars, timeVars>>

EInit ==
  /\ Init
  /\ phase = "get"
  /\ request = << >> /\ map = << >>
  /\ old_ppn = TotalPages
  /\ heartbeat = 0 /\ elapsed = 0

-----------------------------------------------------------------------------
(* A host request is a range of sectors, cut at the page boundaries.       *)

Access(write, l, first, last) ==
  [write |-> write, lpn |-> l,
   sectors |-> {s \in Sectors : l * SectorsPerPage + s \in first .. last}]

Accesses(write, first, last) ==
  LET from == first \div SectorsPerPage
      to   == last \div SectorsPerPage
  IN  [i \in 1 .. to - from + 1 |-> Access(write, from + i - 1, first, last)]

IsPartial(a) == a.write /\ a.sectors # Sectors

(* SSD_BLKDEV_GET_REQ_SIZE and SSD_BLKDEV_GET_LBN return.                  *)
GetRequest ==
  /\ phase = "get"
  /\ \E write \in BOOLEAN, first, last \in 0 .. TotalPages * SectorsPerPage - 1 :
       /\ first <= last
       /\ Len(Accesses(write, first, last)) <= MaxPages
       /\ request' = Accesses(write, first, last)
  /\ phase' = "lock"
  /\ UNCHANGED <<vars, map, old_ppn, timeVars>>

(* gc_thread.synchronized: the lock is free unless GCThread is inside gc.  *)
Acquire ==
  /\ phase = "lock"
  /\ pc = "idle"
  /\ phase' = "translate"
  /\ UNCHANGED <<vars, request, map, old_ppn, timeVars>>

Translated(a, p) == Append(map, [write |-> a.write, lpn |-> a.lpn, sectors |-> a.sectors, ppn |-> p])

TranslateRead ==
  /\ phase = "translate"
  /\ request # << >> /\ ~Head(request).write
  /\ Read(Head(request).lpn)
  /\ map' = Translated(Head(request), ppn[Head(request).lpn])
  /\ request' = Tail(request)
  /\ UNCHANGED <<phase, old_ppn, timeVars>>

(* val old_ppn = ftl.read(lpn), of a write that does not cover its page.   *)
ReadOld ==
  /\ phase = "translate"
  /\ request # << >> /\ IsPartial(Head(request))
  /\ Read(Head(request).lpn)
  /\ old_ppn' = ppn[Head(request).lpn]
  /\ phase' = "write"
  /\ UNCHANGED <<request, map, timeVars>>

StartWrite ==
  /\ \/ phase = "write"
     \/ /\ phase = "translate"
        /\ request # << >> /\ Head(request).write /\ ~IsPartial(Head(request))
  /\ Write(Head(request).lpn)
  /\ phase' = "place"
  /\ UNCHANGED <<request, map, old_ppn, timeVars>>

(* ftl.write returns; MustCopy: then the old page is copied underneath.    *)
MustCopy(a) == IsPartial(a) /\ old_ppn < TotalPages

FinishWrite ==
  /\ phase = "place"
  /\ WriteData
  /\ map' = Translated(Head(request), NextPage)
  /\ request' = Tail(request)
  /\ old_ppn' = TotalPages
  /\ phase' = "translate"
  /\ UNCHANGED timeVars

(* The steps of force_gc, whoever called it.                               *)
CollectMove == MoveWrite /\ UNCHANGED <<loopVars, timeVars>>

CollectRest ==
  /\ ForceGc \/ MoveRead \/ MoveDone \/ EraseBlock
  /\ UNCHANGED <<loopVars, timeVars>>

SetPpnSilent ==                  (* mutant: no heartbeat                      *)
  /\ phase = "translate"
  /\ request = << >>
  /\ elapsed' = 0
  /\ phase' = "io"
  /\ UNCHANGED <<vars, request, map, old_ppn, heartbeat>>

(* The end of the synchronized block, then SSD_BLKDEV_SET_PPN.             *)
SetPpn ==
  /\ phase = "translate"
  /\ request = << >>
  /\ heartbeat' = 0
  /\ elapsed' = 0
  /\ phase' = "io"
  /\ UNCHANGED <<vars, request, map, old_ppn>>

(* The driver performs the next access of the request.                     *)
Transfer ==
  /\ phase = "io"
  /\ map # << >>
  /\ map' = Tail(map)
  /\ UNCHANGED <<vars, phase, request, old_ppn, timeVars>>

EndRequest ==
  /\ phase = "io"
  /\ map = << >>
  /\ phase' = "get"
  /\ elapsed' = 0
  /\ UNCHANGED <<vars, request, map, old_ppn, heartbeat>>

-----------------------------------------------------------------------------
(* GCThread.run. Nothing but time keeps it from collecting while the driver*)
(* transfers: the lock is free then.                                       *)

IsUnlocked == phase \in {"get", "lock", "io"} /\ pc = "idle"

(* A heartbeat takes a second; a transfer is over before the Threshold's.  *)
InTime == phase = "io" => elapsed + 1 < Threshold

Elapse == elapsed' = IF phase = "io" THEN elapsed + 1 ELSE 0

Beat ==
  /\ IsUnlocked
  /\ heartbeat + 1 < Threshold
  /\ InTime /\ Elapse
  /\ heartbeat' = heartbeat + 1
  /\ UNCHANGED <<vars, loopVars>>

(* The count stays above the threshold while gc returns true.              *)
BackgroundGc ==
  /\ IsUnlocked
  /\ heartbeat + 1 >= Threshold
  /\ InTime /\ Elapse
  /\ \/ Gc /\ heartbeat' = Threshold
     \/ Len(free_block) >= ReserveBlocks \div 2 /\ heartbeat' = 0 /\ UNCHANGED vars
  /\ UNCHANGED loopVars

(* The steps of the request loop that neither wait for the host nor make   *)
(* the driver write.                                                       *)
LoopStep ==
  Acquire \/ TranslateRead \/ ReadOld \/ StartWrite \/ SetPpn \/ EndRequest

ENext ==
  \/ GetRequest \/ LoopStep \/ FinishWrite \/ Transfer
  \/ CollectMove \/ CollectRest
  \/ Beat \/ BackgroundGc

ESpec == EInit /\ [][ENext]_emuVars

(* A thread that can run does, the driver transfers, and seconds pass. The *)
(* host need not issue requests.                                           *)
EFairness ==
  /\ WF_emuVars(LoopStep \/ FinishWrite \/ Transfer)
  /\ WF_emuVars(CollectMove \/ CollectRest)
  /\ WF_emuVars(Beat)
  /\ WF_emuVars(BackgroundGc)

-----------------------------------------------------------------------------
(* Correctness.                                                            *)

ETypeOK ==
  /\ phase \in {"get", "lock", "translate", "write", "place", "io"}
  /\ \A i \in DOMAIN request : request[i].lpn \in Lpns /\ request[i].sectors # {}
  /\ \A i \in DOMAIN map : map[i].lpn \in Lpns /\ map[i].ppn \in Pages
  /\ old_ppn \in Pages
  /\ heartbeat \in 0 .. Threshold /\ elapsed \in 0 .. Threshold

(* What the driver is told to transfer to or from is still where the table *)
(* maps the logical page: neither the rest of the request nor the          *)
(* background collection moves a page between its translation and its      *)
(* transfer ("Physical Page Number. Given by the user, based on a map of   *)
(* lpn").                                                                  *)
MapCurrent ==
  phase = "io" => \A i \in DOMAIN map : map[i].ppn = ppn[map[i].lpn]

(* Every request is answered: its own collections end, and background      *)
(* collection, which takes the lock again and again while gc returns true, *)
(* does not starve it.                                                     *)
RequestsAnswered == phase = "lock" ~> phase = "get"

(* Once the host is quiet, background collection reaches its goal and      *)
(* rests: each round frees a block and uses less than a block, so the      *)
(* thread does not collect for ever.                                       *)
CollectionSettles ==
  <>[][~GetRequest]_emuVars => <>[](Len(free_block) >= ReserveBlocks \div 2)
=============================================================================
