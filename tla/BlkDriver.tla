----------------------------- MODULE BlkDriver ------------------------------
(***************************************************************************)
(* The kernel driver c/kernel/ssd_blkdev.c and the FTL application that    *)
(* serves it, c/ftl/ftl_main.c. The driver's worker and the application    *)
(* hand each request over through ioctls, three flags with wait queues and *)
(* one shared map; the worker then transfers pages through a page buffer.  *)
(* The application may be killed at any point and be started again. A kill *)
(* ends the wait of an ioctl, whose result the driver ignores: the handler *)
(* then runs to its end before the process dies.                           *)
(*                                                                         *)
(* A sector is described by the logical page whose last data it holds.     *)
(* The block layer (external) hands the worker requests for whole pages,   *)
(* or for a part of one page in one segment: request_size, the number of   *)
(* sectors divided by eight, then equals the number of segments.           *)
(***************************************************************************)
EXTENDS Integers, Sequences, FiniteSets

CONSTANTS
  NrPages,     (* SSD_NR_PAGES: pages of the RAM disk                      *)
  NrLpns,      (* logical pages in use                                     *)
  NrSectors,   (* SSD_NR_SECTORS_PER_PAGE                                  *)
  MaxPages,    (* bound: pages of one request                              *)
  Parts        (* bound: the sets of sectors that are a part of a page     *)

ASSUME DriverAssumption ==
  /\ NrPages \in Nat \ {0} /\ NrLpns \in Nat /\ NrSectors \in Nat \ {0} /\ MaxPages \in Nat \ {0}
  /\ NrLpns <= NrPages
  /\ Parts \subseteq SUBSET (0 .. NrSectors - 1)

Lpns     == 0 .. NrLpns - 1
Ppns     == 0 .. NrPages - 1
Sectors  == 0 .. NrSectors - 1
Unmapped == NrPages      (* SSD_MAP_TABLE_SIZE, which no page number reaches *)
Junk     == -1           (* a sector with no data, or with overwritten data  *)
NoDftl   == -1

VARIABLES
  worker,                                      (* where ssd_request_func is  *)
  req,                                         (* the request it fetched     *)
  req_size_flag, lba_wait_flag, ppn_wait_flag,
  request_size, request_map,
  user_app,                                    (* user_app # NULL            *)
  app,                                         (* where ftl_main is          *)
  dying,                                       (* it has been killed         *)
  app_size, app_map,                           (* its req_size, request_map  *)
  table,                                       (* the FTL's map: lpn to ppn  *)
  used,        (* pages the C dftl has given; NoDftl for any other FTL      *)
  disk,                                        (* ssd_dev_data               *)
  buff,                                        (* ssd_page_buff              *)
  written,     (* per lpn, the sectors written to the page of its map since  *)
               (* ftl->init: a new application knows nothing older           *)
  lost         (* an application took a request and died before its answer   *)

driverVars == <<worker, req, request_size, request_map>>
flagVars   == <<req_size_flag, lba_wait_flag, ppn_wait_flag>>
appVars    == <<app, dying, app_size, app_map, table, used>>
dataVars   == <<disk, buff, written>>
crashVars  == <<user_app, lost>>
vars       == <<driverVars, flagVars, appVars, dataVars, crashVars>>

Blank == [s \in Sectors |-> Junk]

Init ==
  /\ worker = "fetch" /\ req = << >>
  /\ req_size_flag = FALSE /\ lba_wait_flag = FALSE /\ ppn_wait_flag = FALSE
  /\ request_size = 0 /\ request_map = << >>
  /\ user_app = FALSE
  /\ app = "dead" /\ dying = FALSE /\ app_size = 0 /\ app_map = << >>
  /\ table = [l \in Lpns |-> Unmapped] /\ used = NoDftl
  /\ disk = [p \in Ppns |-> Blank]
  /\ buff = [ppn |-> 0, data |-> Blank]
  /\ written = [l \in Lpns |-> {}]
  /\ lost = FALSE

-----------------------------------------------------------------------------
(* The worker: ssd_request_func and ssd_transfer.                          *)

Segment(write, l, sectors) == [write |-> write, lpn |-> l, sectors |-> sectors]

(* Whole consecutive pages, or a part of one page.                         *)
Requests ==
  {[i \in 1 .. n |-> Segment(w, l + i - 1, Sectors)] :
     w \in BOOLEAN, l \in Lpns, n \in 1 .. MaxPages}
    \cup {<<Segment(w, l, part)>> : w \in BOOLEAN, l \in Lpns, part \in Parts}

(* blk_fetch_request. With no application registered the request ends      *)
(* at once, without a transfer and without an error.                       *)
Fetch ==
  /\ worker = "fetch"
  /\ user_app
  /\ \E r \in Requests : r[Len(r)].lpn \in Lpns /\ req' = r
  /\ worker' = "size"
  /\ UNCHANGED <<request_size, request_map, flagVars, appVars, dataVars, crashVars>>

(* Mutant: one entry too many. *)
PostSizeMore ==
  /\ worker = "size"
  /\ request_size' = Len(req) + 1
  /\ req_size_flag' = TRUE
  /\ worker' = "alloc"
  /\ UNCHANGED <<req, request_map, lba_wait_flag, ppn_wait_flag, appVars, dataVars, crashVars>>

PostSize ==
  /\ worker = "size"
  /\ request_size' = Len(req)
  /\ req_size_flag' = TRUE
  /\ worker' = "alloc"
  /\ UNCHANGED <<req, request_map, lba_wait_flag, ppn_wait_flag, appVars, dataVars, crashVars>>

(* A map entry: the segment, the pages the application gives for it, and   *)
(* whether it has; kzalloc and calloc give page 0.                         *)
Entry(seg, p, new, given) == [seg |-> seg, ppn |-> p, new_ppn |-> new, given |-> given]

FillMap ==
  /\ worker = "alloc"
  /\ request_map' = [i \in DOMAIN req |-> Entry(req[i], 0, 0, FALSE)]
  /\ worker' = "lba"
  /\ UNCHANGED <<req, request_size, flagVars, appVars, dataVars, crashVars>>

(* Mutant: the flag is not raised. *)
PostLbaSilent ==
  /\ worker = "lba"
  /\ lba_wait_flag' = lba_wait_flag
  /\ worker' = "wait"
  /\ UNCHANGED <<req, request_size, request_map, req_size_flag, ppn_wait_flag,
                 appVars, dataVars, crashVars>>

PostLba ==
  /\ worker = "lba"
  /\ lba_wait_flag' = TRUE
  /\ worker' = "wait"
  /\ UNCHANGED <<req, request_size, request_map, req_size_flag, ppn_wait_flag,
                 appVars, dataVars, crashVars>>

(* Mutant: the flag is not reset. *)
TakePpnKept ==
  /\ worker = "wait"
  /\ ppn_wait_flag
  /\ ppn_wait_flag' = ppn_wait_flag
  /\ worker' = "io"
  /\ UNCHANGED <<req, request_size, request_map, req_size_flag, lba_wait_flag,
                 appVars, dataVars, crashVars>>

TakePpn ==
  /\ worker = "wait"
  /\ ppn_wait_flag
  /\ ppn_wait_flag' = FALSE
  /\ worker' = "io"
  /\ UNCHANGED <<req, request_size, request_map, req_size_flag, lba_wait_flag,
                 appVars, dataVars, crashVars>>

(* Mutant: the buffer keeps its old label. *)
PageReadUnlabelled(p) ==
  IF p \notin Ppns \/ p = buff.ppn THEN buff ELSE [ppn |-> buff.ppn, data |-> disk[p]]

(* ssd_dev_read_page: the buffer is kept when it is the page's already, and*)
(* when there is no such page.                                             *)
PageRead(p) ==
  IF p \notin Ppns \/ p = buff.ppn THEN buff ELSE [ppn |-> p, data |-> disk[p]]

(* Sectors of lpn l are overwritten: every older copy is out of date.      *)
Outdated(page, l, sectors) ==
  [s \in Sectors |-> IF s \in sectors /\ page[s] = l THEN Junk ELSE page[s]]

Modified(page, seg) ==
  [s \in Sectors |-> IF s \in seg.sectors THEN seg.lpn ELSE page[s]]

(* ssd_dev_read.                                                           *)
ReadEntry(e) ==
  /\ buff' = IF e.ppn = Unmapped THEN buff ELSE PageRead(e.ppn)
  /\ UNCHANGED <<disk, written>>

(* Mutant: the old page is not read first. *)
WriteEntryBlind(e) ==
  LET page == Modified(buff.data, e.seg)
  IN  /\ disk' = [p \in Ppns |->
                    IF p = e.new_ppn THEN page
                    ELSE Outdated(disk[p], e.seg.lpn, e.seg.sectors)]
      /\ buff' = [ppn |-> e.new_ppn, data |-> page]
      /\ written' = [written EXCEPT ![e.seg.lpn] =
                        IF table[e.seg.lpn] = e.new_ppn THEN @ \cup e.seg.sectors ELSE @]

(* ssd_dev_write: read, modify and write the new page.                     *)
WriteEntry(e) ==
  LET page == Modified(PageRead(e.ppn).data, e.seg)
  IN  /\ disk' = [p \in Ppns |->
                    IF p = e.new_ppn THEN page
                    ELSE Outdated(disk[p], e.seg.lpn, e.seg.sectors)]
      /\ buff' = [ppn |-> e.new_ppn, data |-> page]
      /\ written' = [written EXCEPT ![e.seg.lpn] =
                        IF table[e.seg.lpn] = e.new_ppn THEN @ \cup e.seg.sectors ELSE @]

Transfer ==
  /\ worker = "io"
  /\ request_map # << >>
  /\ LET e == Head(request_map)
     IN  IF e.seg.write THEN WriteEntry(e) ELSE ReadEntry(e)
  /\ request_map' = Tail(request_map)
  /\ UNCHANGED <<worker, req, request_size, flagVars, appVars, crashVars>>

EndRequest ==
  /\ worker = "io"
  /\ request_map = << >>
  /\ worker' = "fetch"
  /\ req' = << >>
  /\ UNCHANGED <<request_size, request_map, flagVars, appVars, dataVars, crashVars>>

-----------------------------------------------------------------------------
(* The application: the loop of ftl_main.c, an ioctl at a time.            *)

(* The maps an FTL starts with: dftl knows no page; user_ftl and direct_ftl*)
(* give every logical page the physical page of its number.                *)
FirstTables == {[l \in Lpns |-> Unmapped], [l \in Lpns |-> l]}

(* Mutant: registering resets the flags. *)
RegisterReset ==
  /\ app = "dead"
  /\ app' = "get_size"
  /\ user_app' = TRUE
  /\ req_size_flag' = FALSE /\ lba_wait_flag' = FALSE /\ ppn_wait_flag' = FALSE
  /\ \/ table' \in FirstTables /\ used' = NoDftl
     \/ table' = [l \in Lpns |-> Unmapped] /\ used' = 0
  /\ written' = [l \in Lpns |-> {}]
  /\ UNCHANGED <<driverVars, dying, app_size, app_map, disk, buff, lost>>

(* main opens the device, registers and calls ftl->init: dftl_init, or the *)
(* one of another FTL.                                                     *)
Register ==
  /\ app = "dead"
  /\ app' = "get_size"
  /\ user_app' = TRUE
  /\ \/ table' \in FirstTables /\ used' = NoDftl
     \/ table' = [l \in Lpns |-> Unmapped] /\ used' = 0
  /\ written' = [l \in Lpns |-> {}]
  /\ UNCHANGED <<driverVars, flagVars, dying, app_size, app_map, disk, buff, lost>>

(* A killed application exits when it is back in user mode.                *)
Resume(state) == app' = IF dying THEN "exit" ELSE state

(* SSD_BLKDEV_GET_REQ_SIZE: the wait and the copy, then the flag's reset.  *)
GetReqSize ==
  /\ app = "get_size"
  /\ req_size_flag \/ dying
  /\ app_size' = request_size
  /\ app' = "clear_size"
  /\ UNCHANGED <<driverVars, flagVars, dying, app_map, table, used, dataVars, crashVars>>

ClearSize ==
  /\ app = "clear_size"
  /\ req_size_flag' = FALSE
  /\ Resume("get_lbn")
  /\ UNCHANGED <<driverVars, lba_wait_flag, ppn_wait_flag, dying, app_size, app_map, table, used,
                 dataVars, crashVars>>

(* SSD_BLKDEV_GET_LBN, likewise.                                           *)
GetLbn ==
  /\ app = "get_lbn"
  /\ lba_wait_flag \/ dying
  /\ app_map' = request_map
  /\ app' = "clear_lba"
  /\ UNCHANGED <<driverVars, flagVars, dying, app_size, table, used, dataVars, crashVars>>

(* Mutant: the flag is not reset. *)
ClearLbaKept ==
  /\ app = "clear_lba"
  /\ lba_wait_flag' = lba_wait_flag
  /\ Resume("translate")
  /\ UNCHANGED <<driverVars, req_size_flag, ppn_wait_flag, dying, app_size, app_map, table, used,
                 dataVars, crashVars>>

ClearLba ==
  /\ app = "clear_lba"
  /\ lba_wait_flag' = FALSE
  /\ Resume("translate")
  /\ UNCHANGED <<driverVars, req_size_flag, ppn_wait_flag, dying, app_size, app_map, table, used,
                 dataVars, crashVars>>

(* What struct ftl promises: read gives the page the last write of this    *)
(* lpn gave; write gives one that no other lpn has.                        *)
FreeFor(l) == {p \in Ppns : \A k \in Lpns \ {l} : table[k] # p}

(* dftl_free_block and dftl_write give the pages one after the other. Its  *)
(* collection is empty: after the last page dftl_free_block does not return*)
NextOfDftl == {used} \cap Ppns
Given(l)   == IF used = NoDftl THEN FreeFor(l) ELSE NextOfDftl

Translate ==
  /\ app = "translate"
  /\ \E i \in 1 .. app_size :
       /\ i \in DOMAIN app_map
       /\ ~app_map[i].given /\ \A j \in 1 .. i - 1 : app_map[j].given
       /\ LET seg == app_map[i].seg
          IN  IF seg.write
              THEN \E p \in Given(seg.lpn) :
                     /\ app_map' = [app_map EXCEPT ![i] = Entry(seg, table[seg.lpn], p, TRUE)]
                     /\ table' = [table EXCEPT ![seg.lpn] = p]
                     /\ used' = IF used = NoDftl THEN used ELSE used + 1
              ELSE /\ app_map' = [app_map EXCEPT ![i] = Entry(seg, table[seg.lpn], 0, TRUE)]
                   /\ UNCHANGED <<table, used>>
  /\ UNCHANGED <<driverVars, flagVars, app, dying, app_size, dataVars, crashVars>>

(* SSD_BLKDEV_SET_PPN: the copy, then the flag; main then frees its map.   *)
SetPpn ==
  /\ app = "translate"
  /\ \A i \in 1 .. app_size : i \in DOMAIN app_map => app_map[i].given
  /\ request_map' = app_map
  /\ app_map' = << >>
  /\ app' = "set_flag"
  /\ UNCHANGED <<worker, req, request_size, flagVars, dying, app_size, table, used,
                 dataVars, crashVars>>

(* Mutant: the flag is not raised. *)
SetFlagLost ==
  /\ app = "set_flag"
  /\ ppn_wait_flag' = ppn_wait_flag
  /\ Resume("get_size")
  /\ UNCHANGED <<driverVars, req_size_flag, lba_wait_flag, dying, app_size, app_map, table, used,
                 dataVars, crashVars>>

SetFlag ==
  /\ app = "set_flag"
  /\ ppn_wait_flag' = TRUE
  /\ Resume("get_size")
  /\ UNCHANGED <<driverVars, req_size_flag, lba_wait_flag, dying, app_size, app_map, table, used,
                 dataVars, crashVars>>

(* A fatal signal reaches it in user mode, or in an ioctl.                 *)
(* Signals that it survives, which end a wait as well, are left out.       *)
InUserMode == app \in {"get_size", "get_lbn", "translate"}
InIoctl    == app \notin {"dead", "exit", "translate"}

Kill ==
  /\ ~dying
  /\ \/ InUserMode /\ app' = "exit"
     \/ InIoctl /\ app' = app
  /\ dying' = TRUE
  /\ UNCHANGED <<driverVars, flagVars, app_size, app_map, table, used, dataVars, crashVars>>

(* The request's size has been taken and its map has not been given.       *)
Unanswered == worker \in {"alloc", "lba", "wait"} /\ ~req_size_flag /\ ~ppn_wait_flag

(* ssd_dev_release forgets the application, unless the task that closes the*)
(* device is not the one that registered (a JVM's shutdown hook runs in a  *)
(* thread of its own): then user_app is left behind.                       *)
Die ==
  /\ app = "exit"
  /\ app' = "dead" /\ dying' = FALSE
  /\ app_size' = 0 /\ app_map' = << >>
  /\ user_app' \in {FALSE, user_app}
  /\ lost' = (lost \/ Unanswered)
  /\ UNCHANGED <<driverVars, flagVars, table, used, dataVars>>

Worker == PostSize \/ FillMap \/ PostLba \/ TakePpn \/ Transfer \/ EndRequest
App == GetReqSize \/ ClearSize \/ GetLbn \/ ClearLba \/ Translate \/ SetPpn \/ SetFlag \/ Die

Next == Fetch \/ Worker \/ Register \/ App \/ Kill

(* The worker and the application run when they can; the host need not     *)
(* issue requests, and nobody need start the application.                  *)
Spec == Init /\ [][Next]_vars /\ WF_vars(Worker) /\ WF_vars(App)

-----------------------------------------------------------------------------
(* Two more things that can happen, each with a next-state relation.       *)

(* SSD_BLKDEV_MOVE_PAGE, ssd_dev_move_page: an application that collects   *)
(* garbage moves a page before it translates the request.                  *)
MovePage ==
  /\ app = "translate"
  /\ \A i \in DOMAIN app_map : ~app_map[i].given
  /\ \E l \in Lpns : \E new \in FreeFor(l) \ {table[l]} :
       /\ table[l] # Unmapped
       /\ disk' = [disk EXCEPT ![new] = disk[table[l]]]
       /\ buff' = [buff EXCEPT !.ppn = new]
       /\ table' = [table EXCEPT ![l] = new]
  /\ UNCHANGED <<driverVars, flagVars, app, dying, app_size, app_map, used, written, crashVars>>

MoveSpec == Init /\ [][Next \/ MovePage]_vars

(* kzalloc fails: ssd_transfer returns an error after the application has  *)
(* been told the size of the request. (A segment that is longer than a page*)
(* does the same, with a map that is left behind half filled.)             *)
TransferFails ==
  /\ worker = "alloc"
  /\ worker' = "fetch"
  /\ req' = << >> /\ request_map' = << >>
  /\ UNCHANGED <<request_size, flagVars, appVars, dataVars, crashVars>>

FailSpec == Init /\ [][Next \/ TransferFails]_vars

-----------------------------------------------------------------------------
(* Correctness.                                                            *)

TypeOK ==
  /\ worker \in {"fetch", "size", "alloc", "lba", "wait", "io"}
  /\ app \in {"dead", "get_size", "clear_size", "get_lbn", "clear_lba", "translate", "set_flag",
             "exit"}
  /\ {req_size_flag, lba_wait_flag, ppn_wait_flag, user_app, dying, lost} \subseteq BOOLEAN
  /\ request_size \in 0 .. MaxPages /\ app_size \in 0 .. MaxPages
  /\ Len(request_map) <= MaxPages /\ Len(app_map) <= MaxPages
  /\ table \in [Lpns -> Ppns \cup {Unmapped}] /\ used \in NoDftl .. NrPages
  /\ disk \in [Ppns -> [Sectors -> Lpns \cup {Junk}]]
  /\ buff \in [ppn : Ppns, data : [Sectors -> Lpns \cup {Junk}]]
  /\ written \in [Lpns -> SUBSET Sectors]

(* The worker transfers with what the application gave for this very       *)
(* request, every entry of it, although the flags outlive requests and     *)
(* applications ("ppn: Physical Page Number. Given by the user, based on a *)
(* map of lpn").                                                           *)
MapGiven ==
  worker = "io" =>
    LET done == Len(req) - Len(request_map)
    IN  \A i \in DOMAIN request_map :
          request_map[i].given /\ request_map[i].seg = req[done + i]

(* While the application works on a map the worker waits for it, and both  *)
(* mean the same number of entries: the copies between them stay inside    *)
(* the buffers, whose sizes each side computed on its own.                 *)
InStep ==
  app \in {"clear_lba", "translate"} /\ ~dying =>
    worker = "wait" /\ app_size = request_size /\ Len(app_map) = app_size

(* The page buffer holds the page it is labelled with: ssd_dev_read_page   *)
(* skips the copy for that page.                                           *)
BufferMatchesDisk == buff.data = disk[buff.ppn]

(* A read takes from the disk, or from the buffer, what was last written.  *)
ReadsLastWrite ==
  worker = "io" /\ request_map # << >> /\ ~Head(request_map).seg.write =>
    LET e == Head(request_map)
    IN  \A s \in e.seg.sectors \cap written[e.seg.lpn] : PageRead(e.ppn).data[s] = e.seg.lpn

(* The worker and an application wait for each other only if an earlier    *)
(* application died between taking the request's size and giving its map:  *)
(* dying at any other point, or restarting, loses no wake-up.              *)
WedgedOnlyByCrash ==
  /\ worker = "wait" /\ ~ppn_wait_flag
  /\ \/ app = "get_size" /\ ~req_size_flag
     \/ app = "get_lbn" /\ ~lba_wait_flag
  => lost

(* The C dftl has given its last page and is asked for another.            *)
OutOfPages ==
  /\ app = "translate" /\ ~dying /\ used = NrPages
  /\ \E i \in DOMAIN app_map : app_map[i].seg.write /\ ~app_map[i].given

(* Every request is transferred, however often the application dies and is *)
(* started again meanwhile, once an application stays up: unless one died  *)
(* holding the request, or the C dftl is out of pages for good. There is no*)
(* other way to hang.                                                      *)
RequestsEnd ==
  <>[](app # "dead") /\ ~<>[]OutOfPages =>
    (worker = "size" ~> worker = "fetch" \/ lost)
=============================================================================
