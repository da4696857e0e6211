---------------------------- MODULE BlockDevice -----------------------------
(***************************************************************************)
(* What an emulated disk promises its host: it serves one request at a     *)
(* time, a sector that was written holds its last data, and only a write   *)
(* to its own page, while the host waits for it, changes what it holds.    *)
(* Nothing the device does on its own (translation, caching, collection,   *)
(* copying, time) is visible.                                              *)
(*                                                                         *)
(* A page is anyone's guess from the time the host asks for a write to it  *)
(* until that is performed: the write may go to a new physical page that   *)
(* the old one is not copied to, and that may hold older data of the page. *)
(***************************************************************************)
EXTENDS Sequences

CONSTANTS
  Lpns,      (* pages                                                      *)
  Sectors    (* sectors of a page                                          *)

VARIABLES
  pending,   (* the accesses of the request that are not yet performed     *)
  waiting,   (* whether the host waits for a request                       *)
  held       (* sectors, as <<lpn, s>>, that hold the last data written    *)

bdVars == <<pending, waiting, held>>

Access == [write : BOOLEAN, lpn : Lpns, sectors : SUBSET Sectors]

Init == pending = << >> /\ waiting = FALSE /\ held = {}

Request ==
  /\ ~waiting /\ waiting'
  /\ pending' \in Seq(Access) /\ pending' # << >>
  /\ UNCHANGED held

OfPage(l) == {l} \X Sectors
Disturb ==
  /\ \E i \in DOMAIN pending, now \in SUBSET Sectors :
       /\ pending[i].write
       /\ held' = (held \ OfPage(pending[i].lpn)) \cup ({pending[i].lpn} \X now)
  /\ UNCHANGED <<pending, waiting>>

Perform ==
  /\ pending # << >>
  /\ pending' = Tail(pending)
  /\ held' = IF Head(pending).write
             THEN held \cup ({Head(pending).lpn} \X Head(pending).sectors) ELSE held
  /\ UNCHANGED waiting

Answer ==
  /\ waiting /\ pending = << >> /\ ~waiting'
  /\ UNCHANGED <<pending, held>>

Next == Request \/ Disturb \/ Perform \/ Answer

Spec == Init /\ [][Next]_bdVars
=============================================================================
