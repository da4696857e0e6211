---------------------------- MODULE EmulatedDisk ----------------------------
(***************************************************************************)
(* What the host reads back: Emulator with the contents of the disk. A     *)
(* sector of the disk is described by the logical page whose last data it  *)
(* holds, Junk when it holds nothing or data overwritten since.            *)
(***************************************************************************)
EXTENDS Emulator

Junk == -1

VARIABLES
  media,      (* per physical page, whose last data each sector holds      *)
  written,    (* per lpn, the sectors the host has written                 *)
  kept        (* those written since the page was last begun without a copy*)

diskVars == <<media, written, kept>>

DInit ==
  /\ EInit
  /\ media   = [p \in Pages |-> [s \in Sectors |-> Junk]]
  /\ written = [l \in Lpns |-> {}]
  /\ kept    = [l \in Lpns |-> {}]

(* Device.move: the driver copies a page.                                  *)
CopiedBack(from, to) == [media EXCEPT ![from] = media[to]]       (* mutant  *)
Copied(from, to) == [media EXCEPT ![to] = media[from]]

(* The driver performs a write: the sectors now hold the page's last data, *)
(* and any other copy of them is out of date.                              *)
Performed(a) ==
  [p \in Pages |-> [s \in Sectors |->
     IF s \notin a.sectors THEN media[p][s]
     ELSE IF p = a.ppn THEN a.lpn
     ELSE IF media[p][s] = a.lpn THEN Junk ELSE media[p][s]]]

DFinishWrite ==
  /\ FinishWrite
  /\ IF MustCopy(Head(request))
     THEN media' = Copied(old_ppn, NextPage) /\ UNCHANGED kept
     ELSE UNCHANGED media /\ kept' = [kept EXCEPT ![writing] = {}]
  /\ UNCHANGED written

DCollectMove ==
  /\ CollectMove
  /\ media' = Copied(ppn[Head(todo)], NextPage)
  /\ UNCHANGED <<written, kept>>

DTransfer ==
  /\ Transfer
  /\ IF Head(map).write
     THEN /\ media'   = Performed(Head(map))
          /\ written' = [written EXCEPT ![Head(map).lpn] = @ \cup Head(map).sectors]
          /\ kept'    = [kept EXCEPT ![Head(map).lpn] = @ \cup Head(map).sectors]
     ELSE UNCHANGED diskVars

DGetRequest   == GetRequest /\ UNCHANGED diskVars
DLoopStep     == LoopStep /\ UNCHANGED diskVars
DCollectRest  == CollectRest /\ UNCHANGED diskVars
DBeat         == Beat /\ UNCHANGED diskVars
DBackgroundGc == BackgroundGc /\ UNCHANGED diskVars

DNext ==
  \/ DGetRequest \/ DLoopStep \/ DFinishWrite \/ DTransfer
  \/ DCollectMove \/ DCollectRest
  \/ DBeat \/ DBackgroundGc

allVars == <<emuVars, diskVars>>

DSpec == DInit /\ [][DNext]_allVars

-----------------------------------------------------------------------------
(* Correctness.                                                            *)

DTypeOK ==
  /\ ETypeOK
  /\ media \in [Pages -> [Sectors -> Lpns \cup {Junk}]]
  /\ \A l \in Lpns : kept[l] \subseteq written[l] /\ written[l] \subseteq Sectors

Holds(l, s) == media[ppn[l]][s] = l

(* The disk implements BlockDevice: whatever the translation layer and the *)
(* collections do in between, the host sees requests performed in order,   *)
(* and a page changes only under a write to it.                            *)
PlainAccesses(s) ==
  [i \in DOMAIN s |-> [write |-> s[i].write, lpn |-> s[i].lpn, sectors |-> s[i].sectors]]
Held == UNION {{l} \X {s \in written[l] : Holds(l, s)} : l \in Lpns}
Device == INSTANCE BlockDevice WITH
  pending <- PlainAccesses(map) \o request,
  waiting <- phase # "get",
  held    <- Held
ImplementsDevice == Device!Spec

Quiet == phase \in {"get", "lock"}

(* A read finds what the host last wrote, whatever collections came since. *)
Durable ==
  Quiet => \A l \in Lpns : \A s \in written[l] : Holds(l, s)

(* The same, but for the rest of a page that a partial write began without *)
(* copying the old page: nothing else loses data.                          *)
KeptDurable ==
  Quiet => \A l \in Lpns : \A s \in kept[l] : Holds(l, s)
=============================================================================
