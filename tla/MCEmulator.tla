----------------------------- MODULE MCEmulator -----------------------------
(* A small instance of EmulatedDisk in which the background collection     *)
(* collects blocks with live pages, several in a row. It takes many writes *)
(* to use up that many free blocks: the host begins with the writes of     *)
(* Warmup and then issues any requests, a bounded number of them.          *)
EXTENDS EmulatedDisk

CONSTANT MaxRequests

VARIABLE requests      (* requests the host has issued                     *)

(* Every page, then every other page, and so on: the blocks written first  *)
(* keep one live page each.                                                *)
Every(n) == [i \in 1 .. TotalPages \div n |-> (i - 1) * n]
Warmup   == Every(1) \o Every(2) \o Every(4)

MCInit == DInit /\ requests = 0

Free == requests >= Len(Warmup)
HostRequest ==
  /\ DGetRequest
  /\ IF Free THEN requests < Len(Warmup) + MaxRequests
     ELSE Head(request').write /\ Head(request').lpn = Warmup[requests + 1]
  /\ requests' = requests + 1

(* The rest of DNext, the host waiting or quiet.                           *)
Quietly(A) == A /\ UNCHANGED requests
MCNext ==
  \/ HostRequest
  \/ Quietly(DLoopStep) \/ Quietly(DFinishWrite) \/ Quietly(DTransfer)
  \/ Quietly(DCollectMove) \/ Quietly(DCollectRest)
  \/ Quietly(DBeat) \/ Quietly(DBackgroundGc)

MCSpec == MCInit /\ [][MCNext]_<<allVars, requests>> /\ EFairness
=============================================================================
