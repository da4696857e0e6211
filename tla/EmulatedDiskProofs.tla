------------------------- MODULE EmulatedDiskProofs -------------------------
(* Theorems about Emulator and EmulatedDisk and their proofs: what the     *)
(* request loop and the collector keep of the translation layer, what the  *)
(* disk keeps, and that it implements BlockDevice.                         *)
EXTENDS EmulatedDisk, DFTLProofs

-----------------------------------------------------------------------------
(* The invariant of the request loop.                                      *)

(* What a table entry may say: a page, or the number for no page, which is *)
(* the first page of the reserve when there is one.                        *)
AllPages == Pages \cup {TotalPages}
HostAccess == [write : BOOLEAN, lpn : Lpns, sectors : (SUBSET Sectors) \ {{}}]
DiskAccess == [write : BOOLEAN, lpn : Lpns, sectors : (SUBSET Sectors) \ {{}}, ppn : AllPages]

LoopType ==
  /\ phase \in {"get", "lock", "translate", "write", "place", "io"}
  /\ request \in Seq(HostAccess)
  /\ map \in Seq(DiskAccess)
  /\ old_ppn \in AllPages
  /\ heartbeat \in 0 .. Threshold /\ elapsed \in 0 .. Threshold

(* What the loop has in hand in each phase, and which calls of the         *)
(* translation layer it may meet there. While the driver transfers, the    *)
(* heartbeats counted since are no more than the seconds it has taken.     *)
LoopStage ==
  /\ phase = "get" => request = << >> /\ map = << >>
  /\ phase = "lock" => request # << >> /\ map = << >>
  /\ phase = "io" => request = << >> /\ heartbeat <= elapsed
  /\ phase \in {"write", "place"} => request # << >> /\ Head(request).write
  /\ phase = "write" => IsPartial(Head(request))
  /\ phase \in {"translate", "write", "io"} => pc = "idle"
  /\ IF phase = "place" THEN pc # "idle" /\ writing = Head(request).lpn ELSE writing = NoLpn
  /\ phase \notin {"write", "place"} => old_ppn = TotalPages

(* Nothing unmaps a page that a write was translated for.                  *)
WritesMapped ==
  \A i \in DOMAIN map : map[i].write => IsMapped(map[i].lpn)

(* What holds when a host request touches one page.                        *)
OnePage ==
  /\ Len(request) + Len(map) <= 1
  /\ \A i \in DOMAIN map : map[i].ppn = ppn[map[i].lpn]

-----------------------------------------------------------------------------
(* A host request is a sequence of accesses, none of them empty.           *)

LEMMA DivFacts ==
  ASSUME NEW n \in Nat, NEW d \in Nat \ {0}
  PROVE  /\ n \div d \in Nat
         /\ (n \div d) * d <= n
         /\ n < (n \div d) * d + d
  BY SMT

LEMMA AccessesType ==
  ASSUME NEW w \in BOOLEAN,
         NEW first \in 0 .. TotalPages * SectorsPerPage - 1,
         NEW last \in 0 .. TotalPages * SectorsPerPage - 1,
         first <= last
  PROVE  /\ Accesses(w, first, last) \in Seq(HostAccess)
         /\ Accesses(w, first, last) # << >>
<1> DEFINE d == SectorsPerPage
           from == first \div d
           to == last \div d
<1>1. d \in Nat \ {0} /\ TotalPages \in Nat /\ TotalPages * d \in Nat
  BY EmulatorAssumption, ConfigFacts
<1>2. first \in Nat /\ last \in Nat /\ last < TotalPages * d
  BY <1>1
<1>3. /\ from \in Nat /\ from * d <= first /\ first < from * d + d
      /\ to \in Nat /\ to * d <= last /\ last < to * d + d
  BY <1>1, <1>2, DivFacts
<1>a. \A m, n \in Nat : m < n => m * d + d <= n * d
  <2>1. \A m, k \in Nat : (m + 1 + k) * d = m * d + d + k * d /\ k * d \in Nat
    BY <1>1
  <2> SUFFICES ASSUME NEW m \in Nat, NEW n \in Nat, m < n PROVE m * d + d <= n * d
    OBVIOUS
  <2>2. n - m - 1 \in Nat /\ n = m + 1 + (n - m - 1) /\ m * d \in Nat
    BY <1>1
  <2> DEFINE k == n - m - 1
  <2>3. k * d \in Nat /\ n * d = m * d + d + k * d
    BY <2>1, <2>2
  <2> HIDE DEF k
  <2> QED
    BY <2>2, <2>3, <1>1
<1>b. /\ from * d \in Nat /\ to * d \in Nat
  BY <1>1, <1>3
<1> HIDE DEF from, to
<1>4. from <= to
  BY <1>1, <1>2, <1>3, <1>a, <1>b
<1>5. to < TotalPages
  BY <1>1, <1>2, <1>3, <1>a, <1>b
<1>6. ASSUME NEW i \in 1 .. to - from + 1
      PROVE  Access(w, from + i - 1, first, last) \in HostAccess
  <2> DEFINE l == from + i - 1
             s0 == IF l = from THEN first - from * d ELSE 0
  <2>1. l \in Lpns /\ from <= l /\ l <= to /\ l \in Nat
    BY <1>1, <1>3, <1>4, <1>5 DEF Lpns
  <2> HIDE DEF l
  <2>2. from < l => from * d + d <= l * d
    BY <1>a, <1>3, <2>1
  <2>3. l < to => l * d + d <= to * d
    BY <1>a, <1>3, <2>1
  <2>4. l * d \in Nat
    BY <1>1, <2>1
  <2>5. s0 \in 0 .. d - 1 /\ l * d + s0 \in first .. last
    <3>1. CASE l = from
      BY <3>1, <1>1, <1>2, <1>3, <1>b
    <3>2. CASE l # from
      <4>1. first <= l * d
        BY <3>2, <2>1, <2>2, <2>4, <1>1, <1>2, <1>3, <1>b
      <4>2. l * d <= last
        BY <2>1, <2>3, <2>4, <1>1, <1>2, <1>3, <1>b
      <4> QED
        BY <3>2, <4>1, <4>2, <1>1, <1>2, <2>4
    <3> QED
      BY <3>1, <3>2
  <2> DEFINE in == {s \in Sectors : l * SectorsPerPage + s \in first .. last}
  <2>6. in # {} /\ in \in SUBSET Sectors
    BY <2>5 DEF Sectors
  <2>7. Access(w, l, first, last) = [write |-> w, lpn |-> l, sectors |-> in]
    BY DEF Access
  <2> HIDE DEF in
  <2>8. Access(w, l, first, last) \in HostAccess
    BY <2>1, <2>6, <2>7 DEF HostAccess
  <2> QED
    BY <2>8 DEF l
<1>7. Accesses(w, first, last) = [i \in 1 .. to - from + 1 |-> Access(w, from + i - 1, first, last)]
  BY DEF Accesses, from, to
<1> DEFINE n == to - from + 1
           f == [i \in 1 .. n |-> Access(w, from + i - 1, first, last)]
<1>8. n \in Nat /\ n >= 1
  BY <1>3, <1>4
<1> HIDE DEF n
<1>9. f \in Seq(HostAccess) /\ Len(f) = n
  BY <1>6, <1>8 DEF n
<1> QED
  BY <1>7, <1>8, <1>9 DEF n

-----------------------------------------------------------------------------
(* Each step of the loop or of the background thread is one of the         *)
(* translation layer's, or leaves it alone.                                *)

(* The access the loop is at, and the page of it.                          *)
LEMMA HeadAccess ==
  ASSUME LoopType, request # << >>
  PROVE  /\ Head(request) \in HostAccess /\ Head(request).lpn \in Lpns
         /\ Tail(request) \in Seq(HostAccess) /\ Len(Tail(request)) = Len(request) - 1
         /\ Len(request) \in Nat /\ Len(request) >= 1
<1>1. request \in Seq(HostAccess)
  BY DEF LoopType
<1>2. Head(request) \in HostAccess
  BY <1>1, HeadTailProperties
<1>3. Tail(request) \in Seq(HostAccess) /\ Len(Tail(request)) = Len(request) - 1
  BY <1>1, HeadTailProperties
<1>4. Len(request) \in Nat /\ Len(request) >= 1
  BY <1>1, EmptySeq, LenProperties
<1> QED
  BY <1>2, <1>3, <1>4 DEF HostAccess

LEMMA StepOfLayer ==
  ASSUME LoopType, LoopStage, [ENext]_emuVars
  PROVE  [Next]_vars
<1>1. CASE GetRequest
  BY <1>1 DEF GetRequest
<1>2. CASE Acquire \/ SetPpn \/ EndRequest
  BY <1>2 DEF Acquire, SetPpn, EndRequest
<1>3. CASE TranslateRead
  BY <1>3, HeadAccess DEF TranslateRead, Next
<1>4. CASE ReadOld
  BY <1>4, HeadAccess DEF ReadOld, Next
<1>5. CASE StartWrite
  BY <1>5, HeadAccess DEF StartWrite, LoopStage, Next
<1>6. CASE FinishWrite
  BY <1>6 DEF FinishWrite, Next
<1>7. CASE Transfer \/ Beat
  BY <1>7 DEF Transfer, Beat
<1>8. CASE CollectMove \/ CollectRest
  BY <1>8 DEF CollectMove, CollectRest, Next, ForceGcStep
<1>9. CASE BackgroundGc
  BY <1>9 DEF BackgroundGc, Next
<1>10. CASE UNCHANGED emuVars
  BY <1>10 DEF emuVars
<1> QED
  BY <1>1, <1>2, <1>3, <1>4, <1>5, <1>6, <1>7, <1>8, <1>9, <1>10 DEF ENext, LoopStep

(* The entries of the table and the page the next write goes to.           *)
LEMMA TablePages ==
  ASSUME BlockInv
  PROVE  /\ ppn \in [Lpns -> AllPages]
         /\ \A l \in Lpns : IsMapped(l) => ppn[l] \in Pages
         /\ free_block # << >> => NextPage \in Pages
<1>1. NumberOfBlocks * PagesPerBlock \in Nat
  BY ConfigFacts
<1>2. /\ ppn \in [Lpns -> 0 .. NumberOfBlocks * PagesPerBlock] /\ clean \in [Blocks -> Counter]
      /\ block \in [Lpns -> Blocks \cup {NoBlock}]
  BY DEF BlockInv, TypeBlocks
<1>3. ASSUME NEW l \in Lpns, IsMapped(l)
      PROVE  ppn[l] \in Pages
  <2> DEFINE high == (block[l] + 1) * PagesPerBlock
  <2>1. block[l] \in Blocks /\ ppn[l] \in Nat /\ ppn[l] < high - clean[block[l]]
    BY <1>1, <1>2, <1>3 DEF BlockInv, MappingConsistent, IsMapped
  <2>2. clean[block[l]] \in Nat
    BY <1>2, <2>1, PageCount DEF Counter
  <2>3. high \in Int /\ high <= NumberOfBlocks * PagesPerBlock
    BY <2>1, PageNumbers, PageCount
  <2> HIDE DEF high
  <2> QED
    BY <1>1, <2>1, <2>2, <2>3 DEF Pages
<1>4. ASSUME NEW l \in Lpns, ~IsMapped(l)
      PROVE  ppn[l] = TotalPages
  BY <1>4 DEF BlockInv, MappingConsistent
<1>5. ppn \in [Lpns -> AllPages]
  BY <1>2, <1>3, <1>4 DEF AllPages
<1>6. ASSUME free_block # << >>
      PROVE  NextPage \in Pages
  <2> DEFINE b == Head(free_block)
             high == (b + 1) * PagesPerBlock
  <2>1. /\ b \in Blocks /\ clean[b] \in 1 .. PagesPerBlock
        /\ NextPage < high - (clean[b] - 1) /\ NextPage \in 0 .. NumberOfBlocks * PagesPerBlock
    BY <1>6, HeadOfFree
  <2>2. high \in Int /\ high <= NumberOfBlocks * PagesPerBlock
    BY <2>1, PageNumbers, PageCount
  <2> HIDE DEF b, high
  <2> QED
    BY <1>1, <2>1, <2>2, PageCount DEF Pages
<1> QED
  BY <1>3, <1>5, <1>6

(* Writing a page maps it and unmaps none.                                 *)
LEMMA WriteMaps ==
  ASSUME BlockInv, NEW l \in Lpns, WriteWithoutGC(l)
  PROVE  /\ IsMapped(l)'
         /\ \A k \in Lpns : IsMapped(k) => IsMapped(k)'
         /\ NextPage \in AllPages /\ NextPage \in Pages
         /\ ppn' = [ppn EXCEPT ![l] = NextPage]
         /\ ppn'[l] = NextPage
         /\ \A k \in Lpns : k # l => ppn'[k] = ppn[k]
<1>1. free_block # << >> /\ block' = [block EXCEPT ![l] = Head(free_block)]
      /\ ppn' = [ppn EXCEPT ![l] = NextPage]
  BY DEF WriteWithoutGC
<1>2. Head(free_block) \in Blocks /\ NextPage \in AllPages /\ NextPage \in Pages
  BY <1>1, HeadOfFree, TablePages DEF AllPages
<1>3. block \in [Lpns -> Blocks \cup {NoBlock}] /\ ppn \in [Lpns -> 0 .. NumberOfBlocks * PagesPerBlock]
  BY DEF BlockInv, TypeBlocks
<1>4. NoBlock \notin Blocks
  BY ConfigFacts
<1> QED
  BY <1>1, <1>2, <1>3, <1>4 DEF IsMapped

(* A step that leaves the table alone keeps what is mapped.                *)
LEMMA TableKept ==
  ASSUME WritesMapped, UNCHANGED <<tableVars, map>>
  PROVE  WritesMapped'
  BY DEF WritesMapped, IsMapped, tableVars

-----------------------------------------------------------------------------
(* The translation of an access joins the map.                             *)

LEMMA Joined ==
  ASSUME LoopType, NEW a \in HostAccess, NEW p \in AllPages
  PROVE  /\ Translated(a, p) \in Seq(DiskAccess)
         /\ Len(Translated(a, p)) = Len(map) + 1
         /\ DOMAIN Translated(a, p) = 1 .. Len(map) + 1
         /\ \A i \in DOMAIN map : Translated(a, p)[i] = map[i]
         /\ Translated(a, p)[Len(map) + 1] =
              [write |-> a.write, lpn |-> a.lpn, sectors |-> a.sectors, ppn |-> p]
         /\ Len(map) \in Nat /\ DOMAIN map = 1 .. Len(map)
<1> DEFINE e == [write |-> a.write, lpn |-> a.lpn, sectors |-> a.sectors, ppn |-> p]
<1>1. e \in DiskAccess
  BY DEF HostAccess, DiskAccess
<1>2. map \in Seq(DiskAccess)
  BY DEF LoopType
<1> HIDE DEF e
<1>3. /\ Append(map, e) \in Seq(DiskAccess) /\ Len(Append(map, e)) = Len(map) + 1
      /\ \A i \in 1 .. Len(map) : Append(map, e)[i] = map[i]
      /\ Append(map, e)[Len(map) + 1] = e
  BY <1>1, <1>2, AppendProperties
<1>4. Translated(a, p) = Append(map, e)
  BY DEF Translated, e
<1>5. Len(map) \in Nat /\ DOMAIN map = 1 .. Len(map)
  BY <1>2, LenProperties
<1>6. DOMAIN Append(map, e) = 1 .. Len(map) + 1
  BY <1>3, LenProperties
<1> QED
  BY <1>3, <1>4, <1>5, <1>6 DEF e

(* The first one of a request.                                             *)
LEMMA JoinedFirst ==
  ASSUME map = << >>, NEW a, NEW p
  PROVE  /\ DOMAIN Translated(a, p) = {1} /\ Len(Translated(a, p)) = 1
         /\ Translated(a, p)[1] =
              [write |-> a.write, lpn |-> a.lpn, sectors |-> a.sectors, ppn |-> p]
<1> DEFINE e == [write |-> a.write, lpn |-> a.lpn, sectors |-> a.sectors, ppn |-> p]
<1>1. Translated(a, p) = Append(<< >>, e)
  BY DEF Translated
<1> HIDE DEF e
<1>2. Append(<< >>, e) = << e >>
  OBVIOUS
<1>3. DOMAIN << e >> = {1} /\ Len(<< e >>) = 1 /\ << e >>[1] = e
  OBVIOUS
<1> QED
  BY <1>1, <1>2, <1>3 DEF e

(* The first access of the map is performed.                               *)
LEMMA HeadPerformed ==
  ASSUME LoopType, map # << >>
  PROVE  /\ Head(map) \in DiskAccess /\ Head(map) = map[1] /\ 1 \in DOMAIN map
         /\ Tail(map) \in Seq(DiskAccess) /\ Len(Tail(map)) = Len(map) - 1
         /\ \A i \in DOMAIN Tail(map) : i + 1 \in DOMAIN map /\ Tail(map)[i] = map[i + 1]
         /\ Len(map) \in Nat /\ Len(map) >= 1
<1>1. map \in Seq(DiskAccess)
  BY DEF LoopType
<1>2. Len(map) \in Nat /\ Len(map) >= 1 /\ DOMAIN map = 1 .. Len(map) /\ Head(map) = map[1]
  BY <1>1, EmptySeq, LenProperties
<1>3. /\ Tail(map) \in Seq(DiskAccess) /\ Len(Tail(map)) = Len(map) - 1
      /\ Head(map) \in DiskAccess
      /\ \A i \in 1 .. Len(Tail(map)) : Tail(map)[i] = map[i + 1]
  BY <1>1, HeadTailProperties
<1>4. DOMAIN Tail(map) = 1 .. Len(map) - 1
  BY <1>3, LenProperties
<1> QED
  BY <1>2, <1>3, <1>4

-----------------------------------------------------------------------------
(* The steps of the loop keep its invariant, one lemma for each kind.      *)

LoopInv == LoopType /\ LoopStage /\ WritesMapped

LEMMA ThresholdNat == Threshold \in Nat /\ Threshold >= 1
  BY EmulatorAssumption

(* The host's next request.                                                *)
LEMMA GetRequestInv ==
  ASSUME LoopInv, GetRequest
  PROVE  LoopInv' /\ Len(request') <= MaxPages /\ UNCHANGED <<vars, map>>
<1>1. PICK w \in BOOLEAN, first \in 0 .. TotalPages * SectorsPerPage - 1,
           last \in 0 .. TotalPages * SectorsPerPage - 1 :
        /\ first <= last
        /\ Len(Accesses(w, first, last)) <= MaxPages
        /\ request' = Accesses(w, first, last)
  BY DEF GetRequest
<1>2. request' \in Seq(HostAccess) /\ request' # << >> /\ Len(request') <= MaxPages
  BY <1>1, AccessesType
<1>3. /\ phase = "get" /\ phase' = "lock"
      /\ UNCHANGED <<vars, map, old_ppn, timeVars>>
  BY DEF GetRequest
<1>4. LoopType'
  BY <1>2, <1>3 DEF LoopInv, LoopType, timeVars
<1>5. LoopStage'
  BY <1>2, <1>3 DEF LoopInv, LoopStage, vars, callVars
<1>6. WritesMapped'
  BY <1>3, TableKept DEF LoopInv, vars
<1> QED
  BY <1>2, <1>3, <1>4, <1>5, <1>6 DEF LoopInv

(* The steps that only change the phase or start a host write.             *)
LEMMA PhaseInv ==
  ASSUME LoopInv, Acquire \/ ReadOld \/ StartWrite \/ SetPpn \/ EndRequest,
         ppn \in [Lpns -> AllPages]
  PROVE  LoopInv' /\ UNCHANGED <<blockVars, tableVars, request, map>>
<1>0. LoopType /\ LoopStage /\ WritesMapped
  BY DEF LoopInv
<1>1. UNCHANGED <<blockVars, tableVars, request, map>>
  BY DEF Acquire, ReadOld, StartWrite, SetPpn, EndRequest, Read, Write, vars
<1>2. WritesMapped'
  BY <1>0, <1>1, TableKept
<1>3. LoopType' /\ LoopStage'
  <2>1. CASE Acquire
    BY <2>1, <1>0 DEF Acquire, LoopType, LoopStage, vars, callVars, timeVars
  <2>2. CASE ReadOld
    <3>1. request # << >> /\ Head(request).lpn \in Lpns /\ Head(request).write
      BY <2>2, <1>0, HeadAccess DEF ReadOld, IsPartial
    <3>2. /\ phase = "translate" /\ phase' = "write" /\ IsPartial(Head(request))
          /\ pc = "idle" /\ UNCHANGED <<callVars, request, map, timeVars>>
          /\ old_ppn' = ppn[Head(request).lpn]
      BY <2>2 DEF ReadOld, Read
    <3>3. LoopType'
      BY <3>1, <3>2, <1>0 DEF LoopType, timeVars
    <3> QED
      BY <3>1, <3>2, <3>3, <1>0 DEF LoopStage, callVars, IsPartial
  <2>3. CASE StartWrite
    <3>1. request # << >> /\ Head(request).lpn \in Lpns /\ Head(request).write
      BY <2>3, <1>0, HeadAccess DEF StartWrite, LoopStage
    <3>2. /\ phase' = "place" /\ pc' # "idle" /\ writing' = Head(request).lpn
          /\ UNCHANGED <<request, map, old_ppn, timeVars>>
      BY <2>3 DEF StartWrite, Write
    <3>3. LoopType'
      BY <3>2, <1>0 DEF LoopType, timeVars
    <3> QED
      BY <3>1, <3>2, <3>3, <1>0 DEF LoopStage
  <2>4. CASE SetPpn
    BY <2>4, <1>0, ThresholdNat DEF SetPpn, LoopType, LoopStage, vars, callVars
  <2>5. CASE EndRequest
    BY <2>5, <1>0, ThresholdNat DEF EndRequest, LoopType, LoopStage, vars, callVars
  <2> QED
    BY <2>1, <2>2, <2>3, <2>4, <2>5
<1> QED
  BY <1>1, <1>2, <1>3 DEF LoopInv

(* A read is translated.                                                   *)
LEMMA TranslateReadInv ==
  ASSUME LoopInv, TranslateRead, ppn \in [Lpns -> AllPages]
  PROVE  /\ LoopInv' /\ request # << >>
         /\ UNCHANGED <<blockVars, tableVars>> /\ ~Head(request).write
         /\ map' = Translated(Head(request), ppn[Head(request).lpn])
         /\ request' = Tail(request)
<1>0. LoopType /\ LoopStage /\ WritesMapped
  BY DEF LoopInv
<1> DEFINE a == Head(request)
           p == ppn[a.lpn]
<1>1. /\ phase = "translate" /\ request # << >> /\ ~a.write /\ pc = "idle"
      /\ UNCHANGED <<blockVars, tableVars, callVars, phase, old_ppn, timeVars>>
      /\ map' = Translated(a, p) /\ request' = Tail(request)
  BY DEF TranslateRead, Read
<1>2. a \in HostAccess /\ a.lpn \in Lpns /\ request' \in Seq(HostAccess) /\ p \in AllPages
  BY <1>0, <1>1, HeadAccess
<1> HIDE DEF a, p
<1>3. /\ map' \in Seq(DiskAccess) /\ DOMAIN map' = 1 .. Len(map) + 1
      /\ \A i \in DOMAIN map : map'[i] = map[i]
      /\ map'[Len(map) + 1] = [write |-> a.write, lpn |-> a.lpn, sectors |-> a.sectors, ppn |-> p]
      /\ Len(map) \in Nat /\ DOMAIN map = 1 .. Len(map)
  BY <1>0, <1>1, <1>2, Joined
<1>4. LoopType'
  BY <1>0, <1>1, <1>2, <1>3 DEF LoopType, timeVars
<1>5. LoopStage'
  BY <1>0, <1>1 DEF LoopStage, callVars
<1>6. ~map'[Len(map) + 1].write
  BY <1>1, <1>3
<1>7. WritesMapped'
  BY <1>0, <1>1, <1>3, <1>6 DEF WritesMapped, IsMapped, tableVars
<1> QED
  BY <1>1, <1>4, <1>5, <1>7 DEF LoopInv, a, p

(* A write is placed and translated.                                       *)
LEMMA FinishWriteInv ==
  ASSUME LoopInv, BlockInv, FinishWrite
  PROVE  /\ LoopInv' /\ request # << >> /\ Head(request).write
         /\ Head(request).lpn = writing /\ writing \in Lpns
         /\ WriteWithoutGC(writing)
         /\ map' = Translated(Head(request), NextPage)
         /\ request' = Tail(request)
<1>0. LoopType /\ LoopStage /\ WritesMapped
  BY DEF LoopInv
<1> DEFINE a == Head(request)
<1>1. /\ phase = "place" /\ phase' = "translate" /\ pc' = "idle" /\ writing' = NoLpn
      /\ WriteWithoutGC(writing) /\ old_ppn' = TotalPages
      /\ map' = Translated(a, NextPage) /\ request' = Tail(request) /\ UNCHANGED timeVars
  BY DEF FinishWrite, WriteData
<1>2. request # << >> /\ a.write /\ a.lpn = writing
  BY <1>0, <1>1 DEF LoopStage
<1>3. a \in HostAccess /\ writing \in Lpns /\ request' \in Seq(HostAccess)
  BY <1>0, <1>1, <1>2, HeadAccess
<1>4. /\ NextPage \in AllPages /\ block'[writing] # NoBlock
      /\ \A k \in Lpns : IsMapped(k) => block'[k] # NoBlock
  BY <1>1, <1>3, WriteMaps DEF IsMapped
<1> HIDE DEF a
<1>5. /\ map' \in Seq(DiskAccess) /\ DOMAIN map' = 1 .. Len(map) + 1
      /\ \A i \in DOMAIN map : map'[i] = map[i]
      /\ map'[Len(map) + 1] = [write |-> a.write, lpn |-> a.lpn, sectors |-> a.sectors, ppn |-> NextPage]
      /\ Len(map) \in Nat /\ DOMAIN map = 1 .. Len(map)
  BY <1>0, <1>1, <1>3, <1>4, Joined
<1>6. TotalPages \in AllPages
  BY DEF AllPages
<1>7. LoopType'
  BY <1>0, <1>1, <1>3, <1>5, <1>6 DEF LoopType, timeVars
<1>8. LoopStage'
  BY <1>0, <1>1 DEF LoopStage
<1>9. ASSUME NEW i \in DOMAIN map', map'[i].write
      PROVE  block'[map'[i].lpn] # NoBlock
  <2>1. CASE i \in DOMAIN map
    <3>1. map'[i] = map[i] /\ map[i].write
      BY <2>1, <1>5, <1>9
    <3>2. map[i] \in DiskAccess
      BY <2>1, <1>0 DEF LoopType
    <3>3. map[i].lpn \in Lpns /\ IsMapped(map[i].lpn)
      BY <2>1, <3>1, <3>2, <1>0 DEF WritesMapped, DiskAccess
    <3> QED
      BY <3>1, <3>3, <1>4 DEF IsMapped
  <2>2. CASE i = Len(map) + 1
    BY <2>2, <1>2, <1>4, <1>5 DEF IsMapped
  <2> QED
    BY <2>1, <2>2, <1>5, <1>9
<1>10. WritesMapped'
  BY <1>9 DEF WritesMapped, IsMapped
<1> QED
  BY <1>1, <1>2, <1>3, <1>7, <1>8, <1>10 DEF LoopInv, a

(* The driver performs an access.                                          *)
LEMMA TransferInv ==
  ASSUME LoopInv, Transfer
  PROVE  /\ LoopInv' /\ map # << >> /\ map' = Tail(map) /\ request = << >>
         /\ UNCHANGED <<vars, request>>
<1>0. LoopType /\ LoopStage /\ WritesMapped
  BY DEF LoopInv
<1>1. /\ phase = "io" /\ map # << >> /\ map' = Tail(map)
      /\ UNCHANGED <<vars, phase, request, old_ppn, timeVars>>
  BY DEF Transfer
<1>2. /\ map' \in Seq(DiskAccess)
      /\ \A i \in DOMAIN map' : i + 1 \in DOMAIN map /\ map'[i] = map[i + 1]
  BY <1>0, <1>1, HeadPerformed
<1>3. LoopType'
  BY <1>0, <1>1, <1>2 DEF LoopType, timeVars
<1>4. LoopStage' /\ request = << >>
  BY <1>0, <1>1 DEF LoopStage, vars, callVars, timeVars
<1>5. WritesMapped'
  BY <1>0, <1>1, <1>2 DEF WritesMapped, IsMapped, vars, tableVars
<1> QED
  BY <1>1, <1>3, <1>4, <1>5 DEF LoopInv

(* The collector copies a page: no host write is being placed, and the     *)
(* driver is not transferring.                                             *)
LEMMA CollectMoveInv ==
  ASSUME LoopInv, StateInv, CollectMove
  PROVE  /\ LoopInv' /\ phase \in {"get", "lock", "place"} /\ pc = "rewrite"
         /\ todo # << >> /\ Head(todo) \in Lpns /\ WriteWithoutGC(Head(todo))
         /\ UNCHANGED <<request, map, phase, old_ppn, writing>>
<1>0. LoopType /\ LoopStage /\ WritesMapped /\ BlockInv /\ MoveConsistent /\ TypeCall
  BY DEF LoopInv, StateInv
<1>1. /\ pc = "rewrite" /\ WriteWithoutGC(Head(todo)) /\ pc' = "move"
      /\ UNCHANGED <<writing, loopVars, timeVars>>
  BY DEF CollectMove, MoveWrite
<1>2. todo # << >> /\ todo \in Seq(Lpns)
  BY <1>0, <1>1 DEF MoveConsistent, TypeCall
<1>3. Head(todo) \in Lpns
  BY <1>2, HeadTailProperties
<1>4. \A k \in Lpns : IsMapped(k) => IsMapped(k)'
  BY <1>0, <1>1, <1>3, WriteMaps
<1>5. UNCHANGED <<request, map, phase, old_ppn>>
  BY <1>1 DEF loopVars
<1>6. phase \in {"get", "lock", "place"}
  BY <1>0, <1>1 DEF LoopStage, LoopType
<1>7. LoopType'
  BY <1>0, <1>1, <1>5 DEF LoopType, timeVars
<1>8. LoopStage'
  BY <1>0, <1>1, <1>5 DEF LoopStage, timeVars
<1>9. \A i \in DOMAIN map : map[i].lpn \in Lpns
  <2>1. \A i \in DOMAIN map : map[i] \in DiskAccess
    BY <1>0 DEF LoopType
  <2> QED
    BY <2>1 DEF DiskAccess
<1>10. WritesMapped'
  BY <1>0, <1>4, <1>5, <1>9 DEF WritesMapped, IsMapped
<1> QED
  BY <1>1, <1>2, <1>3, <1>5, <1>6, <1>7, <1>8, <1>10 DEF LoopInv

(* The other steps of a collection.                                        *)
LEMMA CollectRestInv ==
  ASSUME LoopInv, StateInv, CollectRest
  PROVE  /\ LoopInv' /\ phase \in {"get", "lock", "place"}
         /\ pc # "write"
         /\ pc' # "write" => UNCHANGED clean \/ pc' = "idle"
         /\ pc' = "idle" => phase # "place"
         /\ UNCHANGED <<tableVars, request, map, phase, old_ppn, writing>>
<1>0. LoopType /\ LoopStage /\ WritesMapped /\ MoveConsistent /\ TypeCall
  BY DEF LoopInv, StateInv
<1>1. UNCHANGED <<tableVars, writing, request, map, phase, old_ppn, heartbeat, elapsed>>
  BY DEF CollectRest, ForceGc, MoveRead, MoveDone, EraseBlock, loopVars, timeVars
<1>2. /\ pc \notin {"idle", "write"}
      /\ \/ pc' \notin {"idle", "write"} /\ UNCHANGED clean
         \/ pc' = IF writing = NoLpn THEN "idle" ELSE "write"
  BY DEF CollectRest, ForceGc, MoveRead, MoveDone, EraseBlock, blockVars
<1>3. phase \in {"get", "lock", "place"}
  BY <1>0, <1>2 DEF LoopStage, LoopType
<1>4. phase = "place" => writing \in Lpns /\ writing # NoLpn
  <2>1. ASSUME phase = "place"
        PROVE  writing \in Lpns
    BY <2>1, <1>0, HeadAccess DEF LoopStage
  <2> QED
    BY <2>1, ConfigFacts
<1>5. LoopType'
  BY <1>0, <1>1 DEF LoopType
<1>6. LoopStage'
  BY <1>0, <1>1, <1>2, <1>3, <1>4 DEF LoopStage
<1>7. WritesMapped'
  BY <1>0, <1>1, TableKept
<1> QED
  BY <1>1, <1>2, <1>3, <1>4, <1>5, <1>6, <1>7 DEF LoopInv

(* A heartbeat, with or without a collection: none starts while the driver *)
(* transfers, since the count was reset when the request was handed over.  *)
LEMMA TimeInv ==
  ASSUME LoopInv, Beat \/ BackgroundGc
  PROVE  /\ LoopInv'
         /\ UNCHANGED <<blockVars, tableVars, writing, request, map, phase, old_ppn>>
         /\ phase \in {"write", "place"} => FALSE
<1>0. LoopType /\ LoopStage /\ WritesMapped
  BY DEF LoopInv
<1>1. /\ IsUnlocked /\ InTime /\ Elapse
      /\ UNCHANGED <<blockVars, tableVars, writing, request, map, phase, old_ppn>>
  BY DEF Beat, BackgroundGc, Gc, vars, loopVars, callVars
<1>2. heartbeat \in Nat /\ elapsed \in Nat /\ Threshold \in Nat
  BY <1>0, ThresholdNat DEF LoopType
<1>3. phase = "io" => heartbeat <= elapsed /\ elapsed + 1 < Threshold
  BY <1>0, <1>1 DEF LoopStage, InTime
<1>4. heartbeat' \in 0 .. Threshold /\ elapsed' \in 0 .. Threshold
  <2>1. elapsed' \in 0 .. Threshold
    BY <1>1, <1>2, <1>3 DEF Elapse
  <2>2. heartbeat' \in 0 .. Threshold
    BY <1>2 DEF Beat, BackgroundGc
  <2> QED
    BY <2>1, <2>2
<1>5. phase = "io" => heartbeat' <= elapsed' /\ UNCHANGED pc
  <2>1. CASE Beat
    BY <2>1, <1>1, <1>2, <1>3 DEF Beat, Elapse, vars, callVars
  <2>2. CASE BackgroundGc
    BY <2>2, <1>1, <1>2, <1>3 DEF BackgroundGc
  <2> QED
    BY <2>1, <2>2
<1>6. LoopType'
  BY <1>0, <1>1, <1>4 DEF LoopType
<1>7. LoopStage'
  BY <1>0, <1>1, <1>5 DEF LoopStage, IsUnlocked
<1>8. WritesMapped'
  BY <1>0, <1>1, TableKept
<1> QED
  BY <1>1, <1>6, <1>7, <1>8 DEF LoopInv, IsUnlocked

-----------------------------------------------------------------------------
(* The invariant of the loop.                                              *)

EInv == StateInv /\ LoopInv

LEMMA InitLoop == EInit => EInv
<1> SUFFICES ASSUME EInit PROVE EInv
  OBVIOUS
<1>1. /\ Init /\ phase = "get" /\ request = << >> /\ map = << >> /\ old_ppn = TotalPages
      /\ heartbeat = 0 /\ elapsed = 0
  BY DEF EInit
<1>2. StateInv
  BY <1>1, InitState
<1>3. TotalPages \in AllPages
  BY DEF AllPages
<1>4. LoopType
  BY <1>1, <1>3, ThresholdNat DEF LoopType
<1>5. LoopStage
  BY <1>1 DEF LoopStage, Init
<1>6. WritesMapped
  BY <1>1 DEF WritesMapped
<1> QED
  BY <1>2, <1>4, <1>5, <1>6 DEF EInv, LoopInv

LEMMA NextLoop == EInv /\ [ENext]_emuVars => EInv'
<1> SUFFICES ASSUME EInv, [ENext]_emuVars PROVE EInv'
  OBVIOUS
<1>1. /\ StateInv /\ LoopInv /\ BlockInv /\ LoopType /\ LoopStage
      /\ ppn \in [Lpns -> AllPages]
  BY TablePages DEF EInv, LoopInv, StateInv
<1>2. StateInv'
  BY <1>1, StepOfLayer, NextState
<1>3. LoopInv'
  <2>1. CASE UNCHANGED emuVars
    BY <2>1, <1>1 DEF emuVars, loopVars, timeVars, vars, callVars, tableVars, LoopInv,
                     LoopType, LoopStage, WritesMapped, IsMapped
  <2>2. CASE LoopStep
    BY <2>2, <1>1, PhaseInv, TranslateReadInv DEF LoopStep
  <2> QED
    BY <2>1, <2>2, <1>1, GetRequestInv, FinishWriteInv, TransferInv, CollectMoveInv,
       CollectRestInv, TimeInv DEF ENext
<1> QED
  BY <1>2, <1>3 DEF EInv

THEOREM LoopInvariant == ESpec => []EInv
<1>1. EInit => EInv
  BY InitLoop
<1>2. EInv /\ [ENext]_emuVars => EInv'
  BY NextLoop
<1> QED
  BY <1>1, <1>2, PTL DEF ESpec

(* The loop and the background thread use the translation layer as its     *)
(* interface allows: what DFTL promises, it promises here.                 *)
THEOREM UsesLayer == ESpec => Spec
<1>1. EInit => Init
  BY DEF EInit
<1>2. EInv /\ [ENext]_emuVars => [Next]_vars
  BY StepOfLayer DEF EInv, LoopInv
<1> QED
  BY <1>1, <1>2, LoopInvariant, PTL DEF ESpec, Spec

(* With two reserve blocks neither the loop nor the background thread ever *)
(* takes the head of an empty list.                                        *)
THEOREM ApplicationNeverEmpty ==
  ASSUME ReserveBlocks >= 2
  PROVE  ESpec => []HeadsExist
<1>1. ESpec => Spec
  BY UsesLayer
<1>2. Spec => []HeadsExist
  BY NoEmptyList
<1> QED
  BY <1>1, <1>2, PTL

LEMMA ReserveIsPages ==
  ASSUME ReserveBlocks >= 1
  PROVE  TotalPages \in Pages
<1>1. /\ NumberOfBlocks \in Nat /\ PagesPerBlock \in Nat /\ PagesPerBlock >= 1
      /\ ReserveBlocks \in Nat
  BY ConfigAssumption, PageCount
<1>2. (NumberOfBlocks - ReserveBlocks) * PagesPerBlock
        = NumberOfBlocks * PagesPerBlock - ReserveBlocks * PagesPerBlock
  BY <1>1
<1>3. ReserveBlocks * PagesPerBlock >= PagesPerBlock
  <2>1. \A r, p \in Nat : (r + 1) * p = r * p + p /\ r * p \in Nat
    OBVIOUS
  <2>2. ReserveBlocks - 1 \in Nat /\ ReserveBlocks = (ReserveBlocks - 1) + 1
    BY <1>1
  <2> DEFINE r == ReserveBlocks - 1
  <2>3. ReserveBlocks * PagesPerBlock = r * PagesPerBlock + PagesPerBlock
    BY <2>1, <2>2, <1>1
  <2>4. r * PagesPerBlock \in Nat
    BY <2>1, <2>2, <1>1
  <2> HIDE DEF r
  <2> QED
    BY <2>3, <2>4, <1>1
<1>4. NumberOfBlocks * PagesPerBlock \in Nat /\ ReserveBlocks * PagesPerBlock \in Nat
  BY <1>1
<1>5. TotalPages = NumberOfBlocks * PagesPerBlock - ReserveBlocks * PagesPerBlock /\ TotalPages \in Nat
  BY <1>2, ConfigFacts DEF TotalPages
<1> QED
  BY <1>1, <1>3, <1>4, <1>5 DEF Pages

(* The types of the loop's state, with at least one reserve block: the     *)
(* number that stands for an unmapped page is then that of a real one.     *)
THEOREM LoopTypeCorrect ==
  ASSUME ReserveBlocks >= 1
  PROVE  ESpec => []ETypeOK
<1>1. EInv => ETypeOK
  <2> SUFFICES ASSUME EInv PROVE ETypeOK
    OBVIOUS
  <2>1. LoopType /\ LoopStage /\ BlockInv
    BY DEF EInv, LoopInv, StateInv
  <2>2. \A i \in DOMAIN request : request[i] \in HostAccess
    BY <2>1 DEF LoopType
  <2>3. \A i \in DOMAIN map : map[i] \in DiskAccess
    BY <2>1 DEF LoopType
  <2>4. AllPages \subseteq Pages
    BY ReserveIsPages DEF AllPages
  <2> QED
    BY <2>1, <2>2, <2>3, <2>4 DEF ETypeOK, LoopType, HostAccess, DiskAccess
<1> QED
  BY <1>1, LoopInvariant, PTL

(* While the driver transfers nothing moves: the background thread cannot  *)
(* reach its threshold before a transfer that is in time is over. This is  *)
(* so for a request of any size.                                           *)
TransfersUndisturbed ==
  [][phase = "io" => UNCHANGED <<blockVars, tableVars>>]_emuVars

THEOREM CollectionWaits == ESpec => TransfersUndisturbed
<1> DEFINE Still == phase = "io" => UNCHANGED <<blockVars, tableVars>>
<1>1. EInv /\ [ENext]_emuVars => Still
  <2> SUFFICES ASSUME EInv, [ENext]_emuVars, phase = "io"
               PROVE  UNCHANGED <<blockVars, tableVars>>
    OBVIOUS
  <2>1. StateInv /\ LoopInv /\ LoopType /\ LoopStage /\ ppn \in [Lpns -> AllPages]
    BY TablePages DEF EInv, LoopInv, StateInv
  <2>2. CASE UNCHANGED emuVars
    BY <2>2 DEF emuVars, vars
  <2>3. CASE GetRequest \/ FinishWrite \/ CollectMove \/ CollectRest
    BY <2>3, <2>1, CollectMoveInv, CollectRestInv DEF GetRequest, FinishWrite
  <2>4. CASE LoopStep
    BY <2>4, <2>1, PhaseInv, TranslateReadInv DEF LoopStep
  <2>5. CASE Transfer
    BY <2>5, <2>1, TransferInv DEF vars
  <2>6. CASE Beat \/ BackgroundGc
    BY <2>6, <2>1, TimeInv
  <2> QED
    BY <2>2, <2>3, <2>4, <2>5, <2>6 DEF ENext
<1> QED
  BY <1>1, LoopInvariant, PTL DEF ESpec, TransfersUndisturbed

-----------------------------------------------------------------------------
(* Requests of one page.                                                   *)

LEMMA OnePageInit == EInit => OnePage
  BY DEF EInit, OnePage

LEMMA OnePageNext ==
  ASSUME MaxPages = 1, EInv, OnePage, [ENext]_emuVars
  PROVE  OnePage'
<1>1. /\ StateInv /\ LoopInv /\ LoopType /\ LoopStage /\ BlockInv
      /\ ppn \in [Lpns -> AllPages]
  BY TablePages DEF EInv, LoopInv, StateInv
<1>2. /\ Len(request) \in Nat /\ Len(map) \in Nat /\ Len(request) + Len(map) <= 1
      /\ request # << >> => Len(request) = 1 /\ map = << >>
      /\ map # << >> => Len(map) = 1 /\ request = << >>
  <2>1. request \in Seq(HostAccess) /\ map \in Seq(DiskAccess)
    BY <1>1 DEF LoopType
  <2>2. Len(request) \in Nat /\ Len(map) \in Nat
    BY <2>1, LenProperties
  <2>3. (request = << >> <=> Len(request) = 0) /\ (map = << >> <=> Len(map) = 0)
    <3>1. \A S : \A q \in Seq(S) : q = << >> <=> Len(q) = 0
      OBVIOUS
    <3> QED
      BY <3>1, <2>1
  <2>4. Len(request) + Len(map) <= 1
    BY DEF OnePage
  <2> DEFINE n == Len(request)
             m == Len(map)
  <2>5. n \in Nat /\ m \in Nat /\ n + m <= 1
    BY <2>2, <2>4
  <2> HIDE DEF n, m
  <2>6. (n # 0 => n = 1 /\ m = 0) /\ (m # 0 => m = 1 /\ n = 0)
    BY <2>5
  <2> QED
    BY <2>3, <2>5, <2>6, Zenon DEF n, m
<1>a. Len(<< >>) = 0 /\ DOMAIN << >> = {}
  OBVIOUS
<1>3. CASE UNCHANGED emuVars
  BY <1>3 DEF emuVars, loopVars, vars, tableVars, OnePage
<1>4. CASE GetRequest
  <2>1. Len(request') <= 1 /\ UNCHANGED <<ppn, map>> /\ map = << >> /\ LoopInv'
    BY <1>1, <1>4, GetRequestInv DEF vars, tableVars, GetRequest, LoopStage
  <2>2. Len(request') \in Nat
    BY <2>1, LenProperties DEF LoopInv, LoopType
  <2> QED
    BY <2>1, <2>2, <1>2 DEF OnePage
<1>5. CASE Acquire \/ ReadOld \/ StartWrite \/ SetPpn \/ EndRequest
  BY <1>1, <1>5, PhaseInv DEF OnePage, tableVars
<1>6. CASE TranslateRead
  <2>1. /\ request # << >> /\ UNCHANGED ppn
        /\ map' = Translated(Head(request), ppn[Head(request).lpn]) /\ request' = Tail(request)
    BY <1>1, <1>6, TranslateReadInv DEF tableVars
  <2>2. /\ Head(request) \in HostAccess /\ ppn[Head(request).lpn] \in AllPages
        /\ Len(request') = 0 /\ Len(map) = 0
    BY <2>1, <1>1, <1>2, HeadAccess
  <2>3. DOMAIN map' = {1} /\ Len(map') = 1 /\ map'[1].ppn = ppn[map'[1].lpn]
    <3>1. PICK a \in HostAccess : a = Head(request)
      BY <2>2
    <3>2. PICK p \in AllPages : p = ppn[a.lpn]
      BY <2>2, <3>1
    <3>3. map' = Translated(a, p)
      BY <2>1, <3>1, <3>2
    <3>4. /\ DOMAIN map' = {1} /\ Len(map') = 1
          /\ map'[1] = [write |-> a.write, lpn |-> a.lpn, sectors |-> a.sectors, ppn |-> p]
      BY <2>1, <1>2, <3>3, JoinedFirst
    <3> QED
      BY <3>2, <3>4
  <2> QED
    BY <2>1, <2>2, <2>3 DEF OnePage
<1>7. CASE FinishWrite
  <2>1. /\ request # << >> /\ Head(request).lpn = writing
        /\ writing \in Lpns /\ WriteWithoutGC(writing)
        /\ map' = Translated(Head(request), NextPage) /\ request' = Tail(request)
    BY <1>1, <1>7, FinishWriteInv
  <2>2. NextPage \in AllPages /\ ppn'[writing] = NextPage
    BY <2>1, <1>1, WriteMaps
  <2>3. Head(request) \in HostAccess /\ Len(request') = 0 /\ Len(map) = 0
    BY <2>1, <1>1, <1>2, HeadAccess
  <2>4. DOMAIN map' = {1} /\ Len(map') = 1 /\ map'[1].ppn = NextPage /\ map'[1].lpn = writing
    <3>1. PICK a \in HostAccess : a = Head(request)
      BY <2>3
    <3>2. map' = Translated(a, NextPage) /\ a.lpn = writing
      BY <2>1, <3>1
    <3>3. /\ DOMAIN map' = {1} /\ Len(map') = 1
          /\ map'[1] = [write |-> a.write, lpn |-> a.lpn, sectors |-> a.sectors, ppn |-> NextPage]
      BY <2>1, <1>2, <3>2, JoinedFirst
    <3> QED
      BY <3>2, <3>3
  <2> QED
    BY <2>2, <2>3, <2>4 DEF OnePage
<1>8. CASE Transfer
  <2>1. map' = Tail(map) /\ map # << >> /\ UNCHANGED request
    BY <1>1, <1>8, TransferInv
  <2>2. Len(map') = 0 /\ DOMAIN map' = {} /\ Len(request) = 0
    BY <2>1, <1>1, <1>2, HeadPerformed
  <2> QED
    BY <2>1, <2>2 DEF OnePage
<1>9. CASE CollectMove
  <2>1. UNCHANGED <<request, map>> /\ map = << >>
    BY <1>1, <1>2, <1>9, CollectMoveInv DEF LoopStage
  <2> QED
    BY <2>1, <1>2 DEF OnePage
<1>10. CASE CollectRest
  BY <1>1, <1>10, CollectRestInv DEF OnePage, tableVars
<1>11. CASE Beat \/ BackgroundGc
  BY <1>1, <1>11, TimeInv DEF OnePage, tableVars
<1> QED
  BY <1>3, <1>4, <1>5, <1>6, <1>7, <1>8, <1>9, <1>10, <1>11 DEF ENext, LoopStep

THEOREM OnePageInvariant ==
  ASSUME MaxPages = 1
  PROVE  ESpec => [](EInv /\ OnePage)
<1>1. EInit => OnePage
  BY OnePageInit
<1>2. EInv /\ OnePage /\ [ENext]_emuVars => OnePage'
  BY OnePageNext
<1> QED
  BY <1>1, <1>2, LoopInvariant, PTL DEF ESpec

(* What the driver is told to transfer to or from is where the table maps  *)
(* the page, for requests that touch one page. With two pages the second   *)
(* write may collect the first one's block before the driver transfers.    *)
THEOREM TranslationCurrent ==
  ASSUME MaxPages = 1
  PROVE  ESpec => []MapCurrent
<1>1. OnePage => MapCurrent
  BY DEF OnePage, MapCurrent
<1> QED
  BY <1>1, OnePageInvariant, PTL

-----------------------------------------------------------------------------
(* The invariant of the disk.                                              *)

DiskType ==
  /\ media \in [Pages -> [Sectors -> Lpns \cup {Junk}]]
  /\ written \in [Lpns -> SUBSET Sectors]
  /\ kept \in [Lpns -> SUBSET Sectors]
  /\ \A l \in Lpns : kept[l] \subseteq written[l]

WrittenMapped == \A l \in Lpns : written[l] # {} => IsMapped(l)

(* KeptDurable at every step, not only between requests.                   *)
KeptHeld == \A l \in Lpns : \A s \in kept[l] : Holds(l, s)

(* A page below the clean ones of its block: the next write does not go    *)
(* there.                                                                  *)
PageUsed(p) ==
  \A b \in Blocks :
    p >= b * PagesPerBlock =>
      p < (b + 1) * PagesPerBlock - clean[b] \/ p >= (b + 1) * PagesPerBlock

(* The page a partial write is going to copy still holds the page's data:  *)
(* a collection may move the page in between, but it writes elsewhere, and *)
(* once it has erased a block it writes no more.                           *)
OldPage ==
  phase \in {"write", "place"} /\ MustCopy(Head(request)) =>
    /\ pc # "write" => PageUsed(old_ppn)
    /\ \A s \in kept[Head(request).lpn] : media[old_ppn][s] = Head(request).lpn

DiskInv == DiskType /\ WrittenMapped /\ KeptHeld /\ OldPage

-----------------------------------------------------------------------------
(* Pages in use.                                                           *)

LEMMA UsedIsNotNext ==
  ASSUME BlockInv, free_block # << >>, NEW p \in Nat, PageUsed(p)
  PROVE  p # NextPage
<1> DEFINE b == Head(free_block)
           low == b * PagesPerBlock
           high == (b + 1) * PagesPerBlock
<1>1. /\ b \in Blocks /\ clean[b] \in 1 .. PagesPerBlock /\ NextPage >= low
      /\ NextPage = high - clean[b] /\ NextPage < high - (clean[b] - 1)
  BY HeadOfFree DEF NextPage
<1>2. low \in Nat /\ high \in Int /\ high = low + PagesPerBlock
  BY <1>1, PageNumbers, PageCount
<1>3. p >= low => p < high - clean[b] \/ p >= high
  BY <1>1 DEF PageUsed
<1> HIDE DEF b, low, high
<1> QED
  BY <1>1, <1>2, <1>3, PageCount

LEMMA MappedIsUsed ==
  ASSUME BlockInv, NEW l \in Lpns, IsMapped(l)
  PROVE  PageUsed(ppn[l]) /\ ppn[l] \in Pages /\ ppn[l] \in Nat
<1> DEFINE c == block[l]
           p == ppn[l]
<1>1. /\ c \in Blocks /\ clean[c] \in Nat
      /\ p >= c * PagesPerBlock /\ p < (c + 1) * PagesPerBlock - clean[c]
  BY PageCount DEF BlockInv, TypeBlocks, MappingConsistent, IsMapped, Counter
<1>2. p \in Pages /\ p \in Nat
  BY TablePages DEF Pages
<1> HIDE DEF c, p
<1>3. ASSUME NEW b \in Blocks, p >= b * PagesPerBlock
      PROVE  p < (b + 1) * PagesPerBlock - clean[b] \/ p >= (b + 1) * PagesPerBlock
  <2> DEFINE bl == b * PagesPerBlock
             bh == (b + 1) * PagesPerBlock
             cl == c * PagesPerBlock
             ch == (c + 1) * PagesPerBlock
  <2>1. c \in Nat /\ b \in Nat
    BY <1>1, ConfigFacts
  <2>2. /\ bl \in Nat /\ cl \in Nat /\ bh = bl + PagesPerBlock /\ ch = cl + PagesPerBlock
        /\ c < b => ch <= bl
        /\ b < c => bh <= cl
    BY <1>1, PageNumbers
  <2>3. p >= cl /\ p < ch - clean[c] /\ p >= bl
    BY <1>1, <1>3
  <2>4. CASE b = c
    BY <2>4, <1>1
  <2>5. CASE b # c
    <3> HIDE DEF bl, bh, cl, ch
    <3>1. p >= bh
      BY <2>1, <2>2, <2>3, <2>5, <1>1, <1>2, PageCount
    <3> QED
      BY <3>1 DEF bh
  <2> QED
    BY <2>4, <2>5
<1>4. PageUsed(p)
  BY <1>3 DEF PageUsed
<1> QED
  BY <1>2, <1>4 DEF p

LEMMA WriteKeepsUsed ==
  ASSUME BlockInv, NEW l \in Lpns, WriteWithoutGC(l), NEW p \in Nat, PageUsed(p)
  PROVE  PageUsed(p)'
<1>1. /\ free_block # << >> /\ clean' = [clean EXCEPT ![Head(free_block)] = @ - 1]
  BY DEF WriteWithoutGC
<1>2. clean \in [Blocks -> Counter]
  BY DEF BlockInv, TypeBlocks
<1>3. ASSUME NEW b \in Blocks, p >= b * PagesPerBlock
      PROVE  p < (b + 1) * PagesPerBlock - clean'[b] \/ p >= (b + 1) * PagesPerBlock
  <2> DEFINE high == (b + 1) * PagesPerBlock
  <2>1. p < high - clean[b] \/ p >= high
    BY <1>3 DEF PageUsed
  <2>2. clean[b] \in Nat /\ (clean'[b] = clean[b] \/ clean'[b] = clean[b] - 1)
    BY <1>1, <1>2, PageCount DEF Counter
  <2>3. high \in Int
    BY PageNumbers, PageCount
  <2> HIDE DEF high
  <2>4. p < high - clean'[b] \/ p >= high
    BY <2>1, <2>2, <2>3
  <2> QED
    BY <2>4 DEF high
<1> QED
  BY <1>3 DEF PageUsed

(* A page write leaves the data of the other pages where it is.            *)
LEMMA OthersStay ==
  ASSUME StateInv, DiskType, WrittenMapped, NEW l \in Lpns, WriteWithoutGC(l),
         NEW from \in Pages, media' = media \/ media' = Copied(from, NextPage)
  PROVE  /\ \A k \in Lpns : k # l /\ written[k] # {} => media'[ppn'[k]] = media[ppn[k]]
         /\ media' = Copied(from, NextPage) => media'[ppn'[l]] = media[from]
         /\ media' \in [Pages -> [Sectors -> Lpns \cup {Junk}]]
<1>1. BlockInv
  BY DEF StateInv
<1>2. /\ NextPage \in Pages /\ ppn'[l] = NextPage
      /\ \A k \in Lpns : k # l => ppn'[k] = ppn[k]
      /\ free_block # << >>
  BY <1>1, WriteMaps DEF WriteWithoutGC
<1>3. ASSUME NEW k \in Lpns, k # l, written[k] # {}
      PROVE  media'[ppn'[k]] = media[ppn[k]]
  <2>1. IsMapped(k)
    BY <1>3 DEF WrittenMapped
  <2>2. ppn[k] \in Pages /\ ppn[k] # NextPage
    BY <2>1, <1>1, <1>2, MappedIsUsed, UsedIsNotNext
  <2> QED
    BY <1>2, <1>3, <2>2 DEF DiskType, Copied
<1>4. ASSUME media' = Copied(from, NextPage)
      PROVE  media'[ppn'[l]] = media[from]
  BY <1>2, <1>4 DEF DiskType, Copied
<1>5. media' \in [Pages -> [Sectors -> Lpns \cup {Junk}]]
  BY DEF DiskType, Copied
<1> QED
  BY <1>3, <1>4, <1>5

-----------------------------------------------------------------------------
(* Steps keep the invariant.                                               *)

(* All the invariants together, for requests that touch one page.          *)
DInv == EInv /\ OnePage /\ DiskInv

LEMMA InvParts ==
  ASSUME DInv
  PROVE  /\ StateInv /\ BlockInv /\ MoveConsistent /\ TypeCall /\ EInv /\ OnePage
         /\ LoopInv /\ LoopType /\ LoopStage /\ WritesMapped
         /\ DiskType /\ WrittenMapped /\ KeptHeld /\ OldPage
         /\ ppn \in [Lpns -> AllPages]
         /\ \A l \in Lpns : ~IsMapped(l) => ppn[l] = TotalPages
<1>1. StateInv /\ BlockInv /\ MoveConsistent /\ TypeCall
  BY DEF DInv, EInv, StateInv
<1>2. \A l \in Lpns : ~IsMapped(l) => ppn[l] = TotalPages
  BY <1>1 DEF BlockInv, MappingConsistent
<1> QED
  BY <1>1, <1>2, TablePages DEF DInv, EInv, LoopInv, DiskInv

(* A number below TotalPages is that of a page.                            *)
LEMMA OldIsPage ==
  ASSUME NEW p \in AllPages
  PROVE  p \in Nat /\ (p < TotalPages => p \in Pages)
  BY ConfigFacts DEF AllPages, Pages

(* Steps that move no data.                                                *)
LEMMA QuietInv ==
  ASSUME DInv, UNCHANGED <<diskVars, tableVars>>, OldPage'
  PROVE  DiskInv'
<1>1. DiskType'
  BY InvParts DEF DiskType, diskVars
<1>2. WrittenMapped'
  BY InvParts DEF WrittenMapped, IsMapped, diskVars, tableVars
<1>3. KeptHeld'
  BY InvParts DEF KeptHeld, Holds, diskVars, tableVars
<1> QED
  BY <1>1, <1>2, <1>3 DEF DiskInv

(* No partial write is in progress.                                        *)
LEMMA NoOldPage ==
  ASSUME phase' \notin {"write", "place"}
  PROVE  OldPage'
  BY DEF OldPage

(* A partial write begins: the old page is the one the table has.          *)
LEMMA ReadOldPage ==
  ASSUME DInv, ReadOld, UNCHANGED diskVars
  PROVE  OldPage'
<1>1. /\ request # << >> /\ old_ppn' = ppn[Head(request).lpn] /\ request' = request
      /\ UNCHANGED blockVars
  BY DEF ReadOld, Read
<1>2. PICK l \in Lpns : l = Head(request).lpn
  BY <1>1, InvParts, HeadAccess
<1> SUFFICES ASSUME MustCopy(Head(request))'
             PROVE  /\ PageUsed(old_ppn)'
                    /\ \A s \in kept'[l] : media'[old_ppn'][s] = l
  BY <1>1, <1>2 DEF OldPage
<1>3. ppn[l] < TotalPages
  BY <1>1, <1>2 DEF MustCopy
<1>4. IsMapped(l)
  <2>1. ~(TotalPages < TotalPages)
    BY ConfigFacts
  <2> QED
    BY <2>1, <1>3, InvParts
<1>5. PageUsed(ppn[l])
  BY <1>4, InvParts, MappedIsUsed
<1>6. old_ppn' = ppn[l] /\ clean' = clean
  BY <1>1, <1>2 DEF blockVars
<1>7. PageUsed(old_ppn)'
  BY <1>5, <1>6 DEF PageUsed
<1>8. \A s \in kept[l] : media[ppn[l]][s] = l
  BY InvParts DEF KeptHeld, Holds
<1> QED
  BY <1>6, <1>7, <1>8 DEF diskVars

(* The write proper begins.                                                *)
LEMMA StartWritePage ==
  ASSUME DInv, StartWrite, UNCHANGED diskVars
  PROVE  OldPage'
<1>1. /\ UNCHANGED <<request, old_ppn, blockVars>>
      /\ phase = "write" \/ ~IsPartial(Head(request))
  BY DEF StartWrite, Write
<1>2. CASE ~IsPartial(Head(request))
  BY <1>1, <1>2 DEF OldPage, MustCopy
<1>3. CASE phase = "write"
  <2>1. pc # "write"
    BY <1>3, InvParts DEF LoopStage
  <2> QED
    BY <1>1, <1>3, <2>1, InvParts DEF OldPage, MustCopy, PageUsed, blockVars, diskVars
<1> QED
  BY <1>1, <1>2, <1>3

LEMMA CollectRestPage ==
  ASSUME DInv, CollectRest, UNCHANGED diskVars
  PROVE  OldPage'
<1>1. /\ UNCHANGED <<request, old_ppn, phase>> /\ phase # "write"
      /\ pc # "write"
      /\ pc' # "write" /\ phase = "place" => clean' = clean
  BY InvParts, CollectRestInv
<1> QED
  BY <1>1, InvParts DEF OldPage, MustCopy, PageUsed, diskVars

(* A collection copies a page.                                             *)
LEMMA DCollectMoveInv ==
  ASSUME DInv, DCollectMove
  PROVE  /\ DiskInv' /\ UNCHANGED <<request, map, phase, written>>
         /\ \A k \in Lpns : written[k] # {} => media'[ppn'[k]] = media[ppn[k]]
<1>1. /\ CollectMove /\ media' = Copied(ppn[Head(todo)], NextPage)
      /\ UNCHANGED <<written, kept>>
  BY DEF DCollectMove
<1>2. /\ phase \in {"get", "lock", "place"} /\ pc = "rewrite" /\ todo # << >>
      /\ WriteWithoutGC(Head(todo)) /\ UNCHANGED <<request, map, phase, old_ppn>>
      /\ Head(todo) \in Lpns
  BY <1>1, InvParts, CollectMoveInv
<1>3. PICK l \in Lpns : l = Head(todo)
  BY <1>2
<1>4. IsMapped(l)
  <2>1. PICK b \in Range(full_block) : lpns[b] = todo
    BY <1>2, InvParts DEF MoveConsistent
  <2>2. b \in Blocks
    BY InvParts, RangeOfSeq DEF BlockInv, TypeBlocks
  <2>3. todo \in Seq(Lpns) /\ todo # << >>
    BY <1>2, InvParts DEF TypeCall
  <2>4. Head(todo) = todo[1] /\ 1 \in DOMAIN todo
    BY <2>3, EmptySeq, LenProperties
  <2>5. l \in Range(lpns[b])
    BY <1>3, <2>1, <2>4 DEF Range
  <2>6. block[l] = b
    BY <2>2, <2>5, InvParts DEF BlockInv, MappingConsistent
  <2> QED
    BY <2>2, <2>6, ConfigFacts DEF IsMapped
<1>5. PICK from \in Pages : from = ppn[l]
  BY <1>4, InvParts, MappedIsUsed
<1>6. WriteWithoutGC(l) /\ media' = Copied(from, NextPage)
  BY <1>1, <1>2, <1>3, <1>5
<1>7. /\ \A k \in Lpns : k # l /\ written[k] # {} => media'[ppn'[k]] = media[ppn[k]]
      /\ media'[ppn'[l]] = media[from]
      /\ media' \in [Pages -> [Sectors -> Lpns \cup {Junk}]]
  BY <1>6, InvParts, OthersStay
<1>8. \A k \in Lpns : written[k] # {} => media'[ppn'[k]] = media[ppn[k]]
  BY <1>5, <1>7
<1>9. DiskType'
  BY <1>1, <1>7, InvParts DEF DiskType
<1>10. WrittenMapped'
  <2>1. \A k \in Lpns : IsMapped(k) => block'[k] # NoBlock
    BY <1>6, InvParts, WriteMaps DEF IsMapped
  <2> QED
    BY <2>1, <1>1, InvParts DEF WrittenMapped, IsMapped
<1>11. KeptHeld'
  <2>1. ASSUME NEW k \in Lpns, NEW s \in kept[k]
        PROVE  media'[ppn'[k]][s] = k
    <3>1. written[k] # {} /\ media[ppn[k]][s] = k
      BY InvParts DEF DiskType, KeptHeld, Holds
    <3> QED
      BY <3>1, <1>8
  <2> QED
    BY <2>1, <1>1 DEF KeptHeld, Holds
<1>12. OldPage'
  <2> SUFFICES ASSUME phase = "place", MustCopy(Head(request))
               PROVE  /\ PageUsed(old_ppn)'
                      /\ \A s \in kept[Head(request).lpn] : media'[old_ppn][s] = Head(request).lpn
    BY <1>1, <1>2 DEF OldPage, MustCopy
  <2>1. PICK p \in Pages : p = old_ppn /\ p \in Nat
    BY InvParts, OldIsPage DEF LoopType, MustCopy
  <2>2. /\ PageUsed(p)
        /\ \A s \in kept[Head(request).lpn] : media[p][s] = Head(request).lpn
    BY <1>2, <2>1, InvParts DEF OldPage
  <2>3. p # NextPage
    BY <2>1, <2>2, <1>6, InvParts, UsedIsNotNext DEF WriteWithoutGC
  <2>4. media'[p] = media[p]
    BY <2>1, <2>3, <1>6, InvParts DEF DiskType, Copied
  <2>5. PageUsed(p)'
    BY <2>1, <2>2, <1>6, InvParts, WriteKeepsUsed
  <2>6. old_ppn' = p
    BY <1>2, <2>1
  <2>7. PageUsed(old_ppn)'
    BY <2>5, <2>6 DEF PageUsed
  <2> QED
    BY <2>1, <2>2, <2>4, <2>7
<1> QED
  BY <1>2, <1>1, <1>8, <1>9, <1>10, <1>11, <1>12 DEF DiskInv

(* A host write is placed, over a copy of the old page if the code makes   *)
(* one.                                                                    *)
LEMMA DFinishWriteInv ==
  ASSUME DInv, DFinishWrite
  PROVE  /\ DiskInv'
         /\ request # << >> /\ Head(request).write /\ Head(request).lpn = writing
         /\ writing \in Lpns /\ map' = Translated(Head(request), NextPage)
         /\ request' = Tail(request) /\ UNCHANGED written
         /\ \A k \in Lpns : k # writing /\ written[k] # {} => media'[ppn'[k]] = media[ppn[k]]
<1>1. /\ FinishWrite /\ UNCHANGED written
      /\ \/ /\ MustCopy(Head(request))
            /\ media' = Copied(old_ppn, NextPage) /\ kept' = kept
         \/ media' = media /\ kept' = [kept EXCEPT ![writing] = {}]
  BY DEF DFinishWrite
<1>2. /\ request # << >> /\ Head(request).write /\ Head(request).lpn = writing
      /\ writing \in Lpns /\ WriteWithoutGC(writing)
      /\ map' = Translated(Head(request), NextPage) /\ request' = Tail(request)
  BY <1>1, InvParts, FinishWriteInv
<1>3. PICK l \in Lpns : l = writing
  BY <1>2
<1>4. PICK from \in Pages :
        \/ media' = media /\ kept' = [kept EXCEPT ![l] = {}]
        \/ /\ media' = Copied(from, NextPage) /\ kept' = kept
           /\ \A s \in kept[l] : media[from][s] = l
  <2>1. CASE MustCopy(Head(request)) /\ media' = Copied(old_ppn, NextPage) /\ kept' = kept
    <3>1. old_ppn \in Pages
      BY <2>1, InvParts, OldIsPage DEF LoopType, MustCopy
    <3>2. phase = "place"
      BY <1>1 DEF FinishWrite
    <3>3. \A s \in kept[l] : media[old_ppn][s] = l
      BY <2>1, <3>2, <1>2, <1>3, InvParts DEF OldPage
    <3> QED
      BY <2>1, <3>1, <3>3
  <2>2. CASE media' = media /\ kept' = [kept EXCEPT ![writing] = {}]
    <3>1. NextPage \in Pages
      BY <1>2, InvParts, WriteMaps
    <3> QED
      BY <2>2, <3>1, <1>3
  <2> QED
    BY <2>1, <2>2, <1>1
<1>5. WriteWithoutGC(l)
  BY <1>2, <1>3
<1>6. /\ \A k \in Lpns : k # l /\ written[k] # {} => media'[ppn'[k]] = media[ppn[k]]
      /\ media' = Copied(from, NextPage) => media'[ppn'[l]] = media[from]
      /\ media' \in [Pages -> [Sectors -> Lpns \cup {Junk}]]
  BY <1>4, <1>5, InvParts, OthersStay
<1>7. DiskType'
  BY <1>1, <1>4, <1>6, InvParts DEF DiskType
<1>8. WrittenMapped'
  <2>1. \A k \in Lpns : IsMapped(k) => block'[k] # NoBlock
    BY <1>5, InvParts, WriteMaps DEF IsMapped
  <2> QED
    BY <2>1, <1>1, InvParts DEF WrittenMapped, IsMapped
<1>9. KeptHeld'
  <2>1. ASSUME NEW k \in Lpns, NEW s \in kept'[k]
        PROVE  media'[ppn'[k]][s] = k
    <3>1. s \in kept[k] /\ written[k] # {} /\ media[ppn[k]][s] = k
      BY <1>4, InvParts DEF DiskType, KeptHeld, Holds
    <3>2. CASE k # l
      BY <3>1, <3>2, <1>6
    <3>3. CASE k = l
      <4>1. media' = Copied(from, NextPage) /\ media[from][s] = l
        BY <2>1, <3>1, <3>3, <1>4, InvParts DEF DiskType
      <4> QED
        BY <4>1, <3>3, <1>6
    <3> QED
      BY <3>2, <3>3
  <2> QED
    BY <2>1 DEF KeptHeld, Holds
<1>10. OldPage'
  BY <1>1, NoOldPage DEF FinishWrite
<1> QED
  BY <1>1, <1>2, <1>3, <1>6, <1>7, <1>8, <1>9, <1>10 DEF DiskInv

(* The driver performs an access.                                          *)
LEMMA DTransferInv ==
  ASSUME DInv, DTransfer
  PROVE  /\ DiskInv' /\ map # << >> /\ map' = Tail(map) /\ request = << >>
         /\ UNCHANGED <<request, phase>>
         /\ Head(map) \in DiskAccess
         /\ UNCHANGED tableVars
         /\ ~Head(map).write => UNCHANGED diskVars
         /\ Head(map).write =>
              /\ written' = [written EXCEPT ![Head(map).lpn] = @ \cup Head(map).sectors]
              /\ \A s \in Head(map).sectors : media'[ppn[Head(map).lpn]][s] = Head(map).lpn
              /\ \A k \in Lpns : \A s \in written[k] :
                   k # Head(map).lpn \/ s \notin Head(map).sectors =>
                     (media'[ppn[k]][s] = k <=> media[ppn[k]][s] = k)
<1>1. Transfer
  BY DEF DTransfer
<1>2. /\ map # << >> /\ map' = Tail(map) /\ request = << >> /\ UNCHANGED <<vars, request>>
      /\ UNCHANGED phase /\ phase = "io"
  BY <1>1, InvParts, TransferInv DEF Transfer
<1>3. /\ Head(map) \in DiskAccess /\ Head(map) = map[1] /\ 1 \in DOMAIN map
  BY <1>2, InvParts, HeadPerformed
<1>4. OldPage'
  BY <1>2, NoOldPage
<1>5. UNCHANGED tableVars
  BY <1>2 DEF vars
<1>6. CASE ~Head(map).write
  BY <1>2, <1>3, <1>4, <1>5, <1>6, QuietInv DEF DTransfer
<1>7. CASE Head(map).write
  <2>1. PICK e \in DiskAccess : e = Head(map)
    BY <1>3
  <2>2. PICK l \in Lpns, p \in Pages, ss \in SUBSET Sectors :
          l = e.lpn /\ p = e.ppn /\ ss = e.sectors /\ ppn[l] = p /\ IsMapped(l)
    <3>1. e.lpn \in Lpns /\ e.sectors \in SUBSET Sectors
      BY DEF DiskAccess
    <3>2. e.ppn = ppn[e.lpn] /\ IsMapped(e.lpn)
      BY <1>3, <1>7, <2>1, InvParts DEF OnePage, WritesMapped
    <3>3. ppn[e.lpn] \in Pages
      BY <3>1, <3>2, InvParts, MappedIsUsed
    <3> QED
      BY <3>1, <3>2, <3>3
  <2>3. /\ media' = Performed(e)
        /\ written' = [written EXCEPT ![l] = @ \cup ss]
        /\ kept' = [kept EXCEPT ![l] = @ \cup ss]
    BY <1>7, <2>1, <2>2 DEF DTransfer
  <2>4. ASSUME NEW q \in Pages, NEW s \in Sectors
        PROVE  media'[q][s] = IF s \notin ss THEN media[q][s]
                              ELSE IF q = p THEN l
                              ELSE IF media[q][s] = l THEN Junk ELSE media[q][s]
    BY <2>2, <2>3 DEF Performed
  <2>5. media' \in [Pages -> [Sectors -> Lpns \cup {Junk}]]
    BY <2>2, <2>3, InvParts DEF DiskType, Performed
  <2>6. DiskType'
    BY <2>2, <2>3, <2>5, InvParts DEF DiskType
  <2>7. WrittenMapped'
    BY <2>2, <2>3, <1>5, InvParts DEF DiskType, WrittenMapped, IsMapped, tableVars
  <2>8. \A s \in ss : media'[ppn[l]][s] = l
    BY <2>2, <2>4
  <2>9. ASSUME NEW k \in Lpns, NEW s \in written[k], k # l \/ s \notin ss
        PROVE  media'[ppn[k]][s] = k <=> media[ppn[k]][s] = k
    <3>1. s \in Sectors /\ IsMapped(k) /\ ppn[k] \in Pages
      BY InvParts, MappedIsUsed DEF DiskType, WrittenMapped
    <3>2. CASE s \notin ss
      BY <3>1, <3>2, <2>4
    <3>3. CASE k # l
      <4>1. ppn[k] # p
        BY <3>1, <3>3, <2>2, InvParts DEF BlockInv, MappingInjective
      <4>2. Junk \notin Lpns
        BY ConfigFacts DEF Junk, NoLpn
      <4> QED
        BY <3>1, <3>3, <4>1, <4>2, <2>4
    <3> QED
      BY <3>2, <3>3, <2>9
  <2>10. KeptHeld'
    <3>1. ASSUME NEW k \in Lpns, NEW s \in kept'[k]
          PROVE  media'[ppn[k]][s] = k
      <4>1. CASE k = l /\ s \in ss
        BY <4>1, <2>8
      <4>2. CASE ~(k = l /\ s \in ss)
        <5>1. s \in kept[k]
          BY <4>2, <3>1, <2>3, InvParts DEF DiskType
        <5>2. s \in written[k] /\ media[ppn[k]][s] = k
          BY <5>1, InvParts DEF DiskType, KeptHeld, Holds
        <5> QED
          BY <4>2, <5>2, <2>9
      <4> QED
        BY <4>1, <4>2
    <3> QED
      BY <3>1, <1>5 DEF KeptHeld, Holds, tableVars
  <2>11. DiskInv'
    BY <2>6, <2>7, <2>10, <1>4 DEF DiskInv
  <2> QED
    BY <1>2, <1>3, <1>5, <1>7, <2>1, <2>2, <2>3, <2>8, <2>9, <2>11
<1> QED
  BY <1>6, <1>7

LEMMA InitDisk == DInit => DInv
<1> SUFFICES ASSUME DInit PROVE DInv
  OBVIOUS
<1>1. /\ EInit /\ media = [p \in Pages |-> [s \in Sectors |-> Junk]]
      /\ written = [l \in Lpns |-> {}] /\ kept = [l \in Lpns |-> {}] /\ phase = "get"
  BY DEF DInit, EInit
<1>2. EInv /\ OnePage
  BY <1>1, InitLoop, OnePageInit
<1>3. DiskInv
  BY <1>1 DEF DiskInv, DiskType, WrittenMapped, KeptHeld, OldPage
<1> QED
  BY <1>2, <1>3 DEF DInv

(* The disk's steps are the emulator's.                                    *)
LEMMA StepOfEmulator == [DNext]_allVars => [ENext]_emuVars
  BY DEF DNext, allVars, ENext, DGetRequest, DLoopStep, DFinishWrite, DTransfer,
         DCollectMove, DCollectRest, DBeat, DBackgroundGc

LEMMA DLoopStepInv ==
  ASSUME DInv, DGetRequest \/ DLoopStep \/ DCollectRest \/ DBeat \/ DBackgroundGc
  PROVE  DiskInv' /\ UNCHANGED <<diskVars, tableVars>>
<1>1. UNCHANGED diskVars
  BY DEF DGetRequest, DLoopStep, DCollectRest, DBeat, DBackgroundGc
<1>2. CASE GetRequest
  <2>1. UNCHANGED tableVars /\ phase' = "lock"
    BY <1>2 DEF GetRequest, vars
  <2> QED
    BY <1>1, <2>1, NoOldPage, QuietInv
<1>3. CASE Acquire \/ SetPpn \/ EndRequest \/ TranslateRead
  <2>1. UNCHANGED tableVars
    BY <1>3 DEF Acquire, SetPpn, EndRequest, TranslateRead, Read, vars
  <2>2. phase' \notin {"write", "place"}
    BY <1>3 DEF Acquire, SetPpn, EndRequest, TranslateRead
  <2> QED
    BY <1>1, <2>1, <2>2, NoOldPage, QuietInv
<1>4. CASE ReadOld
  <2>1. UNCHANGED tableVars
    BY <1>4 DEF ReadOld, Read
  <2> QED
    BY <1>1, <1>4, <2>1, ReadOldPage, QuietInv
<1>5. CASE StartWrite
  <2>1. UNCHANGED tableVars
    BY <1>5 DEF StartWrite, Write
  <2> QED
    BY <1>1, <1>5, <2>1, StartWritePage, QuietInv
<1>6. CASE CollectRest
  <2>1. UNCHANGED tableVars
    BY <1>6, InvParts, CollectRestInv
  <2> QED
    BY <1>1, <1>6, <2>1, CollectRestPage, QuietInv
<1>7. CASE Beat \/ BackgroundGc
  <2>1. UNCHANGED tableVars /\ phase' \notin {"write", "place"}
    BY <1>7, InvParts, TimeInv
  <2> QED
    BY <1>1, <2>1, NoOldPage, QuietInv
<1> QED
  BY <1>2, <1>3, <1>4, <1>5, <1>6, <1>7
  DEF DGetRequest, DLoopStep, LoopStep, DCollectRest, DBeat, DBackgroundGc

LEMMA NextDisk ==
  ASSUME MaxPages = 1, DInv, [DNext]_allVars
  PROVE  DInv'
<1>1. [ENext]_emuVars
  BY StepOfEmulator
<1>2. EInv' /\ OnePage'
  BY <1>1, InvParts, NextLoop, OnePageNext
<1>3. CASE UNCHANGED allVars
  <2>1. UNCHANGED <<diskVars, tableVars, clean, pc, phase, request, old_ppn>>
    BY <1>3 DEF allVars, emuVars, vars, loopVars, blockVars, callVars
  <2>2. OldPage'
    BY <2>1, InvParts DEF OldPage, MustCopy, PageUsed, diskVars
  <2>3. DiskInv'
    BY <2>1, <2>2, QuietInv
  <2> QED
    BY <1>2, <2>3 DEF DInv
<1>4. CASE DNext
  <2>1. DiskInv'
    BY <1>4, DLoopStepInv, DFinishWriteInv, DTransferInv, DCollectMoveInv DEF DNext
  <2> QED
    BY <1>2, <2>1 DEF DInv
<1> QED
  BY <1>3, <1>4

THEOREM DiskInvariant ==
  ASSUME MaxPages = 1
  PROVE  DSpec => []DInv
<1>1. DInit => DInv
  BY InitDisk
<1>2. DInv /\ [DNext]_allVars => DInv'
  BY NextDisk
<1> QED
  BY <1>1, <1>2, PTL DEF DSpec

(* Contents apart, the disk is the emulator.                               *)
THEOREM DiskUsesEmulator == DSpec => ESpec
<1>1. DInit => EInit
  BY DEF DInit
<1>2. [DNext]_allVars => [ENext]_emuVars
  BY StepOfEmulator
<1> QED
  BY <1>1, <1>2, PTL DEF DSpec, ESpec

(* The types of what the disk holds.                                       *)
THEOREM DiskTypeCorrect ==
  ASSUME MaxPages = 1, ReserveBlocks >= 1
  PROVE  DSpec => []DTypeOK
<1>1. DInv /\ ETypeOK => DTypeOK
  BY DEF DInv, DiskInv, DiskType, DTypeOK
<1>2. ESpec => []ETypeOK
  BY LoopTypeCorrect
<1> QED
  BY <1>1, <1>2, DiskInvariant, DiskUsesEmulator, PTL

(* The host finds what it wrote since a page was last begun without a copy *)
(* of the old one: neither translation, nor collection by the writer or    *)
(* by the background thread, nor the copy of a partial write loses it.     *)
THEOREM KeptIsDurable ==
  ASSUME MaxPages = 1
  PROVE  DSpec => []KeptDurable
<1>1. DInv => KeptDurable
  BY DEF DInv, DiskInv, KeptHeld, KeptDurable
<1> QED
  BY <1>1, DiskInvariant, PTL

-----------------------------------------------------------------------------
(* The disk implements BlockDevice.                                        *)

Pending == PlainAccesses(map) \o request

Plain(a) == [write |-> a.write, lpn |-> a.lpn, sectors |-> a.sectors]

(* The accesses not yet performed: those of the request, or the one in the *)
(* map.                                                                    *)
LEMMA PendingFacts ==
  ASSUME NEW m \in Seq(DiskAccess), NEW r \in Seq(HostAccess), Len(m) + Len(r) <= 1
  PROVE  /\ m = << >> => PlainAccesses(m) \o r = r
         /\ m # << >> => PlainAccesses(m) \o r = << Plain(m[1]) >> /\ r = << >>
         /\ r # << >> => r = << Head(r) >> /\ m = << >>
<1>1. Len(m) \in Nat /\ Len(r) \in Nat /\ DOMAIN m = 1 .. Len(m)
  BY LenProperties
<1>2. ASSUME m = << >>
      PROVE  PlainAccesses(m) \o r = r
  <2>1. PlainAccesses(<< >>) = << >>
    BY DEF PlainAccesses
  <2>2. << >> \o r = r
    BY ConcatEmptySeq
  <2> QED
    BY <1>2, <2>1, <2>2
<1>3. ASSUME m # << >>
      PROVE  PlainAccesses(m) \o r = << Plain(m[1]) >> /\ r = << >>
  <2>1. Len(m) >= 1
    BY <1>3, EmptySeq
  <2>2. Len(m) = 1 /\ Len(r) = 0
    BY <2>1, <1>1
  <2>3. r = << >>
    BY <2>2, EmptySeq
  <2>4. DOMAIN m = {1} /\ DOMAIN m = 1 .. 1
    BY <1>1, <2>2
  <2>5. PlainAccesses(m) = [i \in 1 .. 1 |-> Plain(m[i])]
    BY <2>4 DEF PlainAccesses, Plain
  <2>6. [i \in 1 .. 1 |-> Plain(m[i])] = << Plain(m[1]) >>
    OBVIOUS
  <2>7. << Plain(m[1]) >> \o << >> = << Plain(m[1]) >>
    OBVIOUS
  <2> QED
    BY <2>3, <2>5, <2>6, <2>7
<1>4. ASSUME r # << >>
      PROVE  r = << Head(r) >> /\ m = << >>
  <2>1. Len(r) >= 1
    BY <1>4, EmptySeq
  <2> DEFINE p == Len(r)
             q == Len(m)
  <2>a. p \in Nat /\ q \in Nat /\ p >= 1 /\ q + p <= 1
    BY <2>1, <1>1
  <2> HIDE DEF p, q
  <2>b. p = 1 /\ q = 0
    BY <2>a
  <2>2. Len(r) = 1 /\ Len(m) = 0
    BY <2>b DEF p, q
  <2>3. m = << >>
    BY <2>2, EmptySeq
  <2>4. r = << Head(r) >>
    <3>1. << r[1] >> \in Seq(HostAccess) /\ Len(<< r[1] >>) = 1 /\ << r[1] >>[1] = r[1]
      BY <2>2, ElementOfSeq
    <3>2. Head(r) = r[1]
      BY <1>4, HeadTailProperties
    <3> QED
      BY <2>2, <3>1, <3>2, SeqEqual
  <2> QED
    BY <2>3, <2>4
<1> QED
  BY <1>2, <1>3, <1>4

(* Sectors held are not lost or found when nothing is written and each     *)
(* page's data is where the table says.                                    *)
LEMMA HeldKept ==
  ASSUME UNCHANGED written,
         \A k \in Lpns : written[k] # {} => media'[ppn'[k]] = media[ppn[k]]
  PROVE  Held' = Held
<1>1. \A k \in Lpns : {s \in written'[k] : media'[ppn'[k]][s] = k}
                      = {s \in written[k] : media[ppn[k]][s] = k}
  OBVIOUS
<1> QED
  BY <1>1 DEF Held, Holds

(* The sector s of page k is held.                                         *)
LEMMA HeldFacts ==
  /\ \A k, s : <<k, s>> \in Held <=> k \in Lpns /\ s \in written[k] /\ media[ppn[k]][s] = k
  /\ \A h \in Held : h = <<h[1], h[2]>>
  BY DEF Held, Holds

(* A translated access is still the host's.                                *)
LEMMA JoinedPlain ==
  ASSUME map = << >>, NEW a \in HostAccess, NEW p
  PROVE  Translated(a, p) # << >> /\ Plain(Translated(a, p)[1]) = a
<1>1. /\ DOMAIN Translated(a, p) = {1}
      /\ Translated(a, p)[1] =
           [write |-> a.write, lpn |-> a.lpn, sectors |-> a.sectors, ppn |-> p]
  BY JoinedFirst
<1>2. DOMAIN << >> = {}
  OBVIOUS
<1>3. Plain(Translated(a, p)[1]) = [write |-> a.write, lpn |-> a.lpn, sectors |-> a.sectors]
  BY <1>1 DEF Plain
<1>4. a = [write |-> a.write, lpn |-> a.lpn, sectors |-> a.sectors]
  BY DEF HostAccess
<1> QED
  BY <1>1, <1>2, <1>3, <1>4

LEMMA DeviceInit == DInit => Device!Init
<1> SUFFICES ASSUME DInit PROVE Device!Init
  OBVIOUS
<1>1. map = << >> /\ request = << >> /\ phase = "get" /\ written = [l \in Lpns |-> {}]
  BY DEF DInit, EInit
<1>2. PlainAccesses(<< >>) \o << >> = << >>
  BY DEF PlainAccesses
<1>3. Held = {}
  BY <1>1 DEF Held
<1> QED
  BY <1>1, <1>2, <1>3 DEF Device!Init

LEMMA DeviceNext ==
  ASSUME MaxPages = 1, DInv, [DNext]_allVars
  PROVE  [Device!Next]_(Device!bdVars)
<1> DEFINE P == PlainAccesses(map) \o request
           Q == PlainAccesses(map') \o request'
<1>0. DInv' /\ LoopType' /\ OnePage'
  BY NextDisk DEF DInv, EInv, LoopInv
<1>1. /\ map = << >> => P = request
      /\ map # << >> => P = << Plain(map[1]) >> /\ request = << >>
      /\ request # << >> => request = << Head(request) >> /\ map = << >>
  <2>1. /\ map \in Seq(DiskAccess) /\ request \in Seq(HostAccess)
        /\ Len(request) + Len(map) <= 1
    BY InvParts DEF LoopType, OnePage
  <2>2. Len(map) + Len(request) <= 1
    BY <2>1, LenProperties
  <2> QED
    BY <2>1, <2>2, PendingFacts
<1>2. /\ map' = << >> => Q = request'
      /\ map' # << >> => Q = << Plain(map'[1]) >> /\ request' = << >>
      /\ request' # << >> => request' = << Head(request') >> /\ map' = << >>
  <2>1. /\ map' \in Seq(DiskAccess) /\ request' \in Seq(HostAccess)
        /\ Len(request') + Len(map') <= 1
    BY <1>0 DEF LoopType, OnePage
  <2>2. Len(map') + Len(request') <= 1
    BY <2>1, LenProperties
  <2> QED
    BY <2>1, <2>2, PendingFacts
<1>u. ASSUME UNCHANGED <<map, request>> PROVE Q = P
  BY <1>u
<1>h. ASSUME UNCHANGED <<diskVars, tableVars>> PROVE Held' = Held
  BY <1>h, HeldKept DEF diskVars, tableVars
<1> HIDE DEF P, Q
<1>s. ASSUME Q = P, Held' = Held, (phase # "get")' = (phase # "get")
      PROVE  UNCHANGED Device!bdVars
  BY <1>s DEF Device!bdVars, P, Q
<1>3. CASE UNCHANGED allVars
  <2>1. UNCHANGED <<map, request, diskVars, tableVars, phase>>
    BY <1>3 DEF allVars, emuVars, vars, loopVars
  <2> QED
    BY <2>1, <1>u, <1>h, <1>s
<1>4. CASE DGetRequest
  <2>1. /\ GetRequest /\ Held' = Held /\ phase = "get" /\ phase' = "lock"
    BY <1>4, DLoopStepInv, <1>h DEF DGetRequest, GetRequest
  <2>2. request' \in Seq(HostAccess) /\ request' # << >>
    BY <2>1, InvParts, <1>0, GetRequestInv DEF LoopInv, LoopType, LoopStage
  <2>3. Q = request'
    BY <1>2, <2>2
  <2>4. HostAccess \subseteq Device!Access
    BY DEF HostAccess, Device!Access
  <2>5. request' \in Seq(Device!Access)
    BY <2>2, <2>4
  <2>6. Device!Request
    BY <2>1, <2>2, <2>3, <2>5 DEF Device!Request, Q
  <2> QED
    BY <2>6 DEF Device!Next
<1>5. CASE DLoopStep
  <2>1. Held' = Held /\ LoopStep
    BY <1>5, DLoopStepInv, <1>h DEF DLoopStep
  <2>2. CASE Acquire \/ ReadOld \/ StartWrite \/ SetPpn
    <3>1. UNCHANGED <<map, request>> /\ phase # "get" /\ phase' # "get"
      BY <2>2, InvParts, PhaseInv DEF Acquire, ReadOld, StartWrite, SetPpn
    <3> QED
      BY <2>1, <3>1, <1>u, <1>s
  <2>3. CASE TranslateRead
    <3>1. /\ request # << >> /\ phase # "get" /\ phase' # "get"
          /\ map' = Translated(Head(request), ppn[Head(request).lpn])
      BY <2>3 DEF TranslateRead
    <3>2. P = << Head(request) >> /\ map = << >> /\ Head(request) \in HostAccess
      BY <1>1, <3>1, InvParts, HeadAccess
    <3>3. Q = << Head(request) >>
      <4>1. PICK a \in HostAccess, p \in AllPages :
              a = Head(request) /\ map' = Translated(a, p)
        BY <3>1, <3>2, InvParts DEF HostAccess
      <4>2. map' # << >> /\ Q = << Plain(map'[1]) >> /\ Plain(map'[1]) = a
        BY <4>1, <3>2, <1>2, JoinedPlain
      <4> QED
        BY <4>1, <4>2
    <3> QED
      BY <2>1, <3>1, <3>2, <3>3, <1>s
  <2>4. CASE EndRequest
    <3>1. /\ phase = "io" /\ phase' = "get" /\ map = << >> /\ UNCHANGED <<map, request>>
          /\ request = << >>
      BY <2>4, InvParts DEF EndRequest, LoopStage
    <3>2. P = << >> /\ Q = P
      BY <3>1, <1>1, <1>u
    <3>3. Device!Answer
      BY <2>1, <3>1, <3>2 DEF Device!Answer, P, Q
    <3> QED
      BY <3>3 DEF Device!Next
  <2> QED
    BY <2>1, <2>2, <2>3, <2>4 DEF LoopStep
<1>6. CASE DFinishWrite
  <2>1. /\ request # << >> /\ Head(request).write /\ Head(request).lpn = writing
        /\ writing \in Lpns /\ map' = Translated(Head(request), NextPage)
        /\ UNCHANGED written
        /\ \A k \in Lpns : k # writing /\ written[k] # {} => media'[ppn'[k]] = media[ppn[k]]
    BY <1>6, DFinishWriteInv
  <2>2. PICK a \in HostAccess : a = Head(request)
    BY <2>1, InvParts, HeadAccess
  <2>3. PICK l \in Lpns : l = writing /\ a.lpn = l /\ a.write
    BY <2>1, <2>2
  <2>4. P = << a >> /\ map = << >>
    BY <2>1, <2>2, <1>1
  <2>5. Q = << a >>
    <3>1. map' # << >> /\ Plain(map'[1]) = a
      BY <2>1, <2>2, <2>4, JoinedPlain
    <3> QED
      BY <3>1, <1>2
  <2> DEFINE now == {s \in written'[l] : media'[ppn'[l]][s] = l}
  <2>6. now \in SUBSET Sectors
    BY <1>0, InvParts, <2>1 DEF DiskType
  <2>7. Held' = (Held \ ({l} \X Sectors)) \cup ({l} \X now)
    <3>1. /\ \A k, s : <<k, s>> \in Held' <=> k \in Lpns /\ s \in written'[k] /\ media'[ppn'[k]][s] = k
          /\ \A h \in Held' : h = <<h[1], h[2]>>
      BY DEF Held, Holds
    <3>2. \A k \in Lpns : k # l => (\A s : <<k, s>> \in Held' <=> <<k, s>> \in Held)
      <4>1. ASSUME NEW k \in Lpns, k # l, NEW s
            PROVE  <<k, s>> \in Held' <=> <<k, s>> \in Held
        <5>1. s \in written[k] => media'[ppn'[k]] = media[ppn[k]]
          BY <2>1, <2>3, <4>1
        <5> QED
          BY <5>1, <3>1, <2>1, HeldFacts
      <4> QED
        BY <4>1
    <3>3. \A s : <<l, s>> \in Held' <=> s \in now
      BY <3>1
    <3>4. \A s : <<l, s>> \in Held => s \in Sectors
      BY HeldFacts, InvParts DEF DiskType
    <3> HIDE DEF now
    <3> DEFINE new == (Held \ ({l} \X Sectors)) \cup ({l} \X now)
    <3>5. /\ \A h \in new : h = <<h[1], h[2]>>
          /\ \A k, s : <<k, s>> \in new <=>
               \/ <<k, s>> \in Held /\ ~(k = l /\ s \in Sectors)
               \/ k = l /\ s \in now
      BY HeldFacts
    <3> HIDE DEF new
    <3>6. ASSUME NEW k, NEW s PROVE <<k, s>> \in Held' <=> <<k, s>> \in new
      <4>1. CASE k = l
        BY <4>1, <3>3, <3>4, <3>5
      <4>2. CASE k # l
        BY <4>2, <3>1, <3>2, <3>5, HeldFacts
      <4> QED
        BY <4>1, <4>2
    <3>7. ASSUME NEW h \in Held' PROVE h \in new
      <4>1. PICK k, s : h = <<k, s>>
        BY <3>1
      <4> QED
        BY <4>1, <3>6
    <3>8. ASSUME NEW h \in new PROVE h \in Held'
      <4>1. PICK k, s : h = <<k, s>>
        BY <3>5
      <4> QED
        BY <4>1, <3>6
    <3> QED
      BY <3>7, <3>8 DEF new
  <2>8. phase # "get" /\ phase' # "get"
    BY <1>6 DEF DFinishWrite, FinishWrite
  <2>9. 1 \in DOMAIN << a >> /\ << a >>[1] = a
    OBVIOUS
  <2> HIDE DEF now
  <2>10. Device!Disturb
    BY <2>3, <2>4, <2>5, <2>6, <2>7, <2>8, <2>9 DEF Device!Disturb, Device!OfPage, P, Q
  <2> QED
    BY <2>10 DEF Device!Next
<1>7. CASE DTransfer
  <2>1. /\ map # << >> /\ map' = Tail(map) /\ request = << >> /\ UNCHANGED <<request, phase>>
        /\ Head(map) \in DiskAccess /\ UNCHANGED tableVars
        /\ ~Head(map).write => UNCHANGED diskVars
        /\ Head(map).write =>
             /\ written' = [written EXCEPT ![Head(map).lpn] = @ \cup Head(map).sectors]
             /\ \A s \in Head(map).sectors : media'[ppn[Head(map).lpn]][s] = Head(map).lpn
             /\ \A k \in Lpns : \A s \in written[k] :
                  k # Head(map).lpn \/ s \notin Head(map).sectors =>
                    (media'[ppn[k]][s] = k <=> media[ppn[k]][s] = k)
    BY <1>7, DTransferInv
  <2>2. PICK e \in DiskAccess : e = Head(map)
    BY <2>1
  <2>3. PICK l \in Lpns, ss \in SUBSET Sectors : l = e.lpn /\ ss = e.sectors
    BY DEF DiskAccess
  <2>4. P = << Plain(e) >> /\ Q = << >>
    <3>1. map[1] = e
      BY <2>1, <2>2, InvParts, HeadPerformed
    <3>2. map' = << >>
      <4>1. map \in Seq(DiskAccess) /\ Len(map) <= 1
        <5>1. Len(request) + Len(map) <= 1 /\ map \in Seq(DiskAccess)
          BY InvParts DEF LoopType, OnePage
        <5>2. Len(request) = 0 /\ Len(map) \in Nat
          BY <2>1, <5>1, LenProperties
        <5> QED
          BY <5>1, <5>2
      <4>2. Tail(map) \in Seq(DiskAccess) /\ Len(Tail(map)) = Len(map) - 1
        BY <2>1, InvParts, HeadPerformed
      <4>3. Len(map) \in Nat /\ Len(Tail(map)) \in Nat
        BY <4>1, <4>2, LenProperties
      <4>4. Len(Tail(map)) = 0
        BY <4>1, <4>2, <4>3
      <4> QED
        BY <2>1, <4>2, <4>4, EmptySeq
    <3> QED
      BY <3>1, <3>2, <2>1, <1>1, <1>2
  <2>5. Head(P) = Plain(e) /\ Tail(P) = Q /\ P # << >>
    <3>1. \A x : Head(<< x >>) = x /\ Tail(<< x >>) = << >> /\ << x >> # << >>
      OBVIOUS
    <3> QED
      BY <3>1, <2>4
  <2>6. Plain(e).write = e.write /\ Plain(e).lpn = l /\ Plain(e).sectors = ss
    BY <2>3 DEF Plain
  <2>7. Held' = IF e.write THEN Held \cup ({l} \X ss) ELSE Held
    <3>1. CASE ~e.write
      BY <3>1, <2>1, <2>2, <1>h
    <3>2. CASE e.write
      <4>1. /\ \A k, s : <<k, s>> \in Held' <=> k \in Lpns /\ s \in written'[k] /\ media'[ppn'[k]][s] = k
            /\ \A h \in Held' : h = <<h[1], h[2]>>
        BY DEF Held, Holds
      <4>2. /\ written' = [written EXCEPT ![l] = @ \cup ss] /\ ppn' = ppn
            /\ \A s \in ss : media'[ppn[l]][s] = l
            /\ \A k \in Lpns : \A s \in written[k] :
                 k # l \/ s \notin ss => (media'[ppn[k]][s] = k <=> media[ppn[k]][s] = k)
        BY <3>2, <2>1, <2>2, <2>3 DEF tableVars
      <4>3. \A k \in Lpns : written'[k] = IF k = l THEN written[k] \cup ss ELSE written[k]
        BY <4>2, InvParts DEF DiskType
      <4> DEFINE new == Held \cup ({l} \X ss)
      <4>4. /\ \A h \in new : h = <<h[1], h[2]>>
            /\ \A k, s : <<k, s>> \in new <=> <<k, s>> \in Held \/ (k = l /\ s \in ss)
        BY HeldFacts
      <4> HIDE DEF new
      <4>5. ASSUME NEW k, NEW s PROVE <<k, s>> \in Held' <=> <<k, s>> \in new
        <5>1. CASE k = l /\ s \in ss
          BY <5>1, <4>1, <4>2, <4>3, <4>4
        <5>2. CASE ~(k = l /\ s \in ss)
          BY <5>2, <4>1, <4>2, <4>3, <4>4, HeldFacts
        <5> QED
          BY <5>1, <5>2
      <4>6. Held' = new
        BY <4>1, <4>4, <4>5
      <4> QED
        BY <3>2, <4>6 DEF new
    <3> QED
      BY <3>1, <3>2
  <2>8. Device!Perform
    BY <2>1, <2>5, <2>6, <2>7 DEF Device!Perform, P, Q
  <2> QED
    BY <2>8 DEF Device!Next
<1>8. CASE DCollectMove
  <2>1. UNCHANGED <<map, request, phase, written>> /\ Held' = Held
    BY <1>8, DCollectMoveInv, HeldKept
  <2> QED
    BY <2>1, <1>u, <1>s
<1>9. CASE DCollectRest
  <2>1. UNCHANGED <<map, request, phase>> /\ Held' = Held
    BY <1>9, InvParts, CollectRestInv, DLoopStepInv, <1>h DEF DCollectRest
  <2> QED
    BY <2>1, <1>u, <1>s
<1>10. CASE DBeat \/ DBackgroundGc
  <2>1. UNCHANGED <<map, request, phase>> /\ Held' = Held
    BY <1>10, InvParts, TimeInv, DLoopStepInv, <1>h DEF DBeat, DBackgroundGc
  <2> QED
    BY <2>1, <1>u, <1>s
<1> QED
  BY <1>3, <1>4, <1>5, <1>6, <1>7, <1>8, <1>9, <1>10 DEF DNext

(* Whatever the translation layer, the collections and time do, the host   *)
(* sees a block device, as long as a request touches one page.             *)
THEOREM DiskIsDevice ==
  ASSUME MaxPages = 1
  PROVE  DSpec => ImplementsDevice
<1>1. DInit => Device!Init
  BY DeviceInit
<1>2. DInv /\ [DNext]_allVars => [Device!Next]_(Device!bdVars)
  BY DeviceNext
<1> QED
  BY <1>1, <1>2, DiskInvariant, PTL DEF DSpec, ImplementsDevice, Device!Spec
=============================================================================
