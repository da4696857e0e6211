--------------------------- MODULE BlkDriverProofs ---------------------------
(* Theorems about BlkDriver and their proofs: for any number of pages,      *)
(* logical pages, sectors and pages per request.                            *)
EXTENDS BlkDriver, SequenceTheorems, TLAPS

Segments == [write : BOOLEAN, lpn : Lpns, sectors : SUBSET Sectors]
Entries  == [seg : Segments, ppn : Ppns \cup {Unmapped}, new_ppn : Ppns, given : BOOLEAN]
Contents == [Sectors -> Lpns \cup {Junk}]

------------------------------------------------------------------------------
(* Sequences.                                                               *)

LEMMA TailFacts ==
  ASSUME NEW S, NEW s \in Seq(S), s # << >>
  PROVE  /\ Head(s) = s[1] /\ Head(s) \in S
         /\ Tail(s) \in Seq(S) /\ Len(Tail(s)) = Len(s) - 1 /\ Len(s) \in Nat \ {0}
         /\ \A i \in 1 .. Len(s) - 1 : Tail(s)[i] = s[i + 1]
  BY HeadTailProperties, EmptySeq, LenProperties

LEMMA ReplacedFacts ==
  ASSUME NEW S, NEW s \in Seq(S), NEW i \in 1 .. Len(s), NEW e \in S
  PROVE  /\ [s EXCEPT ![i] = e] \in Seq(S) /\ Len([s EXCEPT ![i] = e]) = Len(s)
         /\ \A j \in 1 .. Len(s) : [s EXCEPT ![i] = e][j] = IF j = i THEN e ELSE s[j]
  BY ExceptSeq, LenProperties

LEMMA Numbers ==
  /\ NrPages \in Nat \ {0} /\ NrLpns \in Nat /\ MaxPages \in Nat \ {0} /\ NrLpns <= NrPages
  /\ 0 \in Ppns /\ Unmapped \notin Ppns /\ NoDftl = -1 /\ NoDftl \notin Nat
  BY DriverAssumption DEF Ppns, Unmapped, NoDftl

(* The block layer's requests: segments of different pages.                 *)
LEMMA RequestFacts ==
  ASSUME NEW r \in Requests, r[Len(r)].lpn \in Lpns
  PROVE  /\ r \in Seq(Segments) /\ Len(r) \in 1 .. MaxPages
         /\ \A i, j \in 1 .. Len(r) : i # j => r[i].lpn # r[j].lpn
<1>1. CASE \E w \in BOOLEAN, l \in Lpns, n \in 1 .. MaxPages :
             r = [i \in 1 .. n |-> Segment(w, l + i - 1, Sectors)]
  <2>1. PICK w \in BOOLEAN, l \in Lpns, n \in 1 .. MaxPages :
          r = [i \in 1 .. n |-> Segment(w, l + i - 1, Sectors)]
    BY <1>1
  <2>2. n \in Nat \ {0} /\ l \in Nat
    BY Numbers DEF Lpns
  <2>3. Len(r) = n /\ \A i \in 1 .. n : r[i] = Segment(w, l + i - 1, Sectors)
    BY <2>1, <2>2
  <2>4. l + n - 1 \in Lpns
    BY <2>2, <2>3 DEF Segment
  <2>5. \A i \in 1 .. n : l + i - 1 \in Lpns
    BY <2>2, <2>4, Numbers DEF Lpns
  <2>6. \A i \in 1 .. n : Segment(w, l + i - 1, Sectors) \in Segments
    BY <2>5 DEF Segment, Segments
  <2>7. r \in Seq(Segments)
    BY <2>1, <2>2, <2>6
  <2>8. \A i \in 1 .. n : r[i].lpn = l + i - 1
    BY <2>3 DEF Segment
  <2> QED
    BY <2>2, <2>3, <2>7, <2>8
<1>2. CASE \E w \in BOOLEAN, l \in Lpns, part \in Parts : r = <<Segment(w, l, part)>>
  <2>1. PICK w \in BOOLEAN, l \in Lpns, part \in Parts : r = <<Segment(w, l, part)>>
    BY <1>2
  <2>2. Segment(w, l, part) \in Segments
    BY DriverAssumption DEF Segment, Segments, Sectors
  <2> QED
    BY <2>1, <2>2, Numbers
<1> QED
  BY <1>1, <1>2 DEF Requests

------------------------------------------------------------------------------
(* Types.                                                                   *)

TypeInv ==
  /\ TypeOK
  /\ req \in Seq(Segments) /\ Len(req) <= MaxPages
  /\ request_map \in Seq(Entries) /\ app_map \in Seq(Entries)

LEMMA FilledFacts ==
  ASSUME NEW r \in Seq(Segments)
  PROVE  LET m == [i \in DOMAIN r |-> Entry(r[i], 0, 0, FALSE)]
         IN  /\ m \in Seq(Entries) /\ Len(m) = Len(r)
             /\ \A i \in 1 .. Len(r) : m[i].seg = r[i] /\ ~m[i].given
<1> DEFINE m == [i \in 1 .. Len(r) |-> Entry(r[i], 0, 0, FALSE)]
<1>1. Len(r) \in Nat /\ DOMAIN r = 1 .. Len(r) /\ \A i \in 1 .. Len(r) : r[i] \in Segments
  BY LenProperties, ElementOfSeq
<1>2. \A i \in 1 .. Len(r) : Entry(r[i], 0, 0, FALSE) \in Entries
  BY <1>1, Numbers DEF Entry, Entries
<1>3. m \in [1 .. Len(r) -> Entries]
  BY <1>2
<1> DEFINE n == Len(r)
<1>4. m \in Seq(Entries)
  <2>1. m \in [1 .. n -> Entries] /\ n \in Nat
    BY <1>1, <1>3
  <2> HIDE DEF m, n
  <2> QED
    BY <2>1, SeqDef
<1>6. DOMAIN m = 1 .. n /\ DOMAIN m = 1 .. Len(m) /\ n \in Nat /\ Len(m) \in Nat
  BY <1>1, <1>4, LenProperties
<1>7. Len(m) = n
  <2> HIDE DEF m, n
  <2> QED
    BY <1>6
<1>5. \A i \in 1 .. Len(r) : m[i].seg = r[i] /\ ~m[i].given
  BY DEF Entry
<1> QED
  BY <1>1, <1>4, <1>5, <1>7

LEMMA ContentsFacts ==
  /\ Blank \in Contents
  /\ \A page \in Contents, l \in Lpns, sectors \in SUBSET Sectors :
       Outdated(page, l, sectors) \in Contents
  /\ \A page \in Contents, seg \in Segments : Modified(page, seg) \in Contents
  BY DEF Blank, Contents, Outdated, Modified, Segments

LEMMA InitTypes == Init => TypeInv
<1> SUFFICES ASSUME Init PROVE TypeInv
  OBVIOUS
<1>1. Blank \in Contents
  BY ContentsFacts
<1>2. disk \in [Ppns -> Contents] /\ buff \in [ppn : Ppns, data : Contents]
  BY <1>1, Numbers DEF Init
<1>3. << >> \in Seq(Segments) /\ << >> \in Seq(Entries) /\ Len(<< >>) = 0
  OBVIOUS
<1>4. table \in [Lpns -> Ppns \cup {Unmapped}] /\ used \in NoDftl .. NrPages
  BY Numbers DEF Init
<1>5. {req_size_flag, lba_wait_flag, ppn_wait_flag, user_app, dying, lost} \subseteq BOOLEAN
  BY DEF Init
<1>6. /\ request_size \in 0 .. MaxPages /\ app_size \in 0 .. MaxPages
      /\ Len(request_map) <= MaxPages /\ Len(app_map) <= MaxPages /\ Len(req) <= MaxPages
  BY <1>3, Numbers DEF Init
<1>7. written \in [Lpns -> SUBSET Sectors]
  BY DEF Init
<1>8. /\ worker = "fetch" /\ app = "dead"
      /\ req = << >> /\ request_map = << >> /\ app_map = << >>
  BY DEF Init
<1> QED
  BY <1>2, <1>3, <1>4, <1>5, <1>6, <1>7, <1>8 DEF TypeInv, TypeOK, Contents

(* What one entry of the map makes the worker do to disk and buffer.        *)
LEMMA TransferTypes ==
  ASSUME TypeInv, Transfer
  PROVE  /\ request_map' \in Seq(Entries) /\ Len(request_map') = Len(request_map) - 1
         /\ disk' \in [Ppns -> Contents] /\ buff' \in [ppn : Ppns, data : Contents]
         /\ written' \in [Lpns -> SUBSET Sectors]
<1> DEFINE e == Head(request_map)
<1>1. /\ e \in Entries /\ request_map' \in Seq(Entries)
      /\ Len(request_map') = Len(request_map) - 1
  BY TailFacts DEF TypeInv, Transfer
<1>2. \A p : PageRead(p) \in [ppn : Ppns, data : Contents]
  BY DEF TypeInv, TypeOK, PageRead, Contents
<1>3. CASE e.seg.write
  <2>1. WriteEntry(e)
    BY <1>3 DEF Transfer
  <2>2. e.seg \in Segments /\ e.new_ppn \in Ppns
    BY <1>1 DEF Entries
  <2>3. Modified(PageRead(e.ppn).data, e.seg) \in Contents
    BY <1>2, <2>2, ContentsFacts
  <2>4. disk \in [Ppns -> Contents]
    BY DEF TypeInv, TypeOK, Contents
  <2>5. disk' \in [Ppns -> Contents]
    <3>1. \A p \in Ppns : Outdated(disk[p], e.seg.lpn, e.seg.sectors) \in Contents
      BY <2>2, <2>4, ContentsFacts DEF Segments
    <3> QED
      BY <2>1, <2>3, <3>1 DEF WriteEntry
  <2>6. buff' \in [ppn : Ppns, data : Contents]
    BY <2>1, <2>2, <2>3 DEF WriteEntry
  <2>7. written' \in [Lpns -> SUBSET Sectors]
    BY <2>1, <2>2 DEF WriteEntry, TypeInv, TypeOK, Segments
  <2> QED
    BY <1>1, <2>5, <2>6, <2>7
<1>4. CASE ~e.seg.write
  <2>1. ReadEntry(e)
    BY <1>4 DEF Transfer
  <2> QED
    BY <1>1, <1>2, <2>1 DEF ReadEntry, TypeInv, TypeOK, Contents
<1> QED
  BY <1>3, <1>4

(* The page that translating a write may give.                              *)
LEMMA GivenFacts ==
  ASSUME TypeInv, NEW l \in Lpns, NEW p \in Given(l)
  PROVE  p \in Ppns /\ (used # NoDftl => used + 1 \in NoDftl .. NrPages)
  BY Numbers DEF TypeInv, TypeOK, Given, FreeFor, NextOfDftl, Ppns

(* The step of Translate, with its entry named.                             *)
TranslateOne(i) ==
  LET seg == app_map[i].seg
  IN  IF seg.write
      THEN \E p \in Given(seg.lpn) :
             /\ app_map' = [app_map EXCEPT ![i] = Entry(seg, table[seg.lpn], p, TRUE)]
             /\ table' = [table EXCEPT ![seg.lpn] = p]
             /\ used' = IF used = NoDftl THEN used ELSE used + 1
      ELSE /\ app_map' = [app_map EXCEPT ![i] = Entry(seg, table[seg.lpn], 0, TRUE)]
           /\ UNCHANGED <<table, used>>

LEMMA TranslateFacts ==
  ASSUME TypeInv, Translate
  PROVE  \E i \in 1 .. Len(app_map) :
           /\ ~app_map[i].given /\ \A j \in 1 .. i - 1 : app_map[j].given
           /\ TranslateOne(i)
           /\ app_map' \in Seq(Entries) /\ Len(app_map') = Len(app_map)
           /\ app_map'[i].seg = app_map[i].seg /\ app_map'[i].given
           /\ \A j \in 1 .. Len(app_map) : j # i => app_map'[j] = app_map[j]
           /\ table' \in [Lpns -> Ppns \cup {Unmapped}] /\ used' \in NoDftl .. NrPages
<1>1. PICK i \in DOMAIN app_map :
        ~app_map[i].given /\ (\A j \in 1 .. i - 1 : app_map[j].given) /\ TranslateOne(i)
  BY Zenon DEF Translate, TranslateOne
<1>2. i \in 1 .. Len(app_map) /\ app_map[i] \in Entries
  BY LenProperties, ElementOfSeq DEF TypeInv
<1> DEFINE seg == app_map[i].seg
<1>3. seg \in Segments /\ seg.lpn \in Lpns /\ table[seg.lpn] \in Ppns \cup {Unmapped}
  BY <1>2 DEF Entries, Segments, TypeInv, TypeOK
<1>4. CASE seg.write
  <2>1. PICK p \in Given(seg.lpn) :
             /\ app_map' = [app_map EXCEPT ![i] = Entry(seg, table[seg.lpn], p, TRUE)]
             /\ table' = [table EXCEPT ![seg.lpn] = p]
             /\ used' = IF used = NoDftl THEN used ELSE used + 1
    BY <1>1, <1>4 DEF TranslateOne
  <2>2. p \in Ppns /\ (used # NoDftl => used + 1 \in NoDftl .. NrPages)
    BY <1>3, GivenFacts
  <2>3. Entry(seg, table[seg.lpn], p, TRUE) \in Entries
    BY <1>3, <2>2 DEF Entry, Entries
  <2>4. /\ app_map' \in Seq(Entries) /\ Len(app_map') = Len(app_map)
        /\ \A j \in 1 .. Len(app_map) :
             app_map'[j] = IF j = i THEN Entry(seg, table[seg.lpn], p, TRUE) ELSE app_map[j]
    <3> DEFINE e == Entry(seg, table[seg.lpn], p, TRUE)
    <3>1. app_map \in Seq(Entries) /\ i \in 1 .. Len(app_map) /\ e \in Entries
      BY <1>2, <2>3 DEF TypeInv
    <3>2. app_map' = [app_map EXCEPT ![i] = e]
      BY <2>1
    <3> HIDE DEF e
    <3>3. /\ app_map' \in Seq(Entries) /\ Len(app_map') = Len(app_map)
          /\ \A j \in 1 .. Len(app_map) : app_map'[j] = IF j = i THEN e ELSE app_map[j]
      BY <3>1, <3>2, ReplacedFacts
    <3> QED
      BY <3>3 DEF e
  <2>5. table' \in [Lpns -> Ppns \cup {Unmapped}] /\ used' \in NoDftl .. NrPages
    BY <2>1, <2>2 DEF TypeInv, TypeOK
  <2> QED
    BY <1>1, <1>2, <2>4, <2>5 DEF Entry
<1>5. CASE ~seg.write
  <2>1. /\ app_map' = [app_map EXCEPT ![i] = Entry(seg, table[seg.lpn], 0, TRUE)]
        /\ UNCHANGED <<table, used>>
    BY <1>1, <1>5 DEF TranslateOne
  <2>2. Entry(seg, table[seg.lpn], 0, TRUE) \in Entries
    BY <1>3, Numbers DEF Entry, Entries
  <2>3. /\ app_map' \in Seq(Entries) /\ Len(app_map') = Len(app_map)
        /\ \A j \in 1 .. Len(app_map) :
             app_map'[j] = IF j = i THEN Entry(seg, table[seg.lpn], 0, TRUE) ELSE app_map[j]
    <3> DEFINE e == Entry(seg, table[seg.lpn], 0, TRUE)
    <3>1. app_map \in Seq(Entries) /\ i \in 1 .. Len(app_map) /\ e \in Entries
      BY <1>2, <2>2 DEF TypeInv
    <3>2. app_map' = [app_map EXCEPT ![i] = e]
      BY <2>1
    <3> HIDE DEF e
    <3>3. /\ app_map' \in Seq(Entries) /\ Len(app_map') = Len(app_map)
          /\ \A j \in 1 .. Len(app_map) : app_map'[j] = IF j = i THEN e ELSE app_map[j]
      BY <3>1, <3>2, ReplacedFacts
    <3> QED
      BY <3>3 DEF e
  <2> QED
    BY <1>1, <1>2, <2>1, <2>3 DEF Entry, TypeInv, TypeOK
<1> QED
  BY <1>4, <1>5

LEMMA NextTypes == TypeInv /\ [Next]_vars => TypeInv'
<1> SUFFICES ASSUME TypeInv, [Next]_vars PROVE TypeInv'
  OBVIOUS
<1> USE DEF driverVars, flagVars, appVars, dataVars, crashVars
<1>1. CASE UNCHANGED vars
  BY <1>1 DEF TypeInv, TypeOK, vars
<1>2. CASE Fetch
  <2>1. req' \in Seq(Segments) /\ Len(req') <= MaxPages
    <3>1. PICK r \in Requests : r[Len(r)].lpn \in Lpns /\ req' = r
      BY <1>2 DEF Fetch
    <3> QED
      BY <3>1, RequestFacts, Numbers
  <2> QED
    BY <1>2, <2>1 DEF TypeInv, TypeOK, Fetch
<1>3. CASE PostSize
  <2>1. Len(req) \in 0 .. MaxPages
    BY LenProperties, Numbers DEF TypeInv
  <2> QED
    BY <1>3, <2>1 DEF TypeInv, TypeOK, PostSize
<1>4. CASE FillMap
  <2>1. request_map' \in Seq(Entries) /\ Len(request_map') <= MaxPages
    BY <1>4, FilledFacts DEF TypeInv, FillMap
  <2> QED
    BY <1>4, <2>1 DEF TypeInv, TypeOK, FillMap
<1>5. CASE PostLba
  BY <1>5 DEF TypeInv, TypeOK, PostLba
<1>6. CASE TakePpn
  BY <1>6 DEF TypeInv, TypeOK, TakePpn
<1>7. CASE Transfer
  <2>1. /\ request_map' \in Seq(Entries) /\ Len(request_map') <= MaxPages
        /\ disk' \in [Ppns -> Contents] /\ buff' \in [ppn : Ppns, data : Contents]
        /\ written' \in [Lpns -> SUBSET Sectors]
    BY <1>7, TransferTypes, LenProperties, Numbers DEF TypeInv, TypeOK
  <2>2. UNCHANGED <<worker, req, request_size, flagVars, appVars, crashVars>>
    BY <1>7 DEF Transfer
  <2> QED
    BY <2>1, <2>2 DEF TypeInv, TypeOK, Contents
<1>8. CASE EndRequest
  <2>1. << >> \in Seq(Segments) /\ Len(<< >>) <= MaxPages
    BY EmptySeq, Numbers
  <2> QED
    BY <1>8, <2>1 DEF TypeInv, TypeOK, EndRequest
<1>9. CASE Register
  <2>1. table' \in [Lpns -> Ppns \cup {Unmapped}] /\ used' \in NoDftl .. NrPages
    BY <1>9, Numbers DEF Register, FirstTables, Ppns, Lpns
  <2>2. written' \in [Lpns -> SUBSET Sectors]
    BY <1>9 DEF Register
  <2> QED
    BY <1>9, <2>1, <2>2 DEF TypeInv, TypeOK, Register
<1>10. CASE GetReqSize
  BY <1>10 DEF TypeInv, TypeOK, GetReqSize
<1>11. CASE ClearSize
  BY <1>11 DEF TypeInv, TypeOK, ClearSize, Resume
<1>12. CASE GetLbn
  BY <1>12 DEF TypeInv, TypeOK, GetLbn
<1>13. CASE ClearLba
  BY <1>13 DEF TypeInv, TypeOK, ClearLba, Resume
<1>14. CASE Translate
  <2>1. /\ app_map' \in Seq(Entries) /\ Len(app_map') = Len(app_map)
        /\ table' \in [Lpns -> Ppns \cup {Unmapped}] /\ used' \in NoDftl .. NrPages
    BY <1>14, TranslateFacts
  <2>2. UNCHANGED <<driverVars, flagVars, app, dying, app_size, dataVars, crashVars>>
    BY <1>14 DEF Translate
  <2> QED
    BY <2>1, <2>2 DEF TypeInv, TypeOK
<1>15. CASE SetPpn
  <2>1. << >> \in Seq(Entries) /\ Len(<< >>) <= MaxPages
    BY EmptySeq, Numbers
  <2> QED
    BY <1>15, <2>1 DEF TypeInv, TypeOK, SetPpn
<1>16. CASE SetFlag
  BY <1>16 DEF TypeInv, TypeOK, SetFlag, Resume
<1>17. CASE Kill
  BY <1>17 DEF TypeInv, TypeOK, Kill
<1>18. CASE Die
  <2>1. << >> \in Seq(Entries) /\ Len(<< >>) <= MaxPages /\ 0 \in 0 .. MaxPages
    BY EmptySeq, Numbers
  <2>2. lost' \in BOOLEAN /\ user_app' \in BOOLEAN
    BY <1>18 DEF Die, TypeInv, TypeOK, Unanswered
  <2> QED
    BY <1>18, <2>1, <2>2 DEF TypeInv, TypeOK, Die
<1> QED
  BY <1>1, <1>2, <1>3, <1>4, <1>5, <1>6, <1>7, <1>8, <1>9, <1>10, <1>11, <1>12, <1>13, <1>14,
     <1>15, <1>16, <1>17, <1>18 DEF Next, Worker, App

------------------------------------------------------------------------------
(* The handshake.                                                           *)

Busy    == worker \in {"alloc", "lba", "wait"}
HasSize == app \in {"get_lbn", "clear_lba", "translate", "set_flag"}

MapOfRequest(m) == Len(m) = Len(req) /\ \A i \in 1 .. Len(m) : m[i].seg = req[i]
AllGiven(m)     == \A i \in 1 .. Len(m) : m[i].given

(* request_size and request_map belong to the request.                      *)
WorkerInv ==
  /\ Busy => request_size = Len(req)
  /\ worker \in {"lba", "wait"} => MapOfRequest(request_map)
  /\ worker = "io" =>
       /\ Len(request_map) <= Len(req)
       /\ \A i \in 1 .. Len(request_map) :
            request_map[i].given /\ request_map[i].seg = req[Len(req) - Len(request_map) + i]

(* A flag is never left over: it is up only while the step it announces is  *)
(* still to be taken for the request at hand.                               *)
FlagInv ==
  /\ req_size_flag => Busy /\ ~HasSize
  /\ lba_wait_flag => worker = "wait" /\ app \notin {"translate", "set_flag"}
  /\ ppn_wait_flag => /\ worker = "wait" /\ AllGiven(request_map)
                      /\ ~req_size_flag /\ ~lba_wait_flag
                      /\ ~HasSize /\ (app = "clear_size" => dying)

(* What the application has copied belongs to the request, but for a copy   *)
(* made by an ioctl that a kill has ended.                                  *)
AppInv ==
  /\ HasSize => Busy /\ app_size = request_size
  /\ app = "clear_size" /\ ~dying => Busy /\ app_size = request_size
  /\ app \in {"clear_lba", "translate"} /\ ~dying => worker = "wait" /\ MapOfRequest(app_map)
  /\ app = "translate" => ~dying
  /\ app = "set_flag" => worker = "wait" /\ AllGiven(request_map)

(* A request that nobody has in hand was lost.                              *)
CrashInv ==
  /\ Unanswered => lost \/ HasSize \/ app = "exit"
  /\ worker = "wait" /\ ~ppn_wait_flag /\ ~lba_wait_flag =>
       lost \/ (~req_size_flag /\ app \in {"translate", "set_flag", "exit"})

Handshake == WorkerInv /\ FlagInv /\ AppInv /\ CrashInv

LEMMA InitHandshake == Init => Handshake
  BY DEF Init, Handshake, WorkerInv, FlagInv, AppInv, CrashInv, Busy, HasSize, Unanswered

LEMMA NextWorker == TypeInv /\ Handshake /\ [Next]_vars => WorkerInv'
<1> SUFFICES ASSUME TypeInv, Handshake, [Next]_vars PROVE WorkerInv'
  OBVIOUS
<1> USE DEF driverVars, flagVars, appVars, dataVars, crashVars, Handshake
<1>1. CASE UNCHANGED vars
  BY <1>1 DEF WorkerInv, MapOfRequest, AllGiven, Busy, vars
<1>2. CASE Fetch
  BY <1>2 DEF WorkerInv, MapOfRequest, AllGiven, Busy, Fetch
<1>3. CASE PostSize
  BY <1>3 DEF WorkerInv, MapOfRequest, AllGiven, Busy, PostSize
<1>4. CASE FillMap
  <2>1. /\ Len(request_map') = Len(req)
        /\ \A i \in 1 .. Len(req) : request_map'[i].seg = req[i]
    BY <1>4, FilledFacts DEF TypeInv, FillMap
  <2> QED
    BY <1>4, <2>1 DEF WorkerInv, MapOfRequest, Busy, FillMap
<1>5. CASE PostLba
  BY <1>5 DEF WorkerInv, MapOfRequest, AllGiven, Busy, PostLba
<1>6. CASE TakePpn
  <2>1. Len(req) \in Nat
    BY LenProperties DEF TypeInv
  <2>2. MapOfRequest(request_map) /\ AllGiven(request_map) /\ worker' = "io"
        /\ UNCHANGED <<req, request_map>>
    BY <1>6 DEF TakePpn, WorkerInv, FlagInv
  <2> QED
    BY <2>1, <2>2 DEF WorkerInv, MapOfRequest, AllGiven, Busy
<1>7. CASE Transfer
  <2> DEFINE m == request_map
  <2>1. /\ Len(m') = Len(m) - 1 /\ Len(m) \in Nat \ {0}
        /\ \A i \in 1 .. Len(m) - 1 : m'[i] = m[i + 1]
    BY <1>7, TailFacts DEF TypeInv, Transfer
  <2>2. /\ Len(m) <= Len(req) /\ Len(req) \in Nat
        /\ \A i \in 1 .. Len(m) : m[i].given /\ m[i].seg = req[Len(req) - Len(m) + i]
    BY <1>7, LenProperties DEF TypeInv, Transfer, WorkerInv
  <2>3. UNCHANGED <<worker, req, request_size>> /\ worker = "io"
    BY <1>7 DEF Transfer
  <2> HIDE DEF m
  <2>4. ASSUME NEW i \in 1 .. Len(m')
        PROVE  m'[i].given /\ m'[i].seg = req[Len(req) - Len(m') + i]
    <3>1. i + 1 \in 1 .. Len(m) /\ i \in 1 .. Len(m) - 1
      BY <2>1
    <3>2. Len(req) - Len(m') + i = Len(req) - Len(m) + (i + 1)
      BY <2>1, <2>2
    <3> QED
      BY <3>1, <3>2, <2>1, <2>2
  <2>5. Len(m') <= Len(req)
    BY <2>1, <2>2
  <2> QED
    BY <2>3, <2>4, <2>5 DEF WorkerInv, Busy, m
<1>8. CASE EndRequest
  BY <1>8 DEF WorkerInv, MapOfRequest, AllGiven, Busy, EndRequest
<1>9. CASE Register
  BY <1>9 DEF WorkerInv, MapOfRequest, AllGiven, Busy, Register
<1>10. CASE GetReqSize
  BY <1>10 DEF WorkerInv, MapOfRequest, AllGiven, Busy, GetReqSize
<1>11. CASE ClearSize
  BY <1>11 DEF WorkerInv, MapOfRequest, AllGiven, Busy, ClearSize, Resume
<1>12. CASE GetLbn
  BY <1>12 DEF WorkerInv, MapOfRequest, AllGiven, Busy, GetLbn
<1>13. CASE ClearLba
  BY <1>13 DEF WorkerInv, MapOfRequest, AllGiven, Busy, ClearLba, Resume
<1>14. CASE Translate
  <2>1. UNCHANGED driverVars
    BY <1>14 DEF Translate
  <2> QED
    BY <2>1 DEF WorkerInv, MapOfRequest, Busy
<1>15. CASE SetPpn
  <2>1. worker = "wait" /\ MapOfRequest(app_map)
    BY <1>15 DEF SetPpn, AppInv
  <2> QED
    BY <1>15, <2>1 DEF WorkerInv, MapOfRequest, Busy, SetPpn
<1>16. CASE SetFlag
  BY <1>16 DEF WorkerInv, MapOfRequest, AllGiven, Busy, SetFlag, Resume
<1>17. CASE Kill
  BY <1>17 DEF WorkerInv, MapOfRequest, AllGiven, Busy, Kill, InUserMode, InIoctl
<1>18. CASE Die
  BY <1>18 DEF WorkerInv, MapOfRequest, AllGiven, Busy, Die
<1> QED
  BY <1>1, <1>2, <1>3, <1>4, <1>5, <1>6, <1>7, <1>8, <1>9, <1>10, <1>11, <1>12, <1>13, <1>14,
     <1>15, <1>16, <1>17, <1>18 DEF Next, Worker, App

LEMMA NextFlag == TypeInv /\ Handshake /\ [Next]_vars => FlagInv'
<1> SUFFICES ASSUME TypeInv, Handshake, [Next]_vars PROVE FlagInv'
  OBVIOUS
<1> USE DEF driverVars, flagVars, appVars, dataVars, crashVars, Handshake
<1>1. CASE UNCHANGED vars
  BY <1>1 DEF FlagInv, AllGiven, Busy, HasSize, vars
<1>2. CASE Fetch
  BY <1>2 DEF FlagInv, AllGiven, Busy, HasSize, Fetch
<1>3. CASE PostSize
  BY <1>3 DEF FlagInv, AppInv, AllGiven, Busy, HasSize, PostSize
<1>4. CASE FillMap
  BY <1>4 DEF FlagInv, AllGiven, Busy, HasSize, FillMap
<1>5. CASE PostLba
  BY <1>5 DEF FlagInv, AppInv, AllGiven, Busy, HasSize, PostLba
<1>6. CASE TakePpn
  BY <1>6 DEF FlagInv, AllGiven, Busy, HasSize, TakePpn
<1>7. CASE Transfer
  BY <1>7 DEF FlagInv, AllGiven, Busy, HasSize, Transfer
<1>8. CASE EndRequest
  BY <1>8 DEF FlagInv, AllGiven, Busy, HasSize, EndRequest
<1>9. CASE Register
  BY <1>9 DEF FlagInv, AllGiven, Busy, HasSize, Register
<1>10. CASE GetReqSize
  BY <1>10 DEF FlagInv, AppInv, AllGiven, Busy, HasSize, GetReqSize
<1>11. CASE ClearSize
  BY <1>11 DEF FlagInv, AppInv, AllGiven, Busy, HasSize, ClearSize, Resume
<1>12. CASE GetLbn
  BY <1>12 DEF FlagInv, AppInv, AllGiven, Busy, HasSize, GetLbn
<1>13. CASE ClearLba
  BY <1>13 DEF FlagInv, AppInv, AllGiven, Busy, HasSize, ClearLba, Resume
<1>14. CASE Translate
  <2>1. UNCHANGED <<driverVars, flagVars, app, dying>>
    BY <1>14 DEF Translate
  <2> QED
    BY <2>1 DEF FlagInv, AllGiven, Busy, HasSize
<1>15. CASE SetPpn
  BY <1>15 DEF FlagInv, AppInv, AllGiven, Busy, HasSize, SetPpn
<1>16. CASE SetFlag
  BY <1>16 DEF FlagInv, AppInv, AllGiven, Busy, HasSize, SetFlag, Resume
<1>17. CASE Kill
  BY <1>17 DEF FlagInv, AllGiven, Busy, HasSize, Kill, InUserMode, InIoctl
<1>18. CASE Die
  BY <1>18 DEF FlagInv, AllGiven, Busy, HasSize, Die
<1> QED
  BY <1>1, <1>2, <1>3, <1>4, <1>5, <1>6, <1>7, <1>8, <1>9, <1>10, <1>11, <1>12, <1>13, <1>14,
     <1>15, <1>16, <1>17, <1>18 DEF Next, Worker, App

LEMMA NextApp == TypeInv /\ Handshake /\ [Next]_vars => AppInv'
<1> SUFFICES ASSUME TypeInv, Handshake, [Next]_vars PROVE AppInv'
  OBVIOUS
<1> USE DEF driverVars, flagVars, appVars, dataVars, crashVars, Handshake
<1>1. CASE UNCHANGED vars
  BY <1>1 DEF AppInv, MapOfRequest, AllGiven, Busy, HasSize, vars
<1>2. CASE Fetch
  BY <1>2 DEF AppInv, MapOfRequest, AllGiven, Busy, HasSize, Fetch
<1>3. CASE PostSize
  BY <1>3 DEF AppInv, FlagInv, WorkerInv, MapOfRequest, AllGiven, Busy, HasSize, PostSize
<1>4. CASE FillMap
  BY <1>4 DEF AppInv, MapOfRequest, AllGiven, Busy, HasSize, FillMap
<1>5. CASE PostLba
  BY <1>5 DEF AppInv, MapOfRequest, AllGiven, Busy, HasSize, PostLba
<1>6. CASE TakePpn
  BY <1>6 DEF AppInv, FlagInv, WorkerInv, MapOfRequest, AllGiven, Busy, HasSize, TakePpn
<1>7. CASE Transfer
  <2>1. UNCHANGED <<worker, req, request_size, flagVars, appVars>> /\ worker = "io"
    BY <1>7 DEF Transfer
  <2> QED
    BY <2>1 DEF AppInv, MapOfRequest, Busy, HasSize
<1>8. CASE EndRequest
  BY <1>8 DEF AppInv, MapOfRequest, AllGiven, Busy, HasSize, EndRequest
<1>9. CASE Register
  BY <1>9 DEF AppInv, MapOfRequest, AllGiven, Busy, HasSize, Register
<1>10. CASE GetReqSize
  BY <1>10 DEF AppInv, FlagInv, WorkerInv, MapOfRequest, AllGiven, Busy, HasSize, GetReqSize
<1>11. CASE ClearSize
  BY <1>11 DEF AppInv, FlagInv, WorkerInv, MapOfRequest, AllGiven, Busy, HasSize, ClearSize, Resume
<1>12. CASE GetLbn
  <2>1. ~dying => worker = "wait" /\ MapOfRequest(request_map)
    BY <1>12 DEF GetLbn, FlagInv, WorkerInv
  <2> QED
    BY <1>12, <2>1 DEF AppInv, MapOfRequest, Busy, HasSize, GetLbn
<1>13. CASE ClearLba
  BY <1>13 DEF AppInv, MapOfRequest, AllGiven, Busy, HasSize, ClearLba, Resume
<1>14. CASE Translate
  <2>1. /\ UNCHANGED <<driverVars, flagVars, app, dying, app_size>>
        /\ app = "translate" /\ worker = "wait" /\ MapOfRequest(app_map)
    BY <1>14 DEF Translate, AppInv
  <2>2. PICK i \in 1 .. Len(app_map) :
          /\ Len(app_map') = Len(app_map) /\ app_map'[i].seg = app_map[i].seg
          /\ \A j \in 1 .. Len(app_map) : j # i => app_map'[j] = app_map[j]
    BY <1>14, TranslateFacts
  <2>3. MapOfRequest(app_map)'
    BY <2>1, <2>2 DEF MapOfRequest
  <2> QED
    BY <2>1, <2>3 DEF AppInv, AllGiven, Busy, HasSize
<1>15. CASE SetPpn
  <2>1. worker = "wait" /\ MapOfRequest(app_map) /\ app_size = Len(app_map)
    BY <1>15 DEF SetPpn, AppInv, WorkerInv, MapOfRequest, HasSize, Busy
  <2>2. AllGiven(app_map)
    <3>1. DOMAIN app_map = 1 .. Len(app_map)
      BY LenProperties DEF TypeInv
    <3> QED
      BY <1>15, <2>1, <3>1 DEF SetPpn, AllGiven
  <2> QED
    BY <1>15, <2>1, <2>2 DEF AppInv, AllGiven, Busy, HasSize, SetPpn
<1>16. CASE SetFlag
  BY <1>16 DEF AppInv, MapOfRequest, AllGiven, Busy, HasSize, SetFlag, Resume
<1>17. CASE Kill
  BY <1>17 DEF AppInv, MapOfRequest, AllGiven, Busy, HasSize, Kill, InUserMode, InIoctl
<1>18. CASE Die
  BY <1>18 DEF AppInv, MapOfRequest, AllGiven, Busy, HasSize, Die
<1> QED
  BY <1>1, <1>2, <1>3, <1>4, <1>5, <1>6, <1>7, <1>8, <1>9, <1>10, <1>11, <1>12, <1>13, <1>14,
     <1>15, <1>16, <1>17, <1>18 DEF Next, Worker, App

LEMMA NextCrash == TypeInv /\ Handshake /\ [Next]_vars => CrashInv'
<1> SUFFICES ASSUME TypeInv, Handshake, [Next]_vars PROVE CrashInv'
  OBVIOUS
<1> USE DEF driverVars, flagVars, appVars, dataVars, crashVars, Handshake
<1>1. CASE UNCHANGED vars
  BY <1>1 DEF CrashInv, FlagInv, AppInv, Unanswered, HasSize, vars
<1>2. CASE Fetch
  BY <1>2 DEF CrashInv, FlagInv, AppInv, Unanswered, HasSize, Fetch
<1>3. CASE PostSize
  BY <1>3 DEF CrashInv, FlagInv, AppInv, WorkerInv, Unanswered, Busy, HasSize, TypeInv, TypeOK, PostSize
<1>4. CASE FillMap
  BY <1>4 DEF CrashInv, FlagInv, AppInv, Unanswered, HasSize, FillMap
<1>5. CASE PostLba
  BY <1>5 DEF CrashInv, FlagInv, AppInv, WorkerInv, Unanswered, Busy, HasSize, TypeInv, TypeOK, PostLba
<1>6. CASE TakePpn
  BY <1>6 DEF CrashInv, FlagInv, AppInv, Unanswered, HasSize, TakePpn
<1>7. CASE Transfer
  <2>1. UNCHANGED <<worker, req, request_size, flagVars, appVars, crashVars>> /\ worker = "io"
    BY <1>7 DEF Transfer
  <2> QED
    BY <2>1 DEF CrashInv, Unanswered, HasSize
<1>8. CASE EndRequest
  BY <1>8 DEF CrashInv, FlagInv, AppInv, Unanswered, HasSize, EndRequest
<1>9. CASE Register
  BY <1>9 DEF CrashInv, FlagInv, AppInv, WorkerInv, Unanswered, Busy, HasSize, TypeInv, TypeOK, Register
<1>10. CASE GetReqSize
  BY <1>10 DEF CrashInv, FlagInv, AppInv, WorkerInv, Unanswered, Busy, HasSize, TypeInv, TypeOK, GetReqSize
<1>11. CASE ClearSize
  BY <1>11 DEF CrashInv, FlagInv, AppInv, WorkerInv, Unanswered, Busy, HasSize, TypeInv, TypeOK, ClearSize, Resume
<1>12. CASE GetLbn
  BY <1>12 DEF CrashInv, FlagInv, AppInv, WorkerInv, Unanswered, Busy, HasSize, TypeInv, TypeOK, GetLbn
<1>13. CASE ClearLba
  BY <1>13 DEF CrashInv, FlagInv, AppInv, WorkerInv, Unanswered, Busy, HasSize, TypeInv, TypeOK, ClearLba, Resume
<1>14. CASE Translate
  <2>1. UNCHANGED <<driverVars, flagVars, app, dying, crashVars>>
    BY <1>14 DEF Translate
  <2> QED
    BY <2>1 DEF CrashInv, Unanswered, HasSize
<1>15. CASE SetPpn
  BY <1>15 DEF CrashInv, FlagInv, AppInv, Unanswered, HasSize, SetPpn
<1>16. CASE SetFlag
  BY <1>16 DEF CrashInv, FlagInv, AppInv, WorkerInv, Unanswered, Busy, HasSize, TypeInv, TypeOK, SetFlag, Resume
<1>17. CASE Kill
  BY <1>17 DEF CrashInv, FlagInv, AppInv, WorkerInv, Unanswered, Busy, HasSize, TypeInv, TypeOK, Kill, InUserMode, InIoctl
<1>18. CASE Die
  BY <1>18 DEF CrashInv, FlagInv, AppInv, WorkerInv, Unanswered, Busy, HasSize, TypeInv, TypeOK, Die
<1> QED
  BY <1>1, <1>2, <1>3, <1>4, <1>5, <1>6, <1>7, <1>8, <1>9, <1>10, <1>11, <1>12, <1>13, <1>14,
     <1>15, <1>16, <1>17, <1>18 DEF Next, Worker, App

------------------------------------------------------------------------------
(* The page buffer.                                                         *)

LEMMA NextBuffer == TypeInv /\ BufferMatchesDisk /\ [Next]_vars => BufferMatchesDisk'
<1> SUFFICES ASSUME TypeInv, BufferMatchesDisk, [Next]_vars PROVE BufferMatchesDisk'
  OBVIOUS
<1>1. CASE Transfer
  <2> DEFINE e == Head(request_map)
  <2>1. e \in Entries
    BY <1>1, TailFacts DEF TypeInv, Transfer
  <2>2. disk \in [Ppns -> Contents] /\ buff.ppn \in Ppns /\ buff.data = disk[buff.ppn]
    BY DEF BufferMatchesDisk, TypeInv, TypeOK, Contents
  <2>3. CASE e.seg.write
    <3>1. WriteEntry(e) /\ e.new_ppn \in Ppns
      BY <1>1, <2>1, <2>3 DEF Transfer, Entries
    <3> QED
      BY <3>1 DEF WriteEntry, BufferMatchesDisk
  <2>4. CASE ~e.seg.write
    <3>1. ReadEntry(e)
      BY <1>1, <2>4 DEF Transfer
    <3> QED
      BY <2>2, <3>1 DEF ReadEntry, PageRead, BufferMatchesDisk
  <2> QED
    BY <2>3, <2>4
<1>2. CASE ~Transfer
  <2>1. UNCHANGED <<disk, buff>>
    BY <1>2 DEF Next, Worker, App, Fetch, PostSize, FillMap, PostLba, TakePpn, EndRequest,
       Register, GetReqSize, ClearSize, GetLbn, ClearLba, Translate, SetPpn, SetFlag, Kill,
       Die, vars, dataVars
  <2> QED
    BY <2>1 DEF BufferMatchesDisk
<1> QED
  BY <1>1, <1>2

------------------------------------------------------------------------------
(* The data.                                                                *)

(* The map whose translated entries are still to be transferred.            *)
OnItsWay ==
  IF worker = "io" \/ ppn_wait_flag \/ app = "set_flag" THEN request_map
  ELSE IF app = "translate" THEN app_map ELSE << >>

Pending(l) ==
  \E i \in 1 .. Len(OnItsWay) : OnItsWay[i].given /\ OnItsWay[i].seg.lpn = l

(* Page p holds everything that was written to l.                           *)
Intact(l, p) == \A s \in written[l] : p \in Ppns /\ disk[p][s] = l

(* An entry was made for the table that is in use; after a restart of the   *)
(* application an older one may be on its way still.                        *)
Fresh(l) == written[l] # {} \/ app = "translate"

(* An entry leads from a page that holds its lpn's data to the table's, and *)
(* spoils neither the table's pages of other lpns nor those that entries    *)
(* behind it start from.                                                    *)
EntryInv(i) ==
  LET m == OnItsWay
      l == m[i].seg.lpn
  IN  /\ Intact(l, m[i].ppn)
      /\ Fresh(l) => table[l] = IF m[i].seg.write THEN m[i].new_ppn ELSE m[i].ppn
      /\ m[i].seg.write =>
           /\ \A k \in Lpns : k # l /\ written[k] # {} => m[i].new_ppn # table[k]
           /\ \A j \in 1 .. Len(m) :
                m[j].given /\ j > i /\ written[m[j].seg.lpn] # {} => m[i].new_ppn # m[j].ppn
           /\ \A j \in 1 .. Len(m) :
                m[j].given /\ j # i /\ m[j].seg.write => m[i].new_ppn # m[j].new_ppn

Placed ==
  /\ \A i \in 1 .. Len(OnItsWay) : OnItsWay[i].given => EntryInv(i)
  /\ \A l \in Lpns : ~Pending(l) => Intact(l, table[l])

(* The application has died between its translation and its answer: the     *)
(* table is of no use, and nobody uses it.                                  *)
Stuck == app \in {"exit", "dead"} /\ worker = "wait" /\ ~ppn_wait_flag

TableInv ==
  /\ \A k, l \in Lpns : table[k] = table[l] /\ table[k] # Unmapped => k = l
  /\ used # NoDftl => \A l \in Lpns : table[l] = Unmapped \/ table[l] < used

DistinctInv == \A i, j \in 1 .. Len(req) : i # j => req[i].lpn # req[j].lpn

NotGiven(m) == \A i \in 1 .. Len(m) : ~m[i].given

GivenInv ==
  /\ worker \in {"lba", "wait"} /\ ~ppn_wait_flag /\ app # "set_flag" => NotGiven(request_map)
  /\ app = "clear_lba" /\ ~dying => NotGiven(app_map)
  /\ app = "translate" =>
       \A i, j \in 1 .. Len(app_map) : i < j /\ app_map[j].given => app_map[i].given

DataInv == TableInv /\ DistinctInv /\ GivenInv /\ (Stuck \/ Placed)

LEMMA InitData == Init => DataInv
<1> SUFFICES ASSUME Init PROVE DataInv
  OBVIOUS
<1>1. TableInv
  BY DEF Init, TableInv
<1>2. DistinctInv /\ GivenInv
  BY DEF Init, DistinctInv, GivenInv, NotGiven
<1>3. OnItsWay = << >> /\ \A l \in Lpns : written[l] = {}
  BY DEF Init, OnItsWay
<1>4. Placed
  BY <1>3 DEF Placed, Intact
<1> QED
  BY <1>1, <1>2, <1>4 DEF DataInv

LEMMA NextDistinct == DistinctInv /\ [Next]_vars => DistinctInv'
<1> SUFFICES ASSUME DistinctInv, [Next]_vars PROVE DistinctInv'
  OBVIOUS
<1>1. CASE Fetch
  <2>1. PICK r \in Requests : r[Len(r)].lpn \in Lpns /\ req' = r
    BY <1>1 DEF Fetch
  <2> QED
    BY <2>1, RequestFacts DEF DistinctInv
<1>2. CASE EndRequest
  BY <1>2 DEF EndRequest, DistinctInv
<1>3. CASE ~Fetch /\ ~EndRequest
  <2>1. UNCHANGED req
    BY <1>3 DEF Next, Worker, App, PostSize, FillMap, PostLba, TakePpn, Transfer, Register,
       GetReqSize, ClearSize, GetLbn, ClearLba, Translate, SetPpn, SetFlag, Kill, Die,
       vars, driverVars
  <2> QED
    BY <2>1 DEF DistinctInv
<1> QED
  BY <1>1, <1>2, <1>3

(* A page given to an lpn is the page of no other.                          *)
LEMMA GivenIsNew ==
  ASSUME TypeInv, TableInv, NEW l \in Lpns, NEW p \in Given(l), NEW k \in Lpns, k # l
  PROVE  table[k] # p
<1>1. CASE used = NoDftl
  BY <1>1 DEF Given, FreeFor
<1>2. CASE used # NoDftl
  <2>1. p = used /\ p \in Ppns
    BY <1>2 DEF Given, NextOfDftl
  <2>2. table[k] = Unmapped \/ table[k] < used
    BY <1>2 DEF TableInv
  <2> QED
    BY <2>1, <2>2, Numbers DEF Ppns, Unmapped
<1> QED
  BY <1>1, <1>2

LEMMA NextTable == TypeInv /\ TableInv /\ [Next]_vars => TableInv'
<1> SUFFICES ASSUME TypeInv, TableInv, [Next]_vars PROVE TableInv'
  OBVIOUS
<1>1. CASE Register
  <2>1. \A l \in Lpns : l \in Ppns
    BY Numbers DEF Lpns, Ppns
  <2>2. \/ used' = NoDftl /\ table' \in FirstTables
        \/ used' = 0 /\ table' = [l \in Lpns |-> Unmapped]
    BY <1>1 DEF Register
  <2> QED
    BY <2>1, <2>2, Numbers DEF TableInv, FirstTables
<1>2. CASE Translate
  <2>1. PICK i \in 1 .. Len(app_map) : TranslateOne(i)
    BY <1>2, TranslateFacts
  <2> DEFINE l == app_map[i].seg.lpn
  <2>2. l \in Lpns
    <3>1. app_map[i] \in Entries
      BY ElementOfSeq DEF TypeInv
    <3> QED
      BY <3>1 DEF Entries, Segments
  <2>3. CASE app_map[i].seg.write
    <3>1. PICK p \in Given(l) : /\ table' = [table EXCEPT ![l] = p]
                                /\ used' = IF used = NoDftl THEN used ELSE used + 1
      BY <2>1, <2>3 DEF TranslateOne
    <3>2. p \in Ppns /\ \A k \in Lpns : k # l => table[k] # p
      BY <2>2, GivenFacts, GivenIsNew
    <3>3. \A k \in Lpns : table'[k] = IF k = l THEN p ELSE table[k]
      BY <2>2, <3>1 DEF TypeInv, TypeOK
    <3>4. \A k, j \in Lpns : table'[k] = table'[j] /\ table'[k] # Unmapped => k = j
      BY <3>2, <3>3 DEF TableInv
    <3>5. ASSUME used' # NoDftl, NEW k \in Lpns PROVE table'[k] = Unmapped \/ table'[k] < used'
      <4>1. used # NoDftl /\ used' = used + 1 /\ p = used
        BY <3>1, <3>5 DEF Given, NextOfDftl
      <4>2. table[k] = Unmapped \/ table[k] < used
        BY <4>1 DEF TableInv
      <4>3. table[k] \in Nat /\ used \in Int
        BY Numbers DEF TypeInv, TypeOK, Ppns, Unmapped
      <4> QED
        BY <3>3, <4>1, <4>2, <4>3
    <3> QED
      BY <3>4, <3>5 DEF TableInv
  <2>4. CASE ~app_map[i].seg.write
    <3>1. UNCHANGED <<table, used>>
      BY <2>1, <2>4 DEF TranslateOne
    <3> QED
      BY <3>1 DEF TableInv
  <2> QED
    BY <2>3, <2>4
<1>3. CASE ~Register /\ ~Translate
  <2>1. UNCHANGED <<table, used>>
    BY <1>3 DEF Next, Worker, App, Fetch, PostSize, FillMap, PostLba, TakePpn, Transfer,
       EndRequest, GetReqSize, ClearSize, GetLbn, ClearLba, SetPpn, SetFlag, Kill, Die,
       vars, appVars
  <2> QED
    BY <2>1 DEF TableInv
<1> QED
  BY <1>1, <1>2, <1>3

LEMMA NextGiven == TypeInv /\ Handshake /\ GivenInv /\ [Next]_vars => GivenInv'
<1> SUFFICES ASSUME TypeInv, Handshake, GivenInv, [Next]_vars PROVE GivenInv'
  OBVIOUS
<1> USE DEF driverVars, flagVars, appVars, dataVars, crashVars, Handshake
<1>1. CASE UNCHANGED vars
  BY <1>1 DEF GivenInv, NotGiven, AppInv, FlagInv, HasSize, Busy, vars
<1>2. CASE Fetch
  BY <1>2 DEF GivenInv, NotGiven, AppInv, FlagInv, HasSize, Busy, Fetch
<1>3. CASE PostSize
  BY <1>3 DEF GivenInv, NotGiven, AppInv, FlagInv, HasSize, Busy, PostSize
<1>4. CASE FillMap
  <2>1. Len(request_map') = Len(req) /\ \A i \in 1 .. Len(req) : ~request_map'[i].given
    BY <1>4, FilledFacts DEF TypeInv, FillMap
  <2> QED
    BY <1>4, <2>1 DEF GivenInv, NotGiven, FillMap, AppInv
<1>5. CASE PostLba
  BY <1>5 DEF GivenInv, NotGiven, AppInv, FlagInv, HasSize, Busy, PostLba
<1>6. CASE TakePpn
  BY <1>6 DEF GivenInv, NotGiven, AppInv, FlagInv, HasSize, Busy, TakePpn
<1>7. CASE Transfer
  <2>1. UNCHANGED <<worker, flagVars, appVars>> /\ worker = "io"
    BY <1>7 DEF Transfer
  <2> QED
    BY <2>1 DEF GivenInv, NotGiven
<1>8. CASE EndRequest
  BY <1>8 DEF GivenInv, NotGiven, AppInv, FlagInv, HasSize, Busy, EndRequest
<1>9. CASE Register
  BY <1>9 DEF GivenInv, NotGiven, AppInv, FlagInv, HasSize, Busy, Register
<1>10. CASE GetReqSize
  BY <1>10 DEF GivenInv, NotGiven, AppInv, FlagInv, HasSize, Busy, GetReqSize
<1>11. CASE ClearSize
  BY <1>11 DEF GivenInv, NotGiven, AppInv, FlagInv, HasSize, Busy, ClearSize, Resume
<1>12. CASE GetLbn
  BY <1>12 DEF GivenInv, NotGiven, AppInv, FlagInv, HasSize, Busy, GetLbn
<1>13. CASE ClearLba
  BY <1>13 DEF GivenInv, NotGiven, AppInv, FlagInv, HasSize, Busy, ClearLba, Resume
<1>14. CASE Translate
  <2>1. /\ UNCHANGED <<driverVars, flagVars, app, dying>> /\ app = "translate"
    BY <1>14 DEF Translate
  <2>2. PICK i \in 1 .. Len(app_map) :
          /\ \A j \in 1 .. i - 1 : app_map[j].given
          /\ Len(app_map') = Len(app_map) /\ app_map'[i].given
          /\ \A j \in 1 .. Len(app_map) : j # i => app_map'[j] = app_map[j]
    BY <1>14, TranslateFacts
  <2>3. Len(app_map) \in Nat
    BY LenProperties DEF TypeInv
  <2>4. ASSUME NEW j \in 1 .. Len(app_map), NEW k \in 1 .. Len(app_map), j < k, app_map'[k].given
        PROVE  app_map'[j].given
    <3>1. CASE k = i
      <4>1. j \in 1 .. i - 1 /\ j # i
        BY <2>3, <2>4, <3>1
      <4> QED
        BY <2>2, <4>1
    <3>2. CASE k # i
      <4>1. app_map[k].given
        BY <2>2, <2>4, <3>2
      <4>2. app_map[j].given
        BY <2>1, <2>4, <4>1 DEF GivenInv
      <4> QED
        BY <2>2, <4>2
    <3> QED
      BY <3>1, <3>2
  <2> QED
    BY <2>1, <2>2, <2>4 DEF GivenInv, NotGiven
<1>15. CASE SetPpn
  BY <1>15 DEF GivenInv, NotGiven, AppInv, FlagInv, HasSize, Busy, SetPpn
<1>16. CASE SetFlag
  BY <1>16 DEF GivenInv, NotGiven, AppInv, FlagInv, HasSize, Busy, SetFlag, Resume
<1>17. CASE Kill
  BY <1>17 DEF GivenInv, NotGiven, AppInv, FlagInv, HasSize, Busy, Kill, InUserMode, InIoctl
<1>18. CASE Die
  BY <1>18 DEF GivenInv, NotGiven, AppInv, FlagInv, HasSize, Busy, Die
<1> QED
  BY <1>1, <1>2, <1>3, <1>4, <1>5, <1>6, <1>7, <1>8, <1>9, <1>10, <1>11, <1>12, <1>13, <1>14,
     <1>15, <1>16, <1>17, <1>18 DEF Next, Worker, App

LEMMA PlacedUnmoved ==
  ASSUME Placed, OnItsWay' = OnItsWay, UNCHANGED <<table, written, disk>>,
         app' = "translate" => app = "translate"
  PROVE  Placed'
  BY DEF Placed, EntryInv, Pending, Intact, Fresh

(* The worker transfers an entry.                                           *)
LEMMA TransferPlaced ==
  ASSUME TypeInv, Handshake, BufferMatchesDisk, DistinctInv, Placed, Transfer
  PROVE  Placed'
<1> DEFINE m == request_map
           Kept(k, q) == \A s \in written'[k] : q \in Ppns /\ disk'[q][s] = k
<1>0. PICK e : e = m[1]
  OBVIOUS
<1> DEFINE l == e.seg.lpn
<1>1. /\ worker = "io" /\ worker' = "io" /\ UNCHANGED <<req, app, table>>
      /\ m # << >> /\ m' = Tail(m)
  BY DEF Transfer, appVars
<1>2. OnItsWay = m /\ OnItsWay' = m'
  BY <1>1 DEF OnItsWay
<1>3. /\ Len(m') = Len(m) - 1 /\ Len(m) \in Nat \ {0} /\ Head(m) = e /\ e \in Entries
      /\ \A i \in 1 .. Len(m') : m'[i] = m[i + 1]
  BY <1>0, <1>1, TailFacts DEF TypeInv
<1>4. /\ \A i \in 1 .. Len(m) : m[i].given /\ m[i].seg \in Segments /\ m[i].seg.lpn \in Lpns
      /\ \A i, j \in 1 .. Len(m) : i # j => m[i].seg.lpn # m[j].seg.lpn
  <2>1. Len(req) \in Nat /\ Len(m) <= Len(req)
    BY <1>1, LenProperties DEF TypeInv, Handshake, WorkerInv
  <2>2. \A i \in 1 .. Len(m) :
          m[i].given /\ m[i].seg = req[Len(req) - Len(m) + i] /\ Len(req) - Len(m) + i \in 1 .. Len(req)
    BY <1>1, <1>3, <2>1 DEF Handshake, WorkerInv
  <2>3. \A i \in 1 .. Len(m) : m[i] \in Entries
    BY ElementOfSeq DEF TypeInv
  <2>4. ASSUME NEW i \in 1 .. Len(m), NEW j \in 1 .. Len(m), i # j
        PROVE  m[i].seg.lpn # m[j].seg.lpn
    <3>1. Len(req) - Len(m) + i # Len(req) - Len(m) + j
      BY <1>3, <2>1, <2>4
    <3> QED
      BY <2>2, <3>1 DEF DistinctInv
  <2> QED
    BY <2>2, <2>3, <2>4 DEF Entries, Segments
<1>5. 1 \in 1 .. Len(m) /\ l \in Lpns /\ e.seg \in Segments
  BY <1>0, <1>3, <1>4
<1> HIDE DEF m
<1>6. \A k \in Lpns : ~Pending(k)' => ~Pending(k) \/ k = l
  <2> SUFFICES ASSUME NEW k \in Lpns, Pending(k), k # l PROVE Pending(k)'
    OBVIOUS
  <2>1. PICK i \in 1 .. Len(m) : m[i].given /\ m[i].seg.lpn = k
    BY <1>2 DEF Pending
  <2>2. i - 1 \in 1 .. Len(m') /\ m'[i - 1] = m[i]
    <3>1. i # 1
      BY <1>0, <2>1
    <3>2. i - 1 \in 1 .. Len(m') /\ (i - 1) + 1 = i
      BY <1>3, <3>1
    <3> QED
      BY <1>3, <3>2
  <2> QED
    BY <1>2, <2>1, <2>2 DEF Pending
<1>7. \A i \in 1 .. Len(m) : EntryInv(i)
  BY <1>2, <1>4 DEF Placed
<1>8. \A i \in 1 .. Len(m') : i + 1 \in 1 .. Len(m) /\ i + 1 # 1 /\ m'[i] = m[i + 1]
  BY <1>3
<1>9. CASE ~e.seg.write
  <2>1. UNCHANGED <<disk, written>>
    BY <1>3, <1>9 DEF Transfer, ReadEntry, m
  <2>2. ASSUME NEW i \in 1 .. Len(m') PROVE EntryInv(i)'
    <3>0. PICK f : f = m[i + 1]
      OBVIOUS
    <3> DEFINE k == f.seg.lpn
    <3>1. EntryInv(i + 1) /\ m'[i] = f
      BY <1>7, <1>8, <3>0
    <3>2. \A j \in 1 .. Len(m') :
            /\ j + 1 \in 1 .. Len(m) /\ m'[j] = m[j + 1]
            /\ (j > i => j + 1 > i + 1) /\ (j # i => j + 1 # i + 1)
      BY <1>3, <1>8
    <3>3. Kept(k, f.ppn) /\ (Fresh(k)' => table'[k] = IF f.seg.write THEN f.new_ppn ELSE f.ppn)
      BY <1>1, <1>2, <2>1, <3>0, <3>1 DEF EntryInv, Intact, Fresh
    <3>4. f.seg.write => \A h \in Lpns : h # k /\ written'[h] # {} => f.new_ppn # table'[h]
      BY <1>1, <1>2, <2>1, <3>0, <3>1 DEF EntryInv
    <3>5. f.seg.write =>
            \A j \in 1 .. Len(m') :
              m'[j].given /\ j > i /\ written'[m'[j].seg.lpn] # {} => f.new_ppn # m'[j].ppn
      BY <1>2, <2>1, <3>0, <3>1, <3>2 DEF EntryInv
    <3>6. f.seg.write =>
            \A j \in 1 .. Len(m') :
              m'[j].given /\ j # i /\ m'[j].seg.write => f.new_ppn # m'[j].new_ppn
      BY <1>2, <3>0, <3>1, <3>2 DEF EntryInv
    <3> QED
      BY <1>2, <3>1, <3>3, <3>4, <3>5, <3>6 DEF EntryInv, Intact
  <2>3. ASSUME NEW k \in Lpns, ~Pending(k)' PROVE Intact(k, table[k])
    <3>1. CASE ~Pending(k)
      BY <3>1 DEF Placed
    <3>2. CASE k = l
      <4>1. EntryInv(1)
        BY <1>5, <1>7
      <4> QED
        BY <1>0, <1>2, <1>9, <3>2, <4>1 DEF EntryInv, Intact, Fresh
    <3> QED
      BY <1>6, <2>3, <3>1, <3>2
  <2> QED
    BY <1>1, <1>2, <2>1, <2>2, <2>3 DEF Placed, Intact
<1>10. CASE e.seg.write
  <2> DEFINE p == e.new_ppn
             page == Modified(PageRead(e.ppn).data, e.seg)
  <2>1. /\ p \in Ppns /\ e.ppn \in Ppns \cup {Unmapped}
        /\ disk' = [q \in Ppns |-> IF q = p THEN page
                                    ELSE Outdated(disk[q], l, e.seg.sectors)]
        /\ written' = [written EXCEPT ![l] = IF table[l] = p THEN @ \cup e.seg.sectors ELSE @]
    BY <1>3, <1>10 DEF Transfer, WriteEntry, Entries, m
  <2>2. /\ \A k \in Lpns : k # l => written'[k] = written[k]
        /\ written'[l] = IF table[l] = p THEN written[l] \cup e.seg.sectors ELSE written[l]
        /\ \A k \in Lpns : written[k] \subseteq Sectors
    BY <1>5, <2>1 DEF TypeInv, TypeOK
  <2>3. \A q \in Ppns, k \in Lpns, s \in Sectors :
          q # p /\ k # l /\ disk[q][s] = k => disk'[q][s] = k
    BY <2>1 DEF Outdated
  <2>4. EntryInv(1)
    BY <1>5, <1>7
  <2>5. written[l] # {} => table[l] = p
    BY <1>0, <1>2, <1>10, <2>4 DEF EntryInv, Fresh
  <2>6. \A k \in Lpns : \A q : k # l /\ (written[k] # {} => q # p) /\ Intact(k, q) => Kept(k, q)
    BY <2>2, <2>3 DEF Intact
  <2>7. Kept(l, table[l])
    <3>1. CASE table[l] # p
      BY <1>1, <2>2, <2>5, <3>1 DEF Intact
    <3>2. CASE table[l] = p
      <4>1. ASSUME NEW s \in Sectors, s \in e.seg.sectors \/ s \in written[l] PROVE page[s] = l
        <5>1. CASE s \in e.seg.sectors
          BY <5>1 DEF Modified
        <5>2. CASE s \notin e.seg.sectors
          <6>1. e.ppn \in Ppns /\ disk[e.ppn][s] = l
            BY <1>0, <1>2, <2>4, <4>1, <5>2 DEF EntryInv, Intact
          <6>2. PageRead(e.ppn).data[s] = l
            BY <6>1 DEF PageRead, BufferMatchesDisk
          <6> QED
            BY <5>2, <6>2 DEF Modified
        <5> QED
          BY <5>1, <5>2
      <4>2. e.seg.sectors \subseteq Sectors /\ written[l] \subseteq Sectors
        BY <1>5, <2>2 DEF Segments
      <4>3. disk'[p] = page
        BY <2>1
      <4> HIDE DEF page
      <4>4. \A s \in written'[l] : disk'[p][s] = l
        BY <2>2, <3>2, <4>1, <4>2, <4>3
      <4> QED
        BY <2>1, <3>2, <4>4
    <3> QED
      BY <3>1, <3>2
  <2> HIDE DEF page
  <2>8. ASSUME NEW i \in 1 .. Len(m') PROVE EntryInv(i)'
    <3>0. PICK f : f = m[i + 1]
      OBVIOUS
    <3> DEFINE k == f.seg.lpn
    <3>1. EntryInv(i + 1) /\ m'[i] = f /\ k \in Lpns /\ k # l /\ f.given
      BY <1>0, <1>4, <1>5, <1>7, <1>8, <3>0
    <3>2. \A j \in 1 .. Len(m') :
            /\ j + 1 \in 1 .. Len(m) /\ m'[j] = m[j + 1] /\ j + 1 # 1
            /\ (j > i => j + 1 > i + 1) /\ (j # i => j + 1 # i + 1)
            /\ m'[j].seg.lpn \in Lpns /\ m'[j].seg.lpn # l
      BY <1>0, <1>3, <1>4, <1>5, <1>8
    <3>3. Kept(k, f.ppn)
      <4>1. written[k] # {} => f.ppn # p
        <5>1. i + 1 \in 1 .. Len(m) /\ i + 1 > 1
          BY <1>3
        <5> QED
          BY <1>0, <1>2, <1>10, <2>4, <3>0, <3>1, <5>1 DEF EntryInv
      <4>2. Intact(k, f.ppn)
        BY <1>2, <3>0, <3>1 DEF EntryInv
      <4> QED
        BY <2>6, <3>1, <4>1, <4>2
    <3>4. Fresh(k)' => table'[k] = IF f.seg.write THEN f.new_ppn ELSE f.ppn
      BY <1>1, <1>2, <2>2, <3>0, <3>1 DEF EntryInv, Fresh
    <3>5. f.seg.write => \A h \in Lpns : h # k /\ written'[h] # {} => f.new_ppn # table'[h]
      <4> SUFFICES ASSUME f.seg.write, NEW h \in Lpns, h # k, written'[h] # {}
                   PROVE  f.new_ppn # table[h]
        BY <1>1
      <4>1. CASE h # l
        BY <1>2, <2>2, <3>0, <3>1, <4>1 DEF EntryInv
      <4>2. CASE h = l
        <5>1. table[l] = p
          BY <2>2, <2>5, <4>2
        <5>2. f.new_ppn # p
          BY <1>0, <1>2, <1>4, <1>5, <1>8, <1>10, <3>0, <3>1 DEF EntryInv
        <5> QED
          BY <4>2, <5>1, <5>2
      <4> QED
        BY <4>1, <4>2
    <3>6. f.seg.write =>
            \A j \in 1 .. Len(m') :
              m'[j].given /\ j > i /\ written'[m'[j].seg.lpn] # {} => f.new_ppn # m'[j].ppn
      <4>1. \A j \in 1 .. Len(m') :
              /\ j + 1 \in 1 .. Len(m) /\ m'[j] = m[j + 1] /\ (j > i => j + 1 > i + 1)
              /\ written'[m'[j].seg.lpn] = written[m[j + 1].seg.lpn]
        BY <2>2, <3>2
      <4>2. f.seg.write =>
              \A j \in 1 .. Len(m) :
                m[j].given /\ j > i + 1 /\ written[m[j].seg.lpn] # {} => f.new_ppn # m[j].ppn
        BY <1>2, <3>0, <3>1 DEF EntryInv
      <4> QED
        BY <4>1, <4>2
    <3>7. f.seg.write =>
            \A j \in 1 .. Len(m') :
              m'[j].given /\ j # i /\ m'[j].seg.write => f.new_ppn # m'[j].new_ppn
      BY <1>2, <3>0, <3>1, <3>2 DEF EntryInv
    <3> QED
      BY <1>2, <3>1, <3>3, <3>4, <3>5, <3>6, <3>7 DEF EntryInv, Intact
  <2>9. ASSUME NEW k \in Lpns, ~Pending(k)' PROVE Kept(k, table[k])
    <3>1. CASE k = l
      BY <2>7, <3>1
    <3>2. CASE k # l
      <4>1. Intact(k, table[k])
        BY <1>6, <2>9, <3>2 DEF Placed
      <4>2. written[k] # {} => table[k] # p
        BY <1>0, <1>2, <1>10, <2>4, <2>9, <3>2 DEF EntryInv
      <4> QED
        BY <2>6, <3>2, <4>1, <4>2
    <3> QED
      BY <3>1, <3>2
  <2> QED
    BY <1>1, <1>2, <2>8, <2>9 DEF Placed, Intact
<1> QED
  BY <1>9, <1>10

(* The application translates an entry.                                     *)
LEMMA TranslatePlaced ==
  ASSUME TypeInv, Handshake, TableInv, DistinctInv, GivenInv, Placed, Translate
  PROVE  Placed'
<1> DEFINE m == app_map
<1>1. /\ app = "translate" /\ app' = "translate" /\ UNCHANGED <<worker, req, ppn_wait_flag>>
      /\ UNCHANGED <<disk, written>>
  BY DEF Translate, driverVars, flagVars, dataVars
<1>2. OnItsWay = m /\ OnItsWay' = m' /\ MapOfRequest(m)
  BY <1>1 DEF Handshake, AppInv, FlagInv, HasSize, OnItsWay
<1>3. PICK i \in 1 .. Len(m) :
        /\ ~m[i].given /\ TranslateOne(i)
        /\ m' \in Seq(Entries) /\ Len(m') = Len(m)
        /\ m'[i].seg = m[i].seg /\ m'[i].given
        /\ \A j \in 1 .. Len(m) : j # i => m'[j] = m[j]
  BY TranslateFacts
<1>4. PICK seg : seg = m[i].seg
  OBVIOUS
<1> DEFINE l == seg.lpn
<1>5. PICK old : old = table[l]
  OBVIOUS
<1>6. /\ \A j \in 1 .. Len(m) : m[j].seg.lpn \in Lpns
      /\ \A j \in 1 .. Len(m) : j # i => m[j].seg.lpn # l
      /\ l \in Lpns /\ seg \in Segments
  <2>1. \A j \in 1 .. Len(m) : m[j] \in Entries
    BY ElementOfSeq DEF TypeInv
  <2>2. \A j \in 1 .. Len(m) : j # i => m[j].seg.lpn # m[i].seg.lpn
    BY <1>2 DEF MapOfRequest, DistinctInv
  <2> QED
    BY <1>4, <2>1, <2>2 DEF Entries, Segments
<1>7. Len(m) \in Nat
  BY LenProperties DEF TypeInv
<1>8. \A j \in 1 .. Len(m) : j > i => ~m[j].given
  BY <1>1, <1>3, <1>7 DEF GivenInv
<1>9. ~Pending(l) /\ Intact(l, old)
  <2>1. ~Pending(l)
    BY <1>2, <1>3, <1>6 DEF Pending
  <2> QED
    BY <1>5, <1>6, <2>1 DEF Placed
<1>10. \A k \in Lpns : ~Pending(k)' => ~Pending(k) /\ k # l
  <2>1. \A k \in Lpns : Pending(k) => Pending(k)'
    BY <1>2, <1>3 DEF Pending
  <2>2. Pending(l)'
    BY <1>2, <1>3, <1>4 DEF Pending
  <2> QED
    BY <2>1, <2>2
(* What a write and a read have in common: new is the table's page of l.    *)
<1>11. PICK e : e = m'[i]
  OBVIOUS
<1>12. PICK new : new = table'[l]
  OBVIOUS
<1>13. /\ e.seg = seg /\ e.given /\ e.ppn = old
       /\ new = IF seg.write THEN e.new_ppn ELSE e.ppn
       /\ \A k \in Lpns : k # l => table'[k] = table[k]
       /\ \A k \in Lpns : k # l /\ seg.write => new # table[k]
       /\ ~seg.write => new = old
  <2>1. /\ m \in Seq(Entries) /\ table \in [Lpns -> Ppns \cup {Unmapped}]
        /\ m[i] \in Entries /\ DOMAIN m = 1 .. Len(m)
    BY ElementOfSeq, LenProperties DEF TypeInv, TypeOK
  <2>2. CASE seg.write
    <3>1. PICK p \in Given(l) :
            m' = [m EXCEPT ![i] = Entry(seg, old, p, TRUE)] /\ table' = [table EXCEPT ![l] = p]
      BY <1>3, <1>4, <1>5, <2>2 DEF TranslateOne
    <3>2. e = Entry(seg, old, p, TRUE) /\ new = p
      BY <1>6, <1>11, <1>12, <2>1, <3>1
    <3>3. \A k \in Lpns : k # l => table'[k] = table[k] /\ table[k] # p
      BY <1>6, <2>1, <3>1, GivenIsNew
    <3> QED
      BY <2>2, <3>2, <3>3 DEF Entry
  <2>3. CASE ~seg.write
    <3>1. m' = [m EXCEPT ![i] = Entry(seg, old, 0, TRUE)] /\ table' = table
      BY <1>3, <1>4, <1>5, <2>3 DEF TranslateOne
    <3>2. e = Entry(seg, old, 0, TRUE) /\ new = old
      BY <1>5, <1>11, <1>12, <2>1, <3>1
    <3> QED
      BY <2>3, <3>1, <3>2 DEF Entry
  <2> QED
    BY <2>2, <2>3
<1> HIDE DEF m
<1>14. EntryInv(i)'
  <2>1. Intact(l, e.ppn)'
    BY <1>1, <1>9, <1>13 DEF Intact
  <2>2. e.seg.write => \A k \in Lpns : k # l /\ written'[k] # {} => e.new_ppn # table'[k]
    BY <1>13
  <2>3. \A j \in 1 .. Len(m') : m'[j].given => ~(j > i)
    BY <1>3, <1>7, <1>8
  <2>4. e.seg.write =>
          \A j \in 1 .. Len(m') :
            m'[j].given /\ j # i /\ m'[j].seg.write => e.new_ppn # m'[j].new_ppn
    <3> SUFFICES ASSUME e.seg.write, NEW j \in 1 .. Len(m), m[j].given, j # i, m[j].seg.write
                 PROVE  e.new_ppn # m[j].new_ppn
      BY <1>3
    <3>1. table[m[j].seg.lpn] = m[j].new_ppn
      BY <1>1, <1>2 DEF Placed, EntryInv, Fresh
    <3> QED
      BY <1>6, <1>13, <3>1
  <2> QED
    BY <1>2, <1>11, <1>12, <1>13, <2>1, <2>2, <2>3, <2>4 DEF EntryInv
<1>15. ASSUME NEW j \in 1 .. Len(m'), m'[j].given, j # i PROVE EntryInv(j)'
  <2>0. PICK f : f = m[j]
    OBVIOUS
  <2> DEFINE k == f.seg.lpn
  <2>1. m'[j] = f /\ f.given /\ EntryInv(j) /\ k \in Lpns /\ k # l
    BY <1>2, <1>3, <1>6, <1>15, <2>0 DEF Placed
  <2>2. table[k] = IF f.seg.write THEN f.new_ppn ELSE f.ppn
    BY <1>1, <1>2, <2>0, <2>1 DEF EntryInv, Fresh
  <2>3. Intact(k, f.ppn)'
    BY <1>1, <1>2, <2>0, <2>1 DEF EntryInv, Intact
  <2>4. table'[k] = IF f.seg.write THEN f.new_ppn ELSE f.ppn
    BY <1>13, <2>1, <2>2
  <2>5. f.seg.write => \A h \in Lpns : h # k /\ written'[h] # {} => f.new_ppn # table'[h]
    <3> SUFFICES ASSUME f.seg.write, NEW h \in Lpns, h # k, written[h] # {}
                 PROVE  f.new_ppn # table'[h]
      BY <1>1
    <3>1. f.new_ppn # table[h]
      BY <1>2, <2>0, <2>1 DEF EntryInv
    <3>2. CASE h # l
      BY <1>13, <3>1, <3>2
    <3>3. CASE h = l
      BY <1>5, <1>12, <1>13, <2>1, <2>2, <3>1, <3>3
    <3> QED
      BY <3>2, <3>3
  <2>6. f.seg.write =>
          \A h \in 1 .. Len(m') :
            m'[h].given /\ h > j /\ written'[m'[h].seg.lpn] # {} => f.new_ppn # m'[h].ppn
    <3> SUFFICES ASSUME f.seg.write, NEW h \in 1 .. Len(m), m'[h].given, h > j,
                        written[m'[h].seg.lpn] # {}
                 PROVE  f.new_ppn # m'[h].ppn
      BY <1>1, <1>3
    <3>1. CASE h # i
      BY <1>2, <1>3, <2>0, <2>1, <3>1 DEF EntryInv
    <3>2. CASE h = i
      <4>1. f.new_ppn # table[l]
        BY <1>2, <1>6, <1>11, <1>13, <2>0, <2>1, <3>2 DEF EntryInv
      <4> QED
        BY <1>5, <1>11, <1>13, <3>2, <4>1
    <3> QED
      BY <3>1, <3>2
  <2>7. f.seg.write =>
          \A h \in 1 .. Len(m') :
            m'[h].given /\ h # j /\ m'[h].seg.write => f.new_ppn # m'[h].new_ppn
    <3> SUFFICES ASSUME f.seg.write, NEW h \in 1 .. Len(m), m'[h].given, h # j, m'[h].seg.write
                 PROVE  f.new_ppn # m'[h].new_ppn
      BY <1>3
    <3>1. CASE h # i
      BY <1>2, <1>3, <2>0, <2>1, <3>1 DEF EntryInv
    <3>2. CASE h = i
      BY <1>11, <1>13, <2>1, <2>2, <3>2
    <3> QED
      BY <3>1, <3>2
  <2> QED
    BY <1>2, <2>1, <2>3, <2>4, <2>5, <2>6, <2>7 DEF EntryInv
<1>16. ASSUME NEW k \in Lpns, ~Pending(k)' PROVE Intact(k, table[k])'
  <2>1. ~Pending(k) /\ k # l /\ table'[k] = table[k]
    BY <1>10, <1>13, <1>16
  <2> QED
    BY <1>1, <2>1 DEF Placed, Intact
<1> QED
  BY <1>2, <1>14, <1>15, <1>16 DEF Placed


(* Nothing happens to an entry whose application has died, until the next   *)
(* application begins with a new table.                                     *)
LEMMA StuckStays ==
  ASSUME TypeInv, Stuck, [Next]_vars
  PROVE  (Stuck \/ Placed)'
<1>1. CASE Register
  <2>1. OnItsWay' = << >> /\ \A l \in Lpns : written'[l] = {}
    BY <1>1 DEF Register, Stuck, OnItsWay, driverVars, flagVars
  <2> QED
    BY <2>1 DEF Placed, Intact
<1>2. CASE Die
  BY <1>2 DEF Die, Stuck, driverVars, flagVars
<1>3. CASE UNCHANGED vars
  BY <1>3 DEF Stuck, vars, driverVars, flagVars, appVars
<1>4. ~Fetch /\ ~Worker /\ ~Kill
  BY DEF Stuck, Worker, Fetch, PostSize, FillMap, PostLba, TakePpn, Transfer, EndRequest,
     Kill, InUserMode, InIoctl
<1>5. ~(App /\ ~Die)
  BY DEF Stuck, App, GetReqSize, ClearSize, GetLbn, ClearLba, Translate, SetPpn, SetFlag
<1> QED
  BY <1>1, <1>2, <1>3, <1>4, <1>5 DEF Next

(* A new application knows no data: what is on its way still is harmless.   *)
LEMMA RegisterPlaced ==
  ASSUME TypeInv, Placed, Register
  PROVE  Placed'
<1>1. /\ OnItsWay' = OnItsWay /\ app' = "get_size" /\ \A l \in Lpns : written'[l] = {}
  BY DEF Register, OnItsWay, driverVars, flagVars
<1>2. PICK m : m = OnItsWay
  OBVIOUS
<1>3. \A i \in 1 .. Len(m) : written'[m[i].seg.lpn] = {}
  <2>1. m \in Seq(Entries)
    BY <1>2 DEF TypeInv, OnItsWay
  <2>2. \A i \in 1 .. Len(m) : m[i] \in Entries
    BY <2>1, ElementOfSeq
  <2>3. \A i \in 1 .. Len(m) : m[i].seg.lpn \in Lpns
    BY <2>2 DEF Entries, Segments
  <2> QED
    BY <1>1, <2>3
<1>4. ASSUME NEW i \in 1 .. Len(m), m[i].given PROVE EntryInv(i)'
  <2>1. EntryInv(i)
    BY <1>2, <1>4 DEF Placed
  <2> QED
    BY <1>1, <1>2, <1>3, <1>4, <2>1 DEF EntryInv, Intact, Fresh
<1> QED
  BY <1>1, <1>2, <1>4 DEF Placed, Intact

LEMMA ClearLbaPlaced ==
  ASSUME TypeInv, Handshake, GivenInv, Placed, ClearLba
  PROVE  Placed'
<1>1. /\ OnItsWay = << >> /\ UNCHANGED <<table, written, disk>>
      /\ app' \in {"translate", "exit"} /\ (app' = "translate" => NotGiven(app_map))
  BY DEF ClearLba, Resume, Handshake, AppInv, FlagInv, HasSize, Busy, GivenInv, OnItsWay,
     dataVars
<1>2. OnItsWay' = IF app' = "translate" THEN app_map ELSE << >>
  BY DEF ClearLba, Resume, Handshake, AppInv, FlagInv, HasSize, Busy, OnItsWay, driverVars
<1>3. \A i \in 1 .. Len(OnItsWay') : ~OnItsWay'[i].given
  BY <1>1, <1>2 DEF NotGiven
<1>4. \A l \in Lpns : Intact(l, table[l])
  BY <1>1 DEF Placed, Pending
<1> QED
  BY <1>1, <1>3, <1>4 DEF Placed, Intact

LEMMA NextPlaced ==
  /\ TypeInv /\ Handshake /\ BufferMatchesDisk
  /\ TableInv /\ DistinctInv /\ GivenInv /\ (Stuck \/ Placed)
  /\ [Next]_vars
  => (Stuck \/ Placed)'
<1> SUFFICES ASSUME TypeInv, Handshake, BufferMatchesDisk, TableInv, DistinctInv, GivenInv,
                    Placed, [Next]_vars
             PROVE  (Stuck \/ Placed)'
  BY StuckStays
<1> DEFINE Unmoved == /\ OnItsWay' = OnItsWay /\ UNCHANGED <<table, written, disk>>
                      /\ (app' = "translate" => app = "translate")
<1> USE DEF driverVars, flagVars, appVars, dataVars, crashVars
<1>0. Unmoved => Placed'
  BY PlacedUnmoved
<1>1. CASE UNCHANGED vars
  BY <1>0, <1>1 DEF vars, OnItsWay
<1>2. CASE Fetch
  BY <1>0, <1>2 DEF Fetch, Handshake, AppInv, FlagInv, HasSize, Busy, OnItsWay
<1>3. CASE PostSize
  BY <1>0, <1>3 DEF PostSize, Handshake, AppInv, FlagInv, HasSize, Busy, OnItsWay
<1>4. CASE FillMap
  BY <1>0, <1>4 DEF FillMap, Handshake, AppInv, FlagInv, HasSize, Busy, OnItsWay
<1>5. CASE PostLba
  BY <1>0, <1>5 DEF PostLba, Handshake, AppInv, FlagInv, HasSize, Busy, OnItsWay
<1>6. CASE TakePpn
  BY <1>0, <1>6 DEF TakePpn, Handshake, AppInv, FlagInv, HasSize, Busy, OnItsWay
<1>7. CASE Transfer
  BY <1>7, TransferPlaced
<1>8. CASE EndRequest
  BY <1>0, <1>8 DEF EndRequest, Handshake, AppInv, FlagInv, HasSize, Busy, OnItsWay
<1>9. CASE Register
  BY <1>9, RegisterPlaced
<1>10. CASE GetReqSize
  BY <1>0, <1>10 DEF GetReqSize, OnItsWay
<1>11. CASE ClearSize
  BY <1>0, <1>11 DEF ClearSize, Resume, OnItsWay
<1>12. CASE GetLbn
  BY <1>0, <1>12 DEF GetLbn, OnItsWay
<1>13. CASE ClearLba
  BY <1>13, ClearLbaPlaced
<1>14. CASE Translate
  BY <1>14, TranslatePlaced
<1>15. CASE SetPpn
  BY <1>0, <1>15 DEF SetPpn, Handshake, AppInv, FlagInv, HasSize, Busy, OnItsWay
<1>16. CASE SetFlag
  BY <1>0, <1>16 DEF SetFlag, Resume, OnItsWay
<1>17. CASE Kill
  <2>1. CASE app = "translate"
    BY <1>17, <2>1 DEF Kill, InUserMode, InIoctl, Handshake, AppInv, FlagInv, HasSize, Stuck
  <2>2. CASE app # "translate"
    BY <1>0, <1>17, <2>2 DEF Kill, InUserMode, InIoctl, OnItsWay
  <2> QED
    BY <2>1, <2>2
<1>18. CASE Die
  BY <1>0, <1>18 DEF Die, OnItsWay
<1> QED
  BY <1>1, <1>2, <1>3, <1>4, <1>5, <1>6, <1>7, <1>8, <1>9, <1>10, <1>11, <1>12, <1>13, <1>14,
     <1>15, <1>16, <1>17, <1>18 DEF Next, Worker, App

(* A read that is next finds in its page what was written.                  *)
LEMMA PlacedReads ==
  ASSUME TypeInv, Handshake, BufferMatchesDisk, DataInv
  PROVE  ReadsLastWrite
<1> SUFFICES ASSUME worker = "io", request_map # << >>, ~Head(request_map).seg.write,
                    NEW s \in Head(request_map).seg.sectors
                                \cap written[Head(request_map).seg.lpn]
             PROVE  PageRead(Head(request_map).ppn).data[s] = Head(request_map).seg.lpn
  BY DEF ReadsLastWrite
<1>1. PICK e : e = Head(request_map)
  OBVIOUS
<1>2. e = request_map[1] /\ 1 \in 1 .. Len(request_map)
  BY <1>1, TailFacts DEF TypeInv
<1>3. e.given
  BY <1>2 DEF Handshake, WorkerInv
<1>4. OnItsWay = request_map /\ Placed
  BY DEF DataInv, Stuck, OnItsWay
<1>5. Intact(e.seg.lpn, e.ppn)
  BY <1>2, <1>3, <1>4 DEF Placed, EntryInv
<1>6. e.ppn \in Ppns /\ disk[e.ppn][s] = e.seg.lpn
  BY <1>1, <1>5 DEF Intact
<1> QED
  BY <1>1, <1>6 DEF PageRead, BufferMatchesDisk
------------------------------------------------------------------------------
(* The theorems.                                                            *)

IInv == TypeInv /\ Handshake /\ BufferMatchesDisk /\ DataInv

LEMMA AlwaysIInv == Spec => []IInv
<1>1. Init => IInv
  BY InitTypes, InitHandshake, InitData, Numbers DEF Init, IInv, BufferMatchesDisk
<1>2. IInv /\ [Next]_vars => IInv'
  BY NextTypes, NextWorker, NextFlag, NextApp, NextCrash, NextBuffer,
     NextDistinct, NextTable, NextGiven, NextPlaced DEF IInv, Handshake, DataInv
<1> QED
  BY <1>1, <1>2, PTL DEF Spec

(* The state has its types, whatever is killed and restarted.               *)
THEOREM DriverTypeOK == Spec => []TypeOK
<1>1. IInv => TypeOK
  BY DEF IInv, TypeInv
<1> QED
  BY <1>1, AlwaysIInv, PTL

(* The worker transfers every page of a request with what was given for     *)
(* this request, over kills and restarts at any point.                      *)
THEOREM DriverMapGiven == Spec => []MapGiven
<1>1. IInv => MapGiven
  <2> SUFFICES ASSUME IInv, worker = "io", NEW i \in DOMAIN request_map
               PROVE  /\ request_map[i].given
                      /\ request_map[i].seg = req[Len(req) - Len(request_map) + i]
    BY DEF MapGiven
  <2>1. i \in 1 .. Len(request_map)
    BY LenProperties DEF IInv, TypeInv
  <2> QED
    BY <2>1 DEF IInv, Handshake, WorkerInv
<1> QED
  BY <1>1, AlwaysIInv, PTL

(* While the application works on a map, worker and application agree on    *)
(* its length.                                                              *)
THEOREM DriverInStep == Spec => []InStep
<1>1. IInv => InStep
  BY DEF IInv, Handshake, AppInv, WorkerInv, InStep, MapOfRequest, HasSize, Busy
<1> QED
  BY <1>1, AlwaysIInv, PTL

(* Worker and application wait for each other only after an application     *)
(* died with a request in hand.                                             *)
THEOREM DriverWedgedOnlyByCrash == Spec => []WedgedOnlyByCrash
<1>1. IInv => WedgedOnlyByCrash
  BY DEF IInv, Handshake, CrashInv, WedgedOnlyByCrash, Unanswered, HasSize
<1> QED
  BY <1>1, AlwaysIInv, PTL

(* The page buffer holds the page of its label.                             *)
THEOREM DriverBufferMatchesDisk == Spec => []BufferMatchesDisk
<1>1. IInv => BufferMatchesDisk
  BY DEF IInv
<1> QED
  BY <1>1, AlwaysIInv, PTL

(* A read takes from the disk, or from the page buffer, what was written    *)
(* last to each of its sectors since the application began, over requests   *)
(* that an earlier application answered and that are transferred later.     *)
THEOREM DriverReadsLastWrite == Spec => []ReadsLastWrite
<1>1. IInv => ReadsLastWrite
  BY PlacedReads DEF IInv
<1> QED
  BY <1>1, AlwaysIInv, PTL

(* A transfer that fails after its size was announced puts worker and       *)
(* application out of step, so that MapGiven is lost; types and the page    *)
(* buffer are not.                                                          *)
THEOREM FailureKeepsBuffer == FailSpec => [](TypeOK /\ BufferMatchesDisk)
<1> DEFINE Inv == TypeInv /\ BufferMatchesDisk
<1>1. Init => Inv
  BY InitTypes, Numbers DEF Init, BufferMatchesDisk
<1>2. Inv /\ [Next]_vars => Inv'
  BY NextTypes, NextBuffer
<1>3. Inv /\ TransferFails => Inv'
  <2> SUFFICES ASSUME TypeInv, BufferMatchesDisk, TransferFails PROVE Inv'
    OBVIOUS
  <2>1. /\ << >> \in Seq(Segments) /\ << >> \in Seq(Entries)
        /\ Len(<< >>) = 0 /\ 0 <= MaxPages
    BY Numbers, EmptySeq
  <2>2. TypeInv'
    BY <2>1 DEF TypeInv, TypeOK, TransferFails, flagVars, appVars, dataVars, crashVars
  <2>3. BufferMatchesDisk'
    BY DEF BufferMatchesDisk, TransferFails, dataVars
  <2> QED
    BY <2>2, <2>3
<1>4. Inv => TypeOK /\ BufferMatchesDisk
  BY DEF TypeInv
<1>5. Inv /\ [Next \/ TransferFails]_vars => Inv'
  BY <1>2, <1>3
<1> QED
  BY <1>1, <1>4, <1>5, PTL DEF FailSpec
=============================================================================
