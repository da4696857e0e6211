----------------------------- MODULE DFTLProofs -----------------------------
(* Theorems about DFTL and their proofs.                                   *)
EXTENDS DFTL, SequenceTheorems, FiniteSetTheorems, TLAPS

-----------------------------------------------------------------------------
(* Sequences without duplicates.                                           *)

(* Filtering an element out of a list that holds it once.                  *)
LEMMA RemoveFirstFacts ==
  ASSUME NEW S, NEW s \in Seq(S), NEW x \in Range(s), IsInjective(s)
  PROVE  /\ RemoveFirst(s, x) \in Seq(S)
         /\ Len(RemoveFirst(s, x)) = Len(s) - 1
         /\ IsInjective(RemoveFirst(s, x))
         /\ Range(RemoveFirst(s, x)) = Range(s) \ {x}
         /\ x = Head(s) => RemoveFirst(s, x) = Tail(s)
<1>1. PICK k \in 1 .. Len(s) : s[k] = x
  BY DEF Range
<1>2. {i \in 1 .. Len(s) : s[i] = x} = {k}
  BY <1>1 DEF IsInjective
<1>3. RemoveFirst(s, x) = SubSeq(s, 1, k - 1) \o SubSeq(s, k + 1, Len(s))
  <2>1. SelectInSeq(s, LAMBDA v : v = x) = k
    BY <1>1, <1>2 DEF SelectInSeq, Min
  <2> QED
    BY <1>1, <2>1 DEF RemoveFirst, RemoveAt
<1> DEFINE t == RemoveFirst(s, x)
           pick(i) == IF i < k THEN i ELSE i + 1
<1>4. /\ t \in Seq(S)
      /\ Len(t) = Len(s) - 1
      /\ \A i \in 1 .. Len(t) : t[i] = s[pick(i)]
  <2> DEFINE u == SubSeq(s, 1, k - 1)
             v == SubSeq(s, k + 1, Len(s))
  <2>1. /\ u \in Seq(S) /\ Len(u) = k - 1
        /\ \A i \in 1 .. k - 1 : u[i] = s[i]
    BY <1>1, SubSeqProperties, ElementOfSeq, LenProperties
  <2>2. /\ v \in Seq(S) /\ Len(v) = Len(s) - k
        /\ \A i \in 1 .. Len(s) - k : v[i] = s[k + i]
    BY <1>1, SubSeqProperties, ElementOfSeq, LenProperties
  <2> HIDE DEF u, v
  <2>3. /\ u \o v \in Seq(S)
        /\ Len(u \o v) = Len(u) + Len(v)
        /\ \A i \in 1 .. Len(u) + Len(v) :
             (u \o v)[i] = IF i <= Len(u) THEN u[i] ELSE v[i - Len(u)]
    BY <2>1, <2>2, ConcatProperties
  <2>4. t = u \o v
    BY <1>3 DEF u, v
  <2> HIDE DEF t
  <2>5. Len(t) = Len(s) - 1 /\ Len(s) \in Nat
    BY <1>1, <2>1, <2>2, <2>3, <2>4
  <2>6. ASSUME NEW i \in 1 .. Len(t)
        PROVE  t[i] = s[pick(i)]
    <3>1. t[i] = IF i <= k - 1 THEN u[i] ELSE v[i - (k - 1)]
      BY <2>1, <2>2, <2>3, <2>4, <2>5
    <3>2. CASE i < k
      <4>1. i \in 1 .. k - 1
        BY <3>2, <2>5
      <4> QED
        BY <4>1, <3>1, <3>2, <2>1
    <3>3. CASE ~(i < k)
      <4>1. i - (k - 1) \in 1 .. Len(s) - k /\ ~(i <= k - 1) /\ k + (i - (k - 1)) = i + 1
        BY <3>3, <2>5
      <4>2. t[i] = v[i - (k - 1)]
        BY <4>1, <3>1
      <4>3. v[i - (k - 1)] = s[i + 1]
        BY <4>1, <2>2
      <4> QED
        BY <4>2, <4>3, <3>3
    <3> QED
      BY <3>2, <3>3
  <2> QED
    BY <2>3, <2>4, <2>5, <2>6
<1> HIDE DEF t
<1>5. DOMAIN t = 1 .. Len(t) /\ DOMAIN s = 1 .. Len(s)
  BY <1>4
<1>6. IsInjective(t)
  BY <1>1, <1>4, <1>5 DEF IsInjective
<1>7. Range(t) = Range(s) \ {x}
  <2>1. ASSUME NEW i \in 1 .. Len(t)
        PROVE  t[i] \in Range(s) \ {x}
    BY <1>1, <1>4, <1>5 DEF Range, IsInjective
  <2>2. ASSUME NEW j \in 1 .. Len(s), s[j] # x
        PROVE  \E i \in 1 .. Len(t) : t[i] = s[j]
    <3>1. CASE j < k
      BY <3>1, <1>1, <1>4
    <3>2. CASE j > k
      <4>1. j - 1 \in 1 .. Len(t) /\ pick(j - 1) = j
        BY <3>2, <1>1, <1>4
      <4> QED
        BY <4>1, <1>4
    <3> QED
      BY <3>1, <3>2, <2>2, <1>1
  <2>3. Range(t) = {t[i] : i \in 1 .. Len(t)} /\ Range(s) = {s[i] : i \in 1 .. Len(s)}
    BY <1>5 DEF Range
  <2>4. ASSUME NEW y \in Range(s) \ {x}
        PROVE  y \in Range(t)
    BY <2>2, <2>3
  <2> QED
    BY <2>1, <2>3, <2>4
<1>8. ASSUME x = Head(s)
      PROVE  t = Tail(s)
  <2>1. s # << >> /\ k = 1
    BY <1>1, <1>5, <1>8 DEF IsInjective
  <2>2. /\ Tail(s) \in Seq(S) /\ Len(Tail(s)) = Len(s) - 1
        /\ \A i \in 1 .. Len(Tail(s)) : Tail(s)[i] = s[i + 1]
    BY <2>1, HeadTailProperties
  <2> QED
    BY <2>1, <2>2, <1>4, SeqEqual
<1> QED
  BY <1>4, <1>6, <1>7, <1>8 DEF t

(* Appending an element a list does not hold.                              *)
LEMMA AppendFacts ==
  ASSUME NEW S, NEW s \in Seq(S), NEW x \in S
  PROVE  /\ Append(s, x) \in Seq(S)
         /\ Len(Append(s, x)) = Len(s) + 1
         /\ Range(Append(s, x)) = Range(s) \cup {x}
         /\ \A i \in 1 .. Len(s) : Append(s, x)[i] = s[i]
         /\ Append(s, x)[Len(s) + 1] = x
         /\ IsInjective(s) /\ x \notin Range(s) => IsInjective(Append(s, x))
<1> DEFINE t == Append(s, x)
<1>1. /\ t \in Seq(S) /\ Len(t) = Len(s) + 1
      /\ \A i \in 1 .. Len(s) : t[i] = s[i]
      /\ t[Len(s) + 1] = x
  BY AppendProperties
<1> HIDE DEF t
<1>2. DOMAIN t = 1 .. Len(s) + 1 /\ DOMAIN s = 1 .. Len(s) /\ Len(s) \in Nat
  BY <1>1
<1>3. Range(t) = Range(s) \cup {x}
  BY <1>1, <1>2 DEF Range
<1>4. IsInjective(s) /\ x \notin Range(s) => IsInjective(t)
  BY <1>1, <1>2 DEF IsInjective, Range
<1> QED
  BY <1>1, <1>3, <1>4 DEF t

(* Dropping the first k elements, k = 1 being Tail.                        *)
LEMMA DropFacts ==
  ASSUME NEW S, NEW s \in Seq(S), NEW k \in 0 .. Len(s), IsInjective(s)
  PROVE  /\ SubSeq(s, k + 1, Len(s)) \in Seq(S)
         /\ Len(SubSeq(s, k + 1, Len(s))) = Len(s) - k
         /\ IsInjective(SubSeq(s, k + 1, Len(s)))
         /\ Range(SubSeq(s, k + 1, Len(s))) = Range(s) \ {s[i] : i \in 1 .. k}
<1> DEFINE t == SubSeq(s, k + 1, Len(s))
<1>1. /\ t \in Seq(S) /\ Len(t) = Len(s) - k
      /\ \A i \in 1 .. Len(s) - k : t[i] = s[k + i]
  BY SubSeqProperties, ElementOfSeq, LenProperties
<1> HIDE DEF t
<1>2. DOMAIN t = 1 .. Len(s) - k /\ DOMAIN s = 1 .. Len(s) /\ Len(s) \in Nat
  BY <1>1
<1>3. IsInjective(t)
  <2> SUFFICES ASSUME NEW i \in 1 .. Len(s) - k, NEW j \in 1 .. Len(s) - k, t[i] = t[j]
               PROVE  i = j
    BY <1>2 DEF IsInjective
  <2>1. k + i \in DOMAIN s /\ k + j \in DOMAIN s /\ s[k + i] = s[k + j]
    BY <1>1, <1>2
  <2> QED
    BY <2>1 DEF IsInjective
<1>4. ASSUME NEW i \in 1 .. Len(s) - k
      PROVE  t[i] \in Range(s) \ {s[j] : j \in 1 .. k}
  <2>1. k + i \in DOMAIN s /\ t[i] = s[k + i]
    BY <1>1, <1>2
  <2>2. \A j \in 1 .. k : s[j] # s[k + i]
    BY <2>1, <1>2 DEF IsInjective
  <2> QED
    BY <2>1, <2>2 DEF Range
<1>5. ASSUME NEW j \in 1 .. Len(s), s[j] \notin {s[i] : i \in 1 .. k}
      PROVE  \E i \in 1 .. Len(s) - k : t[i] = s[j]
  <2>1. j - k \in 1 .. Len(s) - k /\ k + (j - k) = j
    BY <1>2, <1>5
  <2>2. t[j - k] = s[k + (j - k)]
    BY <2>1, <1>1
  <2> QED
    BY <2>1, <2>2
<1>6. Range(t) = Range(s) \ {s[i] : i \in 1 .. k}
  <2>1. Range(t) = {t[i] : i \in 1 .. Len(s) - k} /\ Range(s) = {s[i] : i \in 1 .. Len(s)}
    BY <1>2 DEF Range
  <2>2. ASSUME NEW y \in Range(t)
        PROVE  y \in Range(s) \ {s[i] : i \in 1 .. k}
    BY <2>1, <1>4
  <2>3. ASSUME NEW y \in Range(s) \ {s[i] : i \in 1 .. k}
        PROVE  y \in Range(t)
    <3>1. PICK j \in 1 .. Len(s) : y = s[j]
      BY <2>1
    <3>2. \E i \in 1 .. Len(s) - k : t[i] = s[j]
      BY <3>1, <1>5
    <3> QED
      BY <3>1, <3>2, <2>1
  <2> QED
    BY <2>2, <2>3
<1> QED
  BY <1>1, <1>3, <1>6 DEF t

LEMMA TailFacts ==
  ASSUME NEW S, NEW s \in Seq(S), s # << >>, IsInjective(s)
  PROVE  /\ Head(s) \in S /\ Head(s) \in Range(s) /\ Head(s) = s[1]
         /\ Tail(s) \in Seq(S)
         /\ Len(Tail(s)) = Len(s) - 1
         /\ \A i \in 1 .. Len(Tail(s)) : Tail(s)[i] = s[i + 1]
         /\ IsInjective(Tail(s))
         /\ Range(Tail(s)) = Range(s) \ {Head(s)}
<1>1. Len(s) \in Nat /\ Len(s) >= 1 /\ Head(s) = s[1]
  BY EmptySeq, LenProperties
<1>2. Tail(s) = SubSeq(s, 2, Len(s))
  BY TailIsSubSeq
<1>3. {s[i] : i \in 1 .. 1} = {Head(s)}
  BY <1>1
<1>4. /\ SubSeq(s, 1 + 1, Len(s)) \in Seq(S)
      /\ IsInjective(SubSeq(s, 1 + 1, Len(s)))
      /\ Range(SubSeq(s, 1 + 1, Len(s))) = Range(s) \ {s[i] : i \in 1 .. 1}
  BY <1>1, DropFacts
<1>5. Head(s) \in Range(s)
  BY <1>1 DEF Range
<1>6. /\ Tail(s) \in Seq(S)
      /\ Len(Tail(s)) = Len(s) - 1
      /\ \A i \in 1 .. Len(Tail(s)) : Tail(s)[i] = s[i + 1]
  BY HeadTailProperties
<1>7. 1 + 1 = 2
  OBVIOUS
<1>8. Head(s) \in S
  BY HeadTailProperties
<1>9. IsInjective(Tail(s)) /\ Range(Tail(s)) = Range(s) \ {Head(s)}
  BY <1>2, <1>3, <1>4, <1>7, Zenon
<1> QED
  BY <1>1, <1>5, <1>6, <1>8, <1>9

-----------------------------------------------------------------------------
(* The parts of the invariant, by the variables they speak of.             *)

TypeBlocks ==
  /\ lpns \in [Blocks -> Seq(Lpns)]
  /\ clean \in [Blocks -> Counter]
  /\ dirty \in [Blocks -> Counter]
  /\ free_block \in Seq(Blocks)
  /\ gc_block \in Seq(Blocks)
  /\ full_block \in Seq(Blocks)
  /\ block \in [Lpns -> Blocks \cup {NoBlock}]
  /\ ppn \in [Lpns -> 0 .. NumberOfBlocks * PagesPerBlock]

TypeCache ==
  /\ cached \in SUBSET Lpns
  /\ unsaved \in SUBSET Lpns
  /\ dftl_cache \in Seq(Lpns)

TypeCall ==
  /\ pc \in {"idle", "force_gc", "move", "rewrite", "reset", "write"}
  /\ writing \in Lpns \cup {NoLpn}
  /\ todo \in Seq(Lpns)

LEMMA TypeSplit == TypeOK <=> TypeBlocks /\ TypeCache /\ TypeCall
  BY DEF TypeOK, TypeBlocks, TypeCache, TypeCall

BlockInv ==
  TypeBlocks /\ Partition /\ PageAccounting /\ MappingConsistent /\ MappingInjective

CacheInv == TypeCache /\ CacheConsistent

(* The arithmetic of pages and blocks.                                     *)
LEMMA ConfigFacts ==
  /\ NumberOfBlocks \in Nat /\ PagesPerBlock \in Nat /\ PagesPerBlock >= 1
  /\ TotalPages \in Nat
  /\ TotalPages <= NumberOfBlocks * PagesPerBlock
  /\ CacheSize \in Nat
  /\ Blocks \subseteq Nat /\ Lpns \subseteq Nat /\ NoBlock \notin Blocks /\ NoLpn \notin Lpns
<1>1. /\ NumberOfBlocks \in Nat /\ PagesPerBlock \in Nat /\ PagesPerBlock >= 1
      /\ ReserveBlocks \in Nat /\ ReserveBlocks < NumberOfBlocks /\ CacheSize \in Nat
  BY ConfigAssumption
<1>2. NumberOfBlocks - ReserveBlocks \in Nat
  BY <1>1
<1>3. \A m, n \in Nat : m * n \in Nat
  OBVIOUS
<1>4. TotalPages \in Nat
  BY <1>1, <1>2, <1>3 DEF TotalPages
<1>5. TotalPages <= NumberOfBlocks * PagesPerBlock
  <2>1. \A n, r, p \in Nat : (n - r) * p + r * p = n * p
    OBVIOUS
  <2>2. ReserveBlocks * PagesPerBlock \in Nat
    BY <1>1, <1>3
  <2>3. NumberOfBlocks * PagesPerBlock \in Nat
    BY <1>1, <1>3
  <2> QED
    BY <1>1, <1>4, <2>1, <2>2, <2>3 DEF TotalPages
<1>6. Blocks \subseteq Nat /\ NoBlock \notin Blocks
  BY <1>1 DEF Blocks, NoBlock
<1>7. Lpns \subseteq Nat /\ NoLpn \notin Lpns
  BY <1>4 DEF Lpns, NoLpn
<1> QED
  BY <1>1, <1>4, <1>5, <1>6, <1>7

LEMMA PageCount == PagesPerBlock \in Nat /\ PagesPerBlock >= 1
  BY ConfigAssumption

LEMMA PageNumbers ==
  ASSUME NEW b \in Blocks
  PROVE  /\ b * PagesPerBlock \in Nat
         /\ (b + 1) * PagesPerBlock = b * PagesPerBlock + PagesPerBlock
         /\ (b + 1) * PagesPerBlock <= NumberOfBlocks * PagesPerBlock
         /\ \A c \in Blocks : b < c => (b + 1) * PagesPerBlock <= c * PagesPerBlock
<1>1. \A m, n \in Nat : m * n \in Nat
  OBVIOUS
<1>2. \A m, p \in Nat : (m + 1) * p = m * p + p
  OBVIOUS
<1>3. \A m, n, p \in Nat : m <= n => m * p <= n * p
  <2>1. SUFFICES ASSUME NEW m \in Nat, NEW n \in Nat, NEW p \in Nat, m <= n
                 PROVE  m * p <= n * p
    OBVIOUS
  <2>2. (n - m) * p \in Nat
    BY <2>1, <1>1
  <2>3. (n - m) * p = n * p - m * p
    BY <2>1
  <2>4. m * p \in Nat /\ n * p \in Nat
    BY <1>1
  <2> QED
    BY <2>2, <2>3, <2>4
<1>4. b \in Nat /\ b + 1 <= NumberOfBlocks
  BY ConfigFacts DEF Blocks
<1>5. \A c \in Blocks : c \in Nat /\ (b < c => b + 1 <= c)
  BY ConfigFacts, <1>4 DEF Blocks
<1> QED
  BY <1>1, <1>2, <1>3, <1>4, <1>5, ConfigFacts

-----------------------------------------------------------------------------
(* The cached mapping table.                                               *)

LEMMA CleanCacheInv ==
  ASSUME NEW list \in Seq(Lpns), NEW isCached \in SUBSET Lpns, NEW isUnsaved \in SUBSET Lpns,
         IsInjective(list), Range(list) \subseteq isCached, isUnsaved \subseteq isCached,
         CleanCache(list, isCached, isUnsaved)
  PROVE  CacheInv'
<1>1. Overflow(list) \in 0 .. Len(list) /\ Len(list) - Overflow(list) <= CacheSize
  BY ConfigFacts DEF Overflow
<1> DEFINE t == SubSeq(list, Overflow(list) + 1, Len(list))
<1>2. /\ t \in Seq(Lpns) /\ IsInjective(t)
      /\ Len(t) = Len(list) - Overflow(list)
      /\ Range(t) = Range(list) \ Evicted(list)
  BY <1>1, DropFacts DEF Evicted
<1>3. /\ dftl_cache' = t
      /\ cached' = isCached \ Evicted(list)
      /\ unsaved' \subseteq isUnsaved \ Evicted(list)
  BY DEF CleanCache
<1> HIDE DEF t
<1>4. TypeCache'
  BY <1>2, <1>3 DEF TypeCache
<1>5. CacheConsistent'
  BY <1>1, <1>2, <1>3 DEF CacheConsistent
<1> QED
  BY <1>4, <1>5 DEF CacheInv

LEMMA CacheEntryInv ==
  ASSUME CacheInv, NEW l \in Lpns, CacheEntry(l)
  PROVE  CacheInv'
<1>1. /\ dftl_cache \in Seq(Lpns) /\ cached \in SUBSET Lpns /\ unsaved \in SUBSET Lpns
      /\ IsInjective(dftl_cache) /\ Range(dftl_cache) \subseteq cached
      /\ unsaved \subseteq cached
  BY DEF CacheInv, TypeCache, CacheConsistent
<1>2. CASE l \in cached
  <2> DEFINE rest == RemoveFirst(dftl_cache, l)
  <2>1. /\ rest \in Seq(Lpns) /\ IsInjective(rest)
        /\ Range(rest) = Range(dftl_cache) \ {l}
    <3>1. CASE l \in Range(dftl_cache)
      BY <3>1, <1>1, RemoveFirstFacts
    <3>2. CASE l \notin Range(dftl_cache)
      <4>1. rest = dftl_cache
        BY <3>2, <1>1 DEF RemoveFirst, Range
      <4> QED
        BY <4>1, <3>2, <1>1
    <3> QED
      BY <3>1, <3>2
  <2>2. CleanCache(Append(rest, l), cached, unsaved)
    BY <1>2 DEF CacheEntry
  <2> HIDE DEF rest
  <2>3. /\ Append(rest, l) \in Seq(Lpns) /\ IsInjective(Append(rest, l))
        /\ Range(Append(rest, l)) = Range(rest) \cup {l}
    BY <2>1, AppendFacts
  <2> DEFINE list == Append(rest, l)
  <2>4. /\ list \in Seq(Lpns) /\ IsInjective(list) /\ Range(list) \subseteq cached
        /\ CleanCache(list, cached, unsaved)
    BY <1>1, <1>2, <2>1, <2>2, <2>3
  <2> HIDE DEF list
  <2> QED
    BY <1>1, <2>4, CleanCacheInv, Zenon
<1>3. CASE l \notin cached
  <2>1. CleanCache(Append(dftl_cache, l), cached \cup {l}, unsaved \ {l})
    BY <1>3 DEF CacheEntry
  <2>2. /\ Append(dftl_cache, l) \in Seq(Lpns) /\ IsInjective(Append(dftl_cache, l))
        /\ Range(Append(dftl_cache, l)) = Range(dftl_cache) \cup {l}
    BY <1>1, <1>3, AppendFacts
  <2> DEFINE list == Append(dftl_cache, l)
             in   == cached \cup {l}
             keep == unsaved \ {l}
  <2>3. /\ list \in Seq(Lpns) /\ IsInjective(list) /\ Range(list) \subseteq in
        /\ in \in SUBSET Lpns /\ keep \in SUBSET Lpns /\ keep \subseteq in
        /\ CleanCache(list, in, keep)
    BY <1>1, <2>1, <2>2
  <2> HIDE DEF list, in, keep
  <2> QED
    BY <2>3, CleanCacheInv, Zenon
<1> QED
  BY <1>2, <1>3

LEMMA RealReadInv ==
  ASSUME CacheInv, NEW l \in Lpns, RealRead(l)
  PROVE  CacheInv'
<1>1. CASE l \in cached
  BY <1>1 DEF RealRead, cacheVars, CacheInv, TypeCache, CacheConsistent
<1>2. CASE l \notin cached
  BY <1>2, CacheEntryInv DEF RealRead
<1> QED
  BY <1>1, <1>2

LEMMA TrimEntryInv ==
  ASSUME CacheInv, NEW l \in Lpns, TrimEntry(l)
  PROVE  CacheInv'
  BY DEF TrimEntry, CacheInv, TypeCache, CacheConsistent

-----------------------------------------------------------------------------
(* Blocks and the mapping.                                                 *)

(* What the entry's block looks like once trim has taken the page away.    *)
LEMMA TrimmedFacts ==
  ASSUME BlockInv, NEW l \in Lpns
  PROVE  /\ LpnsTrimmed(l) \in [Blocks -> Seq(Lpns)]
         /\ DirtyTrimmed(l) \in [Blocks -> Counter]
         /\ \A b \in Blocks : /\ IsInjective(LpnsTrimmed(l)[b])
                              /\ Range(LpnsTrimmed(l)[b]) = {k \in Lpns : block[k] = b} \ {l}
         /\ \A b \in Blocks :
              clean[b] + DirtyTrimmed(l)[b] + Len(LpnsTrimmed(l)[b]) = PagesPerBlock
         /\ \A b \in Blocks : block[l] # b => LpnsTrimmed(l)[b] = lpns[b]
         /\ block[l] \in Blocks =>
              LpnsTrimmed(l)[block[l]] = RemoveFirst(lpns[block[l]], l)
<1>1. CASE ~IsMapped(l)
  <2>1. LpnsTrimmed(l) = lpns /\ DirtyTrimmed(l) = dirty
    BY <1>1 DEF LpnsTrimmed, DirtyTrimmed
  <2>2. \A b \in Blocks : block[l] # b
    BY <1>1, ConfigFacts DEF IsMapped
  <2> QED
    BY <2>1, <2>2 DEF BlockInv, TypeBlocks, PageAccounting, MappingConsistent
<1>2. CASE IsMapped(l)
  <2> DEFINE o == block[l]
  <2>1. o \in Blocks
    BY <1>2 DEF IsMapped, BlockInv, TypeBlocks
  <2>2. /\ lpns[o] \in Seq(Lpns) /\ IsInjective(lpns[o]) /\ l \in Range(lpns[o])
        /\ Range(lpns[o]) = {k \in Lpns : block[k] = o}
    BY <2>1 DEF BlockInv, TypeBlocks, MappingConsistent
  <2> DEFINE rest == RemoveFirst(lpns[o], l)
  <2>3. /\ rest \in Seq(Lpns) /\ Len(rest) = Len(lpns[o]) - 1 /\ IsInjective(rest)
        /\ Range(rest) = Range(lpns[o]) \ {l}
    BY <2>2, RemoveFirstFacts
  <2> HIDE DEF rest
  <2>4. LpnsTrimmed(l) = [lpns EXCEPT ![o] = rest]
    BY <1>2 DEF LpnsTrimmed, rest
  <2>5. DirtyTrimmed(l) = [dirty EXCEPT ![o] = @ + 1]
    BY <1>2 DEF DirtyTrimmed
  <2>6. /\ clean[o] \in Nat /\ dirty[o] \in Nat /\ Len(lpns[o]) \in Nat
        /\ Len(rest) \in Nat
        /\ clean[o] + dirty[o] + Len(lpns[o]) = PagesPerBlock
    BY <2>1, <2>2, <2>3, LenProperties DEF BlockInv, TypeBlocks, Counter, PageAccounting
  <2>7. dirty[o] + 1 \in Counter
    BY <2>3, <2>6, ConfigFacts DEF Counter
  <2>8. LpnsTrimmed(l) \in [Blocks -> Seq(Lpns)] /\ DirtyTrimmed(l) \in [Blocks -> Counter]
    BY <2>1, <2>3, <2>4, <2>5, <2>7 DEF BlockInv, TypeBlocks
  <2>9. ASSUME NEW b \in Blocks
        PROVE  /\ IsInjective(LpnsTrimmed(l)[b])
               /\ Range(LpnsTrimmed(l)[b]) = {k \in Lpns : block[k] = b} \ {l}
               /\ clean[b] + DirtyTrimmed(l)[b] + Len(LpnsTrimmed(l)[b]) = PagesPerBlock
               /\ block[l] # b => LpnsTrimmed(l)[b] = lpns[b]
    <3>1. CASE b = o
      <4>1. LpnsTrimmed(l)[b] = rest /\ DirtyTrimmed(l)[b] = dirty[o] + 1
        BY <3>1, <2>1, <2>4, <2>5 DEF BlockInv, TypeBlocks
      <4>2. Range(LpnsTrimmed(l)[b]) = {k \in Lpns : block[k] = b} \ {l}
        BY <4>1, <3>1, <2>2, <2>3, Zenon
      <4>3. clean[b] + DirtyTrimmed(l)[b] + Len(LpnsTrimmed(l)[b]) = PagesPerBlock
        <5>1. Len(LpnsTrimmed(l)[b]) = Len(lpns[o]) - 1
          BY <4>1, <2>3
        <5>2. clean[b] = clean[o] /\ DirtyTrimmed(l)[b] = dirty[o] + 1
          BY <4>1, <3>1
        <5>3. \A c, d, n \in Nat : c + (d + 1) + (n - 1) = c + d + n
          OBVIOUS
        <5>4. clean[o] + (dirty[o] + 1) + (Len(lpns[o]) - 1) = PagesPerBlock
          BY <5>3, <2>6
        <5> QED
          BY <5>1, <5>2, <5>4
      <4> QED
        BY <4>1, <4>2, <4>3, <3>1, <2>3
    <3>2. CASE b # o
      <4>1. LpnsTrimmed(l)[b] = lpns[b] /\ DirtyTrimmed(l)[b] = dirty[b]
        BY <3>2, <2>1, <2>4, <2>5 DEF BlockInv, TypeBlocks
      <4> QED
        BY <4>1, <3>2 DEF BlockInv, PageAccounting, MappingConsistent
    <3> QED
      BY <3>1, <3>2
  <2> QED
    BY <2>1, <2>4, <2>8, <2>9 DEF rest, BlockInv, TypeBlocks
<1> QED
  BY <1>1, <1>2

(* ... and where trim leaves its block.                                    *)
LEMMA ListsTrimmedFacts ==
  ASSUME BlockInv, NEW l \in Lpns
  PROVE  /\ GcTrimmed(l) \in Seq(Blocks) /\ FullTrimmed(l) \in Seq(Blocks)
         /\ IsInjective(GcTrimmed(l)) /\ IsInjective(FullTrimmed(l))
         /\ Range(free_block) \cap Range(GcTrimmed(l)) = {}
         /\ Range(free_block) \cap Range(FullTrimmed(l)) = {}
         /\ Range(GcTrimmed(l)) \cap Range(FullTrimmed(l)) = {}
         /\ Range(free_block) \cup Range(GcTrimmed(l)) \cup Range(FullTrimmed(l)) = Blocks
         /\ \A b \in Range(FullTrimmed(l)) : clean[b] = 0 /\ LpnsTrimmed(l)[b] # << >>
         /\ \A b \in Range(GcTrimmed(l)) : DirtyTrimmed(l)[b] = PagesPerBlock
         /\ Range(FullTrimmed(l)) \subseteq Range(full_block)
<1> DEFINE o == block[l]
<1>t. /\ lpns \in [Blocks -> Seq(Lpns)] /\ dirty \in [Blocks -> Counter]
      /\ clean \in [Blocks -> Counter] /\ Counter \subseteq Nat
      /\ free_block \in Seq(Blocks) /\ gc_block \in Seq(Blocks) /\ full_block \in Seq(Blocks)
      /\ Range(free_block) \subseteq Blocks /\ Range(gc_block) \subseteq Blocks
      /\ Range(full_block) \subseteq Blocks
  <2>1. free_block \in Seq(Blocks) /\ gc_block \in Seq(Blocks) /\ full_block \in Seq(Blocks)
    BY DEF BlockInv, TypeBlocks
  <2>2. \A s \in Seq(Blocks) : Range(s) \subseteq Blocks
    BY RangeOfSeq
  <2> QED
    BY <2>1, <2>2 DEF BlockInv, TypeBlocks, Counter
<1>1. CASE ~Exhausted(l)
  <2>1. GcTrimmed(l) = gc_block /\ FullTrimmed(l) = full_block
    BY <1>1 DEF GcTrimmed, FullTrimmed
  <2>2. \A b \in Range(full_block) : clean[b] = 0 /\ lpns[b] # << >>
    BY DEF BlockInv, PageAccounting
  <2>3. \A b \in Range(gc_block) : dirty[b] = PagesPerBlock
    BY DEF BlockInv, PageAccounting
  <2>4. ASSUME NEW b \in Range(full_block)
        PROVE  LpnsTrimmed(l)[b] # << >>
    <3>1. CASE IsMapped(l) /\ b = o
      <4>0. b \in Blocks /\ dirty[b] \in Nat
        BY <1>t
      <4>1. dirty[b] + 1 < PagesPerBlock
        BY <4>0, <3>1, <1>1, ConfigFacts DEF Exhausted
      <4>2. DirtyTrimmed(l)[b] = dirty[b] + 1
        BY <3>1, <1>t DEF DirtyTrimmed
      <4>3. clean[b] + DirtyTrimmed(l)[b] + Len(LpnsTrimmed(l)[b]) = PagesPerBlock
        BY <4>0, TrimmedFacts
      <4>4. Len(LpnsTrimmed(l)[b]) # 0
        BY <4>0, <4>1, <4>2, <4>3, <2>2, ConfigFacts
      <4> QED
        BY <4>4, EmptySeq
    <3>2. CASE ~(IsMapped(l) /\ b = o)
      <4>1. block[l] # b
        BY <3>2, <1>t, ConfigFacts DEF IsMapped
      <4> QED
        BY <4>1, <2>2, <1>t, TrimmedFacts
    <3> QED
      BY <3>1, <3>2
  <2>5. ASSUME NEW b \in Range(gc_block)
        PROVE  DirtyTrimmed(l)[b] = PagesPerBlock
    <3>1. CASE IsMapped(l) /\ b = o
      BY <3>1, <1>1, <1>t, <2>3, ConfigFacts DEF Exhausted
    <3>2. CASE ~(IsMapped(l) /\ b = o)
      BY <3>2, <1>t, <2>3 DEF DirtyTrimmed
    <3> QED
      BY <3>1, <3>2
  <2> QED
    BY <2>1, <2>2, <2>4, <2>5, <1>t DEF BlockInv, Partition
<1>2. CASE Exhausted(l)
  <2>1. o \in Blocks /\ IsMapped(l) /\ dirty[o] + 1 >= PagesPerBlock
    BY <1>2 DEF Exhausted, IsMapped, BlockInv, TypeBlocks
  <2>2. /\ clean[o] + DirtyTrimmed(l)[o] + Len(LpnsTrimmed(l)[o]) = PagesPerBlock
        /\ DirtyTrimmed(l)[o] = dirty[o] + 1
        /\ Len(LpnsTrimmed(l)[o]) \in Nat
    <3>1. LpnsTrimmed(l)[o] \in Seq(Lpns)
      BY <2>1, TrimmedFacts
    <3>2. DirtyTrimmed(l)[o] = dirty[o] + 1
      BY <2>1, <1>t DEF DirtyTrimmed
    <3>3. clean[o] + DirtyTrimmed(l)[o] + Len(LpnsTrimmed(l)[o]) = PagesPerBlock
      BY <2>1, TrimmedFacts
    <3>4. Len(LpnsTrimmed(l)[o]) \in Nat
      BY <3>1, LenProperties, Zenon
    <3> QED
      BY <3>2, <3>3, <3>4
  <2>3. clean[o] = 0 /\ dirty[o] = PagesPerBlock - 1
    <3>1. clean[o] \in Nat /\ dirty[o] \in Nat
      BY <2>1, <1>t
    <3>2. \A c, d, n, p \in Nat : c + (d + 1) + n = p /\ d + 1 >= p => c = 0 /\ d = p - 1
      OBVIOUS
    <3>3. clean[o] + (dirty[o] + 1) + Len(LpnsTrimmed(l)[o]) = PagesPerBlock
      BY <2>2
    <3>4. PagesPerBlock \in Nat /\ Len(LpnsTrimmed(l)[o]) \in Nat
      BY <2>2, ConfigFacts
    <3> QED
      BY <2>1, <3>1, <3>2, <3>3, <3>4
  <2>4. o \notin Range(free_block)
    BY <2>3 DEF Range, BlockInv, PageAccounting
  <2>5. o \notin Range(gc_block)
    BY <2>3, ConfigFacts DEF BlockInv, PageAccounting
  <2>6. o \in Range(full_block)
    BY <2>1, <2>4, <2>5 DEF BlockInv, Partition
  <2>7. IsInjective(gc_block) /\ IsInjective(full_block)
    BY DEF BlockInv, Partition
  <2>8. GcTrimmed(l) = Append(gc_block, o) /\ FullTrimmed(l) = RemoveFirst(full_block, o)
    BY <1>2 DEF GcTrimmed, FullTrimmed
  <2>9. /\ GcTrimmed(l) \in Seq(Blocks) /\ IsInjective(GcTrimmed(l))
        /\ Range(GcTrimmed(l)) = Range(gc_block) \cup {o}
    BY <2>1, <2>5, <2>7, <2>8, <1>t, AppendFacts
  <2>10. /\ FullTrimmed(l) \in Seq(Blocks) /\ IsInjective(FullTrimmed(l))
         /\ Range(FullTrimmed(l)) = Range(full_block) \ {o}
    BY <2>6, <2>7, <2>8, <1>t, RemoveFirstFacts
  <2>11. ASSUME NEW b \in Range(FullTrimmed(l))
         PROVE  clean[b] = 0 /\ LpnsTrimmed(l)[b] # << >>
    <3>1. b \in Range(full_block) /\ b # o /\ b \in Blocks
      BY <2>10, <1>t
    <3> QED
      BY <3>1, TrimmedFacts DEF BlockInv, PageAccounting
  <2>12. ASSUME NEW b \in Range(GcTrimmed(l))
         PROVE  DirtyTrimmed(l)[b] = PagesPerBlock
    <3>1. CASE b = o
      BY <3>1, <2>2, <2>3, ConfigFacts
    <3>2. CASE b # o
      <4>1. b \in Range(gc_block) /\ b \in Blocks
        BY <3>2, <2>9, <1>t
      <4>2. DirtyTrimmed(l)[b] = dirty[b]
        BY <3>2, <4>1, <2>1, <1>t DEF DirtyTrimmed
      <4> QED
        BY <4>1, <4>2 DEF BlockInv, PageAccounting
    <3> QED
      BY <3>1, <3>2
  <2>13. /\ Range(free_block) \cap Range(gc_block) = {}
         /\ Range(free_block) \cap Range(full_block) = {}
         /\ Range(gc_block) \cap Range(full_block) = {}
         /\ Range(free_block) \cup Range(gc_block) \cup Range(full_block) = Blocks
    BY DEF BlockInv, Partition
  <2> QED
    BY <2>4, <2>6, <2>9, <2>10, <2>11, <2>12, <2>13
<1> QED
  BY <1>1, <1>2

LEMMA TrimPageInv ==
  ASSUME BlockInv, NEW l \in Lpns, TrimPage(l)
  PROVE  BlockInv'
<1>1. /\ lpns' = LpnsTrimmed(l) /\ dirty' = DirtyTrimmed(l)
      /\ gc_block' = GcTrimmed(l) /\ full_block' = FullTrimmed(l)
      /\ block' = [block EXCEPT ![l] = NoBlock]
      /\ ppn' = [ppn EXCEPT ![l] = TotalPages]
      /\ clean' = clean /\ free_block' = free_block
  BY DEF TrimPage
<1>2. /\ clean \in [Blocks -> Counter] /\ free_block \in Seq(Blocks)
      /\ block \in [Lpns -> Blocks \cup {NoBlock}]
      /\ ppn \in [Lpns -> 0 .. NumberOfBlocks * PagesPerBlock]
  BY DEF BlockInv, TypeBlocks
<1>3. /\ block'[l] = NoBlock /\ ppn'[l] = TotalPages
      /\ \A k \in Lpns \ {l} : block'[k] = block[k] /\ ppn'[k] = ppn[k]
  BY <1>1, <1>2
<1>4. TypeBlocks'
  <2>1. TotalPages \in 0 .. NumberOfBlocks * PagesPerBlock
    BY ConfigFacts
  <2>2. ppn' \in [Lpns -> 0 .. NumberOfBlocks * PagesPerBlock]
    BY <1>1, <1>2, <2>1
  <2>3. block' \in [Lpns -> Blocks \cup {NoBlock}]
    BY <1>1, <1>2
  <2> QED
    BY <1>1, <1>2, <2>2, <2>3, TrimmedFacts, ListsTrimmedFacts, Zenon DEF TypeBlocks
<1>5. Partition'
  <2>1. IsInjective(free_block)
    BY DEF BlockInv, Partition
  <2> QED
    BY <1>1, <2>1, ListsTrimmedFacts, Zenon DEF Partition
<1>6. PageAccounting'
  <2>1. /\ \A i \in DOMAIN free_block : clean[free_block[i]] > 0
        /\ \A i \in 2 .. Len(free_block) : clean[free_block[i]] = PagesPerBlock
    BY DEF BlockInv, PageAccounting
  <2> QED
    BY <1>1, <2>1, TrimmedFacts, ListsTrimmedFacts, Zenon DEF PageAccounting
<1>7. MappingConsistent'
  <2>1. ASSUME NEW b \in Blocks
        PROVE  IsInjective(lpns'[b]) /\ Range(lpns'[b]) = {k \in Lpns : block'[k] = b}
    <3>1. {k \in Lpns : block'[k] = b} = {k \in Lpns : block[k] = b} \ {l}
      BY <1>3, ConfigFacts
    <3> QED
      BY <1>1, <3>1, TrimmedFacts, Zenon
  <2>2. ASSUME NEW k \in Lpns
        PROVE  IF block'[k] # NoBlock
               THEN /\ ppn'[k] >= block'[k] * PagesPerBlock
                    /\ ppn'[k] < (block'[k] + 1) * PagesPerBlock - clean'[block'[k]]
               ELSE ppn'[k] = TotalPages
    <3>1. CASE k = l
      BY <3>1, <1>3
    <3>2. CASE k # l
      BY <3>2, <1>1, <1>3 DEF BlockInv, MappingConsistent, IsMapped
    <3> QED
      BY <3>1, <3>2
  <2> QED
    BY <2>1, <2>2, Zenon DEF MappingConsistent, IsMapped
<1>8. MappingInjective'
  BY <1>3 DEF BlockInv, MappingInjective, IsMapped
<1> QED
  BY <1>4, <1>5, <1>6, <1>7, <1>8 DEF BlockInv

LEMMA HeadOfFree ==
  ASSUME BlockInv, free_block # << >>
  PROVE  /\ Head(free_block) \in Blocks /\ Head(free_block) \in Range(free_block)
         /\ clean[Head(free_block)] \in 1 .. PagesPerBlock
         /\ NextPage >= Head(free_block) * PagesPerBlock
         /\ NextPage < (Head(free_block) + 1) * PagesPerBlock - (clean[Head(free_block)] - 1)
         /\ NextPage \in 0 .. NumberOfBlocks * PagesPerBlock
<1> DEFINE b == Head(free_block)
<1>1. /\ free_block \in Seq(Blocks) /\ IsInjective(free_block) /\ clean \in [Blocks -> Counter]
      /\ \A i \in DOMAIN free_block : clean[free_block[i]] > 0
  BY DEF BlockInv, TypeBlocks, Partition, PageAccounting
<1>2. b \in Blocks /\ b \in Range(free_block)
  BY <1>1, TailFacts
<1>3. clean[b] > 0
  BY <1>1, <1>2 DEF Range
<1>4. clean[b] \in 1 .. PagesPerBlock
  BY <1>1, <1>2, <1>3, PageCount DEF Counter
<1>5. NextPage = (b + 1) * PagesPerBlock - clean[b]
  BY DEF NextPage
<1> HIDE DEF b
<1>6. /\ b * PagesPerBlock \in Nat
      /\ (b + 1) * PagesPerBlock = b * PagesPerBlock + PagesPerBlock
      /\ (b + 1) * PagesPerBlock <= NumberOfBlocks * PagesPerBlock
  BY <1>2, PageNumbers
<1> DEFINE low == b * PagesPerBlock
           high == (b + 1) * PagesPerBlock
           all == NumberOfBlocks * PagesPerBlock
<1>7. low \in Nat /\ high = low + PagesPerBlock /\ high <= all /\ NextPage = high - clean[b]
  BY <1>5, <1>6
<1>8. all \in Int
  BY ConfigFacts
<1> HIDE DEF low, high, all
<1>9. NextPage >= low /\ NextPage < high - (clean[b] - 1) /\ NextPage \in 0 .. all
  BY <1>4, <1>7, <1>8, PageCount
<1> QED
  BY <1>2, <1>4, <1>9 DEF b, low, high, all

LEMMA WriteInv ==
  ASSUME BlockInv, NEW l \in Lpns, WriteWithoutGC(l)
  PROVE  BlockInv'
<1> DEFINE b == Head(free_block)
<1>1. /\ free_block # << >>
      /\ clean' = [clean EXCEPT ![b] = @ - 1]
      /\ free_block' = IF Fills THEN Tail(free_block) ELSE free_block
      /\ full_block' = IF Fills THEN Append(FullTrimmed(l), b) ELSE FullTrimmed(l)
      /\ gc_block' = GcTrimmed(l)
      /\ lpns' = [LpnsTrimmed(l) EXCEPT ![b] = Append(@, l)]
      /\ dirty' = DirtyTrimmed(l)
      /\ block' = [block EXCEPT ![l] = b]
      /\ ppn' = [ppn EXCEPT ![l] = NextPage]
  BY DEF WriteWithoutGC
<1>2. Fills <=> clean[b] - 1 <= 0
  BY DEF Fills
<1>3. /\ b \in Blocks /\ b \in Range(free_block) /\ clean[b] \in 1 .. PagesPerBlock
      /\ NextPage >= b * PagesPerBlock
      /\ NextPage < (b + 1) * PagesPerBlock - (clean[b] - 1)
      /\ NextPage \in 0 .. NumberOfBlocks * PagesPerBlock
  BY <1>1, HeadOfFree
<1>4. NextPage = (b + 1) * PagesPerBlock - clean[b]
  BY DEF NextPage
<1>t. /\ clean \in [Blocks -> Counter] /\ free_block \in Seq(Blocks) /\ IsInjective(free_block)
      /\ block \in [Lpns -> Blocks \cup {NoBlock}]
      /\ ppn \in [Lpns -> 0 .. NumberOfBlocks * PagesPerBlock]
  BY DEF BlockInv, TypeBlocks, Partition
<1>5. /\ Tail(free_block) \in Seq(Blocks) /\ IsInjective(Tail(free_block))
      /\ Len(Tail(free_block)) = Len(free_block) - 1
      /\ Range(Tail(free_block)) = Range(free_block) \ {b}
      /\ \A i \in 1 .. Len(free_block) - 1 : Tail(free_block)[i] = free_block[i + 1]
      /\ b = free_block[1]
  BY <1>1, <1>t, TailFacts
<1>6. /\ FullTrimmed(l) \in Seq(Blocks) /\ IsInjective(FullTrimmed(l))
      /\ b \notin Range(FullTrimmed(l)) /\ b \notin Range(GcTrimmed(l))
      /\ GcTrimmed(l) \in Seq(Blocks) /\ IsInjective(GcTrimmed(l))
  BY <1>3, ListsTrimmedFacts
<1>7. /\ Append(FullTrimmed(l), b) \in Seq(Blocks) /\ IsInjective(Append(FullTrimmed(l), b))
      /\ Range(Append(FullTrimmed(l), b)) = Range(FullTrimmed(l)) \cup {b}
  BY <1>3, <1>6, AppendFacts
<1>8. /\ LpnsTrimmed(l) \in [Blocks -> Seq(Lpns)]
      /\ DirtyTrimmed(l) \in [Blocks -> Counter]
      /\ LpnsTrimmed(l)[b] \in Seq(Lpns)
      /\ IsInjective(LpnsTrimmed(l)[b])
      /\ Range(LpnsTrimmed(l)[b]) = {k \in Lpns : block[k] = b} \ {l}
  BY <1>3, TrimmedFacts
<1> DEFINE more == Append(LpnsTrimmed(l)[b], l)
<1>9. /\ more \in Seq(Lpns) /\ Len(more) = Len(LpnsTrimmed(l)[b]) + 1
      /\ IsInjective(more) /\ Range(more) = {k \in Lpns : block[k] = b} \cup {l}
      /\ more # << >>
  <2>1. l \notin Range(LpnsTrimmed(l)[b])
    BY <1>8
  <2>2. /\ more \in Seq(Lpns) /\ Len(more) = Len(LpnsTrimmed(l)[b]) + 1
        /\ IsInjective(more) /\ Range(more) = Range(LpnsTrimmed(l)[b]) \cup {l}
    BY <1>8, <2>1, AppendFacts
  <2>3. more # << >>
    BY <1>8, AppendProperties
  <2> QED
    BY <2>2, <2>3, <1>8
<1> HIDE DEF more
<1>10. /\ lpns'[b] = more /\ clean'[b] = clean[b] - 1
       /\ \A c \in Blocks \ {b} : lpns'[c] = LpnsTrimmed(l)[c] /\ clean'[c] = clean[c]
       /\ lpns' \in [Blocks -> Seq(Lpns)]
  BY <1>1, <1>3, <1>8, <1>9, <1>t DEF more
<1>11. /\ block'[l] = b /\ ppn'[l] = NextPage
       /\ \A k \in Lpns \ {l} : block'[k] = block[k] /\ ppn'[k] = ppn[k]
  BY <1>1, <1>t
<1> HIDE DEF b
<1>12. TypeBlocks'
  <2>1. clean[b] - 1 \in Counter
    BY <1>3, PageCount DEF Counter
  <2>2. clean' \in [Blocks -> Counter]
    BY <2>1, <1>1, <1>3, <1>t
  <2>3. block' \in [Lpns -> Blocks \cup {NoBlock}]
    BY <1>1, <1>3, <1>t
  <2>4. ppn' \in [Lpns -> 0 .. NumberOfBlocks * PagesPerBlock]
    BY <1>1, <1>3, <1>t
  <2>5. free_block' \in Seq(Blocks) /\ full_block' \in Seq(Blocks) /\ gc_block' \in Seq(Blocks)
    BY <1>1, <1>5, <1>6, <1>7, <1>t
  <2>6. dirty' \in [Blocks -> Counter]
    BY <1>1, <1>8
  <2> QED
    BY <1>10, <2>2, <2>3, <2>4, <2>5, <2>6 DEF TypeBlocks
<1>13. Partition'
  <2>1. /\ Range(free_block) \cap Range(GcTrimmed(l)) = {}
        /\ Range(free_block) \cap Range(FullTrimmed(l)) = {}
        /\ Range(GcTrimmed(l)) \cap Range(FullTrimmed(l)) = {}
        /\ Range(free_block) \cup Range(GcTrimmed(l)) \cup Range(FullTrimmed(l)) = Blocks
    BY ListsTrimmedFacts
  <2>2. CASE Fills
    <3>1. /\ free_block' = Tail(free_block) /\ gc_block' = GcTrimmed(l)
          /\ full_block' = Append(FullTrimmed(l), b)
      BY <1>1, <2>2 DEF b
    <3>2. /\ Range(free_block') = Range(free_block) \ {b}
          /\ Range(full_block') = Range(FullTrimmed(l)) \cup {b}
          /\ Range(gc_block') = Range(GcTrimmed(l))
      BY <3>1, <1>5, <1>7
    <3>3. IsInjective(free_block') /\ IsInjective(gc_block') /\ IsInjective(full_block')
      BY <3>1, <1>5, <1>6, <1>7
    <3> QED
      BY <3>2, <3>3, <2>1, <1>3, <1>6 DEF Partition
  <2>3. CASE ~Fills
    <3>1. /\ free_block' = free_block /\ gc_block' = GcTrimmed(l)
          /\ full_block' = FullTrimmed(l)
      BY <1>1, <2>3
    <3> QED
      BY <3>1, <2>1, <1>6, <1>t, Zenon DEF Partition
  <2> QED
    BY <2>2, <2>3
<1>14. PageAccounting'
  <2>1. ASSUME NEW c \in Blocks
        PROVE  clean'[c] + dirty'[c] + Len(lpns'[c]) = PagesPerBlock
    <3>0. clean[c] + DirtyTrimmed(l)[c] + Len(LpnsTrimmed(l)[c]) = PagesPerBlock
      BY TrimmedFacts
    <3>1. CASE c = b
      <4>1. \A x, y, z \in Int : (x - 1) + y + (z + 1) = x + y + z
        OBVIOUS
      <4>2. clean[b] \in Int /\ DirtyTrimmed(l)[b] \in Int /\ Len(LpnsTrimmed(l)[b]) \in Int
        BY <1>3, <1>8, LenProperties DEF Counter
      <4>3. clean'[c] = clean[b] - 1 /\ dirty'[c] = DirtyTrimmed(l)[b]
            /\ Len(lpns'[c]) = Len(LpnsTrimmed(l)[b]) + 1
        BY <3>1, <1>1, <1>9, <1>10
      <4> QED
        BY <4>1, <4>2, <4>3, <3>0, <3>1
    <3>2. CASE c # b
      BY <3>2, <3>0, <1>1, <1>10
    <3> QED
      BY <3>1, <3>2
  <2>2. /\ \A i \in DOMAIN free_block : clean[free_block[i]] > 0
        /\ \A i \in 2 .. Len(free_block) : clean[free_block[i]] = PagesPerBlock
    BY DEF BlockInv, PageAccounting
  <2>3. Len(free_block) \in Nat /\ Len(free_block) >= 1 /\ DOMAIN free_block = 1 .. Len(free_block)
    BY <1>1, <1>t, EmptySeq, LenProperties
  <2>4. \A i \in 2 .. Len(free_block) : free_block[i] \in Blocks \ {b}
    BY <1>5, <1>t, <2>3 DEF IsInjective
  <2>5. CASE Fills
    <3>1. free_block' = Tail(free_block) /\ full_block' = Append(FullTrimmed(l), b)
      BY <1>1, <2>5 DEF b
    <3>2. Len(free_block') = Len(free_block) - 1 /\ DOMAIN free_block' = 1 .. Len(free_block) - 1
      BY <3>1, <1>5, <2>3, LenProperties
    <3>3. ASSUME NEW i \in 1 .. Len(free_block) - 1
          PROVE  clean'[free_block'[i]] = PagesPerBlock
      <4>1. i + 1 \in 2 .. Len(free_block) /\ free_block'[i] = free_block[i + 1]
        BY <3>1, <1>5, <2>3
      <4>2. free_block[i + 1] \in Blocks \ {b} /\ clean[free_block[i + 1]] = PagesPerBlock
        BY <4>1, <2>2, <2>4
      <4> QED
        BY <4>1, <4>2, <1>10
    <3>4. /\ \A i \in DOMAIN free_block' : clean'[free_block'[i]] > 0
          /\ \A i \in 2 .. Len(free_block') : clean'[free_block'[i]] = PagesPerBlock
      BY <3>2, <3>3, <2>3, PageCount
    <3>5. ASSUME NEW c \in Range(full_block')
          PROVE  clean'[c] = 0 /\ lpns'[c] # << >>
      <4>1. CASE c = b
        BY <4>1, <2>5, <1>2, <1>3, <1>9, <1>10 DEF b
      <4>2. CASE c # b
        <5>1. c \in Range(FullTrimmed(l))
          BY <3>1, <4>2, <1>7
        <5>2. c \in Blocks
          BY <5>1, <1>6, RangeOfSeq
        <5> QED
          BY <5>1, <5>2, <4>2, <1>10, ListsTrimmedFacts
      <4> QED
        BY <4>1, <4>2
    <3>6. \A c \in Range(gc_block') : dirty'[c] = PagesPerBlock
      BY <1>1, ListsTrimmedFacts, Zenon
    <3> QED
      BY <2>1, <3>4, <3>5, <3>6, Zenon DEF PageAccounting
  <2>6. CASE ~Fills
    <3>1. free_block' = free_block /\ full_block' = FullTrimmed(l)
      BY <1>1, <2>6
    <3>2. clean[b] - 1 > 0
      BY <2>6, <1>2, <1>3 DEF b
    <3>3. ASSUME NEW i \in DOMAIN free_block
          PROVE  clean'[free_block[i]] > 0
      <4>1. CASE free_block[i] = b
        BY <4>1, <3>2, <1>10
      <4>2. CASE free_block[i] # b
        BY <4>2, <2>2, <1>10, <1>t, <2>3, ElementOfSeq
      <4> QED
        BY <4>1, <4>2
    <3>4. \A i \in 2 .. Len(free_block) : clean'[free_block[i]] = PagesPerBlock
      BY <2>2, <2>4, <1>10
    <3>5. ASSUME NEW c \in Range(full_block')
          PROVE  clean'[c] = 0 /\ lpns'[c] # << >>
      <4>1. c \in Range(FullTrimmed(l)) /\ c # b
        BY <3>1, <1>6
      <4>2. c \in Blocks
        BY <4>1, <1>6, RangeOfSeq
      <4> QED
        BY <4>1, <4>2, <1>10, ListsTrimmedFacts
    <3>6. \A c \in Range(gc_block') : dirty'[c] = PagesPerBlock
      BY <1>1, ListsTrimmedFacts, Zenon
    <3> QED
      BY <2>1, <3>1, <3>3, <3>4, <3>5, <3>6, Zenon DEF PageAccounting
  <2> QED
    BY <2>5, <2>6
<1>15. MappingConsistent'
  <2>1. ASSUME NEW c \in Blocks
        PROVE  IsInjective(lpns'[c]) /\ Range(lpns'[c]) = {k \in Lpns : block'[k] = c}
    <3>1. CASE c = b
      <4>1. {k \in Lpns : block'[k] = c} = {k \in Lpns : block[k] = b} \cup {l}
        BY <3>1, <1>11
      <4> QED
        BY <4>1, <3>1, <1>9, <1>10
    <3>2. CASE c # b
      <4>1. {k \in Lpns : block'[k] = c} = {k \in Lpns : block[k] = c} \ {l}
        BY <3>2, <1>11
      <4>2. lpns'[c] = LpnsTrimmed(l)[c]
        BY <3>2, <1>10
      <4> QED
        BY <4>1, <4>2, TrimmedFacts, Zenon
    <3> QED
      BY <3>1, <3>2
  <2>2. ASSUME NEW k \in Lpns
        PROVE  IF block'[k] # NoBlock
               THEN /\ ppn'[k] >= block'[k] * PagesPerBlock
                    /\ ppn'[k] < (block'[k] + 1) * PagesPerBlock - clean'[block'[k]]
               ELSE ppn'[k] = TotalPages
    <3>1. CASE k = l
      BY <3>1, <1>3, <1>10, <1>11, ConfigFacts
    <3>2. CASE k # l /\ block[k] = NoBlock
      BY <3>2, <1>11 DEF BlockInv, MappingConsistent, IsMapped
    <3>3. CASE k # l /\ block[k] # NoBlock
      <4>1. /\ block[k] \in Blocks /\ ppn[k] \in Int
            /\ ppn[k] >= block[k] * PagesPerBlock
            /\ ppn[k] < (block[k] + 1) * PagesPerBlock - clean[block[k]]
            /\ block'[k] = block[k] /\ ppn'[k] = ppn[k]
        BY <3>3, <1>11, <1>t DEF BlockInv, MappingConsistent, IsMapped
      <4>2. CASE block[k] = b
        <5>1. (b + 1) * PagesPerBlock \in Int
          BY <1>3, PageNumbers, PageCount
        <5> DEFINE high == (b + 1) * PagesPerBlock
        <5>2. high \in Int /\ clean[b] \in Int /\ ppn[k] < high - clean[b]
          BY <4>1, <4>2, <5>1, <1>3
        <5> HIDE DEF high
        <5>3. ppn[k] < high - (clean[b] - 1)
          BY <4>1, <5>2
        <5> QED
          BY <4>1, <4>2, <5>3, <1>10, <3>3 DEF high
      <4>3. CASE block[k] # b
        BY <4>1, <4>3, <1>10, <3>3
      <4> QED
        BY <4>2, <4>3
    <3> QED
      BY <3>1, <3>2, <3>3
  <2> QED
    BY <2>1, <2>2, Zenon DEF MappingConsistent, IsMapped
<1>16. MappingInjective'
  <2>1. ASSUME NEW k \in Lpns, k # l, block[k] # NoBlock
        PROVE  ppn[k] # NextPage
    <3>1. /\ block[k] \in Blocks /\ ppn[k] \in Int
          /\ ppn[k] >= block[k] * PagesPerBlock
          /\ ppn[k] < (block[k] + 1) * PagesPerBlock - clean[block[k]]
      BY <2>1, <1>t DEF BlockInv, MappingConsistent, IsMapped
    <3>2. CASE block[k] = b
      BY <3>1, <3>2, <1>4 DEF b
    <3>3. CASE block[k] # b
      <4> DEFINE c == block[k]
                 bl == b * PagesPerBlock
                 bh == (b + 1) * PagesPerBlock
                 cl == c * PagesPerBlock
                 ch == (c + 1) * PagesPerBlock
      <4>1. c \in Nat /\ b \in Nat /\ (c < b \/ b < c)
        <5>1. \A x \in Blocks : x \in Nat
          BY DEF Blocks
        <5> QED
          BY <5>1, <3>1, <3>3, <1>3
      <4>2. /\ bl \in Nat /\ cl \in Nat /\ bh = bl + PagesPerBlock /\ ch = cl + PagesPerBlock
            /\ c < b => ch <= bl
            /\ b < c => bh <= cl
        BY <3>1, <1>3, PageNumbers
      <4>3. /\ ppn[k] \in Int /\ NextPage \in Int /\ clean[c] \in Nat /\ clean[b] \in Nat
            /\ clean[b] >= 1
            /\ ppn[k] >= cl /\ ppn[k] < ch - clean[c]
            /\ NextPage >= bl /\ NextPage < bh - (clean[b] - 1)
        BY <3>1, <1>3, <1>t DEF Counter
      <4> HIDE DEF c, bl, bh, cl, ch
      <4> QED
        BY <4>1, <4>2, <4>3, PageCount
    <3> QED
      BY <3>2, <3>3
  <2> QED
    BY <2>1, <1>11 DEF BlockInv, MappingInjective, IsMapped
<1> QED
  BY <1>12, <1>13, <1>14, <1>15, <1>16 DEF BlockInv

(* The erase of force_gc, where some block waits for it.                   *)
LEMMA EraseInv ==
  ASSUME BlockInv, EraseBlock
  PROVE  BlockInv' /\ \A l \in Lpns : block[l] # Head(gc_block)
<1> DEFINE b == Head(gc_block)
<1>1. /\ gc_block # << >>
      /\ lpns' = [lpns EXCEPT ![b] = << >>]
      /\ clean' = [clean EXCEPT ![b] = PagesPerBlock]
      /\ dirty' = [dirty EXCEPT ![b] = 0]
      /\ gc_block' = Tail(gc_block)
      /\ free_block' = Append(free_block, b)
      /\ full_block' = full_block /\ block' = block /\ ppn' = ppn
  BY DEF EraseBlock, tableVars
<1>2. /\ lpns \in [Blocks -> Seq(Lpns)] /\ clean \in [Blocks -> Counter]
      /\ dirty \in [Blocks -> Counter] /\ free_block \in Seq(Blocks)
      /\ gc_block \in Seq(Blocks) /\ full_block \in Seq(Blocks)
      /\ IsInjective(gc_block) /\ IsInjective(free_block) /\ IsInjective(full_block)
  BY DEF BlockInv, TypeBlocks, Partition
<1>3. /\ b \in Blocks /\ b \in Range(gc_block)
      /\ Tail(gc_block) \in Seq(Blocks) /\ IsInjective(Tail(gc_block))
      /\ Range(Tail(gc_block)) = Range(gc_block) \ {b}
  BY <1>1, <1>2, TailFacts
<1>4. b \notin Range(free_block) /\ b \notin Range(full_block)
  BY <1>3 DEF BlockInv, Partition
<1>5. /\ Append(free_block, b) \in Seq(Blocks) /\ IsInjective(Append(free_block, b))
      /\ Len(Append(free_block, b)) = Len(free_block) + 1
      /\ Range(Append(free_block, b)) = Range(free_block) \cup {b}
      /\ \A i \in 1 .. Len(free_block) : Append(free_block, b)[i] = free_block[i]
      /\ Append(free_block, b)[Len(free_block) + 1] = b
  BY <1>2, <1>3, <1>4, AppendFacts
<1> HIDE DEF b
<1>6. lpns[b] = << >>
  <2>1. /\ clean[b] + dirty[b] + Len(lpns[b]) = PagesPerBlock /\ dirty[b] = PagesPerBlock
        /\ clean[b] \in Nat /\ lpns[b] \in Seq(Lpns)
    BY <1>2, <1>3 DEF BlockInv, PageAccounting, Counter
  <2>2. Len(lpns[b]) \in Nat
    BY <2>1, LenProperties
  <2>3. Len(lpns[b]) = 0
    BY <2>1, <2>2, PageCount
  <2> QED
    BY <2>1, <2>3, EmptySeq
<1>7. \A l \in Lpns : block[l] # b
  <2>1. Range(lpns[b]) = {l \in Lpns : block[l] = b}
    BY <1>3 DEF BlockInv, MappingConsistent
  <2>2. Range(lpns[b]) = {}
    BY <1>6 DEF Range
  <2> QED
    BY <2>1, <2>2
<1>8. /\ lpns' = lpns
      /\ clean'[b] = PagesPerBlock /\ dirty'[b] = 0
      /\ \A c \in Blocks \ {b} : clean'[c] = clean[c] /\ dirty'[c] = dirty[c]
  BY <1>1, <1>2, <1>3, <1>6 DEF b
<1>9. TypeBlocks'
  <2>1. PagesPerBlock \in Counter /\ 0 \in Counter
    BY PageCount DEF Counter
  <2>2. clean' \in [Blocks -> Counter] /\ dirty' \in [Blocks -> Counter]
    BY <2>1, <1>1, <1>2
  <2>3. free_block' \in Seq(Blocks) /\ gc_block' \in Seq(Blocks)
    BY <1>1, <1>3, <1>5 DEF b
  <2> QED
    BY <2>2, <2>3, <1>1, <1>8 DEF TypeBlocks, BlockInv
<1>10. Partition'
  <2>1. /\ free_block' = Append(free_block, b) /\ gc_block' = Tail(gc_block)
        /\ full_block' = full_block
    BY <1>1 DEF b
  <2>2. /\ Range(free_block') = Range(free_block) \cup {b}
        /\ Range(gc_block') = Range(gc_block) \ {b}
        /\ Range(full_block') = Range(full_block)
        /\ IsInjective(free_block') /\ IsInjective(gc_block') /\ IsInjective(full_block')
    BY <2>1, <1>2, <1>3, <1>5
  <2> QED
    BY <2>2, <1>3, <1>4 DEF BlockInv, Partition
<1>11. PageAccounting'
  <2>1. ASSUME NEW c \in Blocks
        PROVE  clean'[c] + dirty'[c] + Len(lpns'[c]) = PagesPerBlock
    <3>1. CASE c = b
      <4>1. Len(lpns'[c]) = 0
        BY <3>1, <1>6, <1>8, EmptySeq
      <4> QED
        BY <3>1, <4>1, <1>8, PageCount
    <3>2. CASE c # b
      BY <3>2, <1>8 DEF BlockInv, PageAccounting
    <3> QED
      BY <3>1, <3>2
  <2>2. /\ \A i \in DOMAIN free_block : clean[free_block[i]] > 0
        /\ \A i \in 2 .. Len(free_block) : clean[free_block[i]] = PagesPerBlock
        /\ \A c \in Range(full_block) : clean[c] = 0 /\ lpns[c] # << >>
        /\ \A c \in Range(gc_block) : dirty[c] = PagesPerBlock
    BY DEF BlockInv, PageAccounting
  <2>3. Len(free_block) \in Nat /\ DOMAIN free_block = 1 .. Len(free_block)
    BY <1>2, LenProperties
  <2>4. ASSUME NEW i \in 1 .. Len(free_block)
        PROVE  free_block[i] \in Blocks \ {b}
    <3>1. free_block[i] \in Range(free_block)
      BY <2>3 DEF Range
    <3>2. Range(free_block) \subseteq Blocks
      BY <1>2, RangeOfSeq
    <3> QED
      BY <3>1, <3>2, <1>4
  <2>5. /\ free_block' \in Seq(Blocks) /\ Len(free_block') = Len(free_block) + 1
        /\ DOMAIN free_block' = 1 .. Len(free_block) + 1
        /\ \A i \in 1 .. Len(free_block) : free_block'[i] = free_block[i]
        /\ free_block'[Len(free_block) + 1] = b
    BY <1>1, <1>5, LenProperties DEF b
  <2>6. ASSUME NEW i \in 1 .. Len(free_block) + 1
        PROVE  /\ clean'[free_block'[i]] > 0
               /\ i >= 2 => clean'[free_block'[i]] = PagesPerBlock
    <3>1. CASE i \in 1 .. Len(free_block)
      <4>1. free_block'[i] = free_block[i] /\ clean'[free_block[i]] = clean[free_block[i]]
        BY <3>1, <2>4, <2>5, <1>8
      <4> QED
        BY <4>1, <3>1, <2>2, <2>3
    <3>2. CASE i = Len(free_block) + 1
      BY <3>2, <2>5, <1>8, PageCount
    <3> QED
      BY <3>1, <3>2, <2>3
  <2>7. /\ \A i \in DOMAIN free_block' : clean'[free_block'[i]] > 0
        /\ \A i \in 2 .. Len(free_block') : clean'[free_block'[i]] = PagesPerBlock
    BY <2>3, <2>5, <2>6
  <2>8. \A c \in Range(full_block') : clean'[c] = 0 /\ lpns'[c] # << >>
    <3>1. Range(full_block) \subseteq Blocks \ {b}
      BY <1>2, <1>4, RangeOfSeq
    <3> QED
      BY <3>1, <2>2, <1>1, <1>8
  <2>9. \A c \in Range(gc_block') : dirty'[c] = PagesPerBlock
    <3>1. Range(gc_block') = Range(gc_block) \ {b} /\ Range(gc_block) \subseteq Blocks
      BY <1>1, <1>2, <1>3, RangeOfSeq DEF b
    <3> QED
      BY <3>1, <2>2, <1>8
  <2> QED
    BY <2>1, <2>7, <2>8, <2>9, Zenon DEF PageAccounting
<1>12. MappingConsistent'
  <2>1. ASSUME NEW l \in Lpns
        PROVE  IF block[l] # NoBlock
               THEN /\ ppn[l] >= block[l] * PagesPerBlock
                    /\ ppn[l] < (block[l] + 1) * PagesPerBlock - clean'[block[l]]
               ELSE ppn[l] = TotalPages
    <3>1. CASE block[l] = NoBlock
      BY <3>1 DEF BlockInv, MappingConsistent, IsMapped
    <3>2. CASE block[l] # NoBlock
      <4>1. block[l] \in Blocks \ {b}
        BY <3>2, <1>7 DEF BlockInv, TypeBlocks
      <4>2. clean'[block[l]] = clean[block[l]]
        BY <4>1, <1>8
      <4> QED
        BY <3>2, <4>2 DEF BlockInv, MappingConsistent, IsMapped
    <3> QED
      BY <3>1, <3>2
  <2>2. /\ \A c \in Blocks : IsInjective(lpns[c])
        /\ \A c \in Blocks : Range(lpns[c]) = {l \in Lpns : block[l] = c}
    BY DEF BlockInv, MappingConsistent
  <2> QED
    BY <2>1, <2>2, <1>1, <1>8, Zenon DEF MappingConsistent, IsMapped
<1>13. MappingInjective'
  BY <1>1 DEF BlockInv, MappingInjective, IsMapped
<1> QED
  BY <1>7, <1>9, <1>10, <1>11, <1>12, <1>13 DEF BlockInv, b

-----------------------------------------------------------------------------
(* The steps of the specification.                                         *)

(* A page of the victim moves: the rest of its list is what is left to do, *)
(* and with the last page the block joins those that wait for the erase.   *)
LEMMA MoveWriteKeepsMove ==
  ASSUME BlockInv, BlockInv', MoveConsistent, MoveWrite, todo \in Seq(Lpns)
  PROVE  MoveConsistent'
<1> DEFINE l == Head(todo)
<1>1. /\ pc = "rewrite" /\ pc' = "move" /\ todo # << >> /\ todo' = Tail(todo)
      /\ writing' = writing /\ WriteWithoutGC(l)
  BY DEF MoveWrite, MoveConsistent
<1>2. PICK b \in Range(full_block) : lpns[b] = todo
  BY <1>1 DEF MoveConsistent
<1>3. /\ b \in Blocks /\ IsInjective(lpns[b]) /\ lpns[b] \in Seq(Lpns)
      /\ Range(lpns[b]) = {k \in Lpns : block[k] = b} /\ b \notin Range(free_block)
  <2>1. Range(full_block) \subseteq Blocks
    BY RangeOfSeq DEF BlockInv, TypeBlocks
  <2> QED
    BY <1>2, <2>1 DEF BlockInv, TypeBlocks, MappingConsistent, Partition
<1>4. l \in Range(todo) /\ IsInjective(todo)
  BY <1>1, <1>2, <1>3, TailFacts
<1>5. l \in Lpns /\ block[l] = b
  BY <1>2, <1>3, <1>4
<1>6. RemoveFirst(todo, l) = Tail(todo)
  BY <1>4, RemoveFirstFacts
<1>7. LpnsTrimmed(l)[b] = Tail(todo)
  BY <1>2, <1>3, <1>5, <1>6, TrimmedFacts
<1>8. /\ lpns' = [LpnsTrimmed(l) EXCEPT ![Head(free_block)] = Append(@, l)]
      /\ free_block # << >>
      /\ gc_block' = GcTrimmed(l)
      /\ full_block' = IF Fills THEN Append(FullTrimmed(l), Head(free_block))
                                ELSE FullTrimmed(l)
  BY <1>1 DEF WriteWithoutGC
<1>9. Head(free_block) \in Blocks /\ Head(free_block) \in Range(free_block)
  BY <1>8, HeadOfFree
<1>10. lpns'[b] = todo'
  BY <1>1, <1>3, <1>5, <1>7, <1>8, <1>9, TrimmedFacts
<1>11. Range(FullTrimmed(l)) \subseteq Range(full_block')
  <2>1. FullTrimmed(l) \in Seq(Blocks)
    BY <1>5, ListsTrimmedFacts
  <2>2. Range(Append(FullTrimmed(l), Head(free_block))) = Range(FullTrimmed(l)) \cup {Head(free_block)}
    BY <1>9, <2>1, AppendFacts
  <2> QED
    BY <1>8, <2>2
<1>12. CASE todo' # << >>
  <2>1. b \notin Range(GcTrimmed(l))
    <3>1. SUFFICES ASSUME b \in Range(GcTrimmed(l)) PROVE FALSE
      OBVIOUS
    <3>2. DirtyTrimmed(l)[b] = PagesPerBlock
      BY <3>1, <1>5, ListsTrimmedFacts
    <3>3. clean[b] + DirtyTrimmed(l)[b] + Len(LpnsTrimmed(l)[b]) = PagesPerBlock
      BY <1>3, <1>5, TrimmedFacts
    <3>4. clean[b] \in Nat
      BY <1>3 DEF BlockInv, TypeBlocks, Counter
    <3>5. Tail(todo) \in Seq(Lpns) /\ Len(Tail(todo)) # 0 /\ Len(Tail(todo)) \in Nat
      BY <1>1, <1>12, <1>4, TailFacts, EmptySeq, LenProperties
    <3>6. \A c, n, p \in Nat : c + p + n = p => n = 0
      OBVIOUS
    <3>7. clean[b] + PagesPerBlock + Len(Tail(todo)) = PagesPerBlock
      BY <3>2, <3>3, <1>7
    <3> QED
      BY <3>4, <3>5, <3>6, <3>7, PageCount
  <2>2. b \in Range(FullTrimmed(l))
    BY <2>1, <1>3, <1>5, ListsTrimmedFacts
  <2> QED
    BY <2>2, <1>1, <1>10, <1>11, <1>12 DEF MoveConsistent
<1>13. CASE todo' = << >>
  <2>1. b \notin Range(FullTrimmed(l))
    BY <1>1, <1>5, <1>7, <1>13, ListsTrimmedFacts
  <2>2. b \in Range(GcTrimmed(l))
    BY <2>1, <1>3, <1>5, ListsTrimmedFacts
  <2>3. gc_block' # << >>
    BY <2>2, <1>8 DEF Range
  <2> QED
    BY <2>3, <1>1, <1>13 DEF MoveConsistent
<1> QED
  BY <1>12, <1>13

(* The lists, the table and the counters, with the stage of the operation. *)
StateInv == BlockInv /\ CacheInv /\ TypeCall /\ MoveConsistent

LEMMA InitState == Init => StateInv
<1> SUFFICES ASSUME Init PROVE StateInv
  OBVIOUS
<1>1. /\ lpns = [b \in Blocks |-> << >>] /\ clean = [b \in Blocks |-> PagesPerBlock]
      /\ dirty = [b \in Blocks |-> 0]
      /\ free_block = [i \in 1 .. NumberOfBlocks |-> i - 1]
      /\ gc_block = << >> /\ full_block = << >>
      /\ block = [l \in Lpns |-> NoBlock] /\ ppn = [l \in Lpns |-> TotalPages]
      /\ cached = {} /\ unsaved = {} /\ dftl_cache = << >>
      /\ pc = "idle" /\ writing = NoLpn /\ todo = << >>
  BY DEF Init
<1>2. NumberOfBlocks \in Nat
  BY ConfigAssumption
<1>3. /\ free_block \in Seq(Blocks) /\ Len(free_block) = NumberOfBlocks
      /\ DOMAIN free_block = 1 .. NumberOfBlocks
  BY <1>1, <1>2 DEF Blocks
<1>4. Range(<< >>) = {} /\ IsInjective(<< >>) /\ Len(<< >>) = 0
  BY DEF Range, IsInjective
<1>5. PagesPerBlock \in Counter /\ 0 \in Counter
  BY PageCount DEF Counter
<1>6. TypeBlocks
  <2>1. TotalPages \in 0 .. NumberOfBlocks * PagesPerBlock
    BY ConfigFacts
  <2> QED
    BY <2>1, <1>1, <1>3, <1>5 DEF TypeBlocks
<1>7. Partition
  <2>1. IsInjective(free_block)
    BY <1>1, <1>2 DEF IsInjective
  <2>2. Range(free_block) = Blocks
    <3>1. \A b \in Blocks : b + 1 \in 1 .. NumberOfBlocks /\ free_block[b + 1] = b
      BY <1>1, <1>2 DEF Blocks
    <3>2. \A i \in 1 .. NumberOfBlocks : free_block[i] \in Blocks
      BY <1>1, <1>2 DEF Blocks
    <3> QED
      BY <3>1, <3>2, <1>3 DEF Range
  <2> QED
    BY <2>1, <2>2, <1>1, <1>4, Zenon DEF Partition
<1>8. PageAccounting
  <2>1. \A b \in Blocks : clean[b] = PagesPerBlock /\ dirty[b] = 0 /\ Len(lpns[b]) = 0
    BY <1>1, <1>4
  <2>2. \A i \in 1 .. NumberOfBlocks : free_block[i] \in Blocks
    BY <1>1, <1>2 DEF Blocks
  <2> QED
    BY <2>1, <2>2, <1>1, <1>2, <1>3, <1>4, PageCount DEF PageAccounting
<1>9. MappingConsistent
  <2>1. \A b \in Blocks : {l \in Lpns : block[l] = b} = {}
    BY <1>1, ConfigFacts
  <2> QED
    BY <2>1, <1>1, <1>4 DEF MappingConsistent, IsMapped
<1>10. MappingInjective
  BY <1>1 DEF MappingInjective, IsMapped
<1>11. CacheInv
  BY <1>1, <1>4, ConfigFacts DEF CacheInv, TypeCache, CacheConsistent
<1>12. TypeCall /\ MoveConsistent
  BY <1>1 DEF TypeCall, MoveConsistent
<1> QED
  BY <1>6, <1>7, <1>8, <1>9, <1>10, <1>11, <1>12 DEF StateInv, BlockInv

(* A step that leaves the blocks and the table alone.                      *)
LEMMA BlockUnchanged ==
  ASSUME BlockInv, UNCHANGED <<blockVars, tableVars>>
  PROVE  BlockInv'
<1>1. /\ lpns' = lpns /\ clean' = clean /\ dirty' = dirty /\ free_block' = free_block
      /\ gc_block' = gc_block /\ full_block' = full_block
      /\ block' = block /\ ppn' = ppn
  BY DEF blockVars, tableVars
<1> QED
  BY <1>1 DEF BlockInv, TypeBlocks, Partition, PageAccounting, MappingConsistent,
              MappingInjective, IsMapped

LEMMA CacheUnchanged ==
  ASSUME CacheInv, UNCHANGED cacheVars
  PROVE  CacheInv'
  BY DEF cacheVars, CacheInv, TypeCache, CacheConsistent

LEMMA NextState == StateInv /\ [Next]_vars => StateInv'
<1> SUFFICES ASSUME StateInv, [Next]_vars PROVE StateInv'
  OBVIOUS
<1>0. BlockInv /\ CacheInv /\ TypeCall /\ MoveConsistent
  BY DEF StateInv
<1>1. ASSUME NEW l \in Lpns, Read(l) PROVE StateInv'
  <2>1. RealRead(l) /\ UNCHANGED <<blockVars, tableVars, callVars>>
    BY <1>1 DEF Read
  <2>2. BlockInv' /\ CacheInv'
    BY <1>0, <2>1, RealReadInv, BlockUnchanged
  <2>3. TypeCall' /\ MoveConsistent'
    BY <1>0, <2>1 DEF TypeCall, MoveConsistent, callVars, blockVars
  <2> QED
    BY <2>2, <2>3 DEF StateInv
<1>2. ASSUME NEW l \in Lpns, Trim(l) PROVE StateInv'
  <2>1. TrimPage(l) /\ TrimEntry(l) /\ pc = "idle" /\ UNCHANGED callVars
    BY <1>2 DEF Trim, TrimPage
  <2>2. BlockInv' /\ CacheInv'
    BY <1>0, <2>1, TrimPageInv, TrimEntryInv
  <2>3. TypeCall' /\ MoveConsistent'
    BY <1>0, <2>1 DEF TypeCall, MoveConsistent, callVars
  <2> QED
    BY <2>2, <2>3 DEF StateInv
<1>3. ASSUME NEW l \in Lpns, Cache(l) PROVE StateInv'
  <2>1. CacheEntry(l) /\ UNCHANGED <<blockVars, tableVars, callVars>>
    BY <1>3 DEF Cache
  <2>2. BlockInv' /\ CacheInv'
    BY <1>0, <2>1, CacheEntryInv, BlockUnchanged
  <2>3. TypeCall' /\ MoveConsistent'
    BY <1>0, <2>1 DEF TypeCall, MoveConsistent, callVars, blockVars
  <2> QED
    BY <2>2, <2>3 DEF StateInv
<1>4. ASSUME NEW l \in Lpns, Write(l) PROVE StateInv'
  <2>1. /\ pc = "idle" /\ pc' \in {"force_gc", "write"} /\ writing' = l /\ todo' = todo
        /\ UNCHANGED <<blockVars, tableVars>> /\ UNCHANGED cacheVars
    BY <1>4 DEF Write, IsLow
  <2>2. BlockInv' /\ CacheInv'
    BY <1>0, <2>1, BlockUnchanged, CacheUnchanged
  <2>3. TypeCall' /\ MoveConsistent'
    BY <1>0, <2>1, ConfigFacts DEF TypeCall, MoveConsistent
  <2> QED
    BY <2>2, <2>3 DEF StateInv
<1>5. ASSUME WriteData PROVE StateInv'
  <2>1. /\ pc = "write" /\ pc' = "idle" /\ WriteWithoutGC(writing) /\ writing' = NoLpn
        /\ todo' = todo
    BY <1>5 DEF WriteData
  <2>2. writing \in Lpns
    BY <1>0, <2>1 DEF TypeCall, MoveConsistent
  <2>3. TrimEntry(writing)
    BY <2>1 DEF WriteWithoutGC
  <2>4. BlockInv' /\ CacheInv'
    BY <1>0, <2>1, <2>2, <2>3, WriteInv, TrimEntryInv
  <2>5. TypeCall' /\ MoveConsistent'
    BY <1>0, <2>1 DEF TypeCall, MoveConsistent
  <2> QED
    BY <2>4, <2>5 DEF StateInv
<1>6. ASSUME Gc PROVE StateInv'
  <2>1. /\ pc = "idle" /\ pc' = "force_gc" /\ writing' = writing /\ todo' = todo
        /\ UNCHANGED <<blockVars, tableVars>> /\ UNCHANGED cacheVars
    BY <1>6 DEF Gc
  <2>2. BlockInv' /\ CacheInv'
    BY <1>0, <2>1, BlockUnchanged, CacheUnchanged
  <2>3. TypeCall' /\ MoveConsistent'
    BY <1>0, <2>1 DEF TypeCall, MoveConsistent
  <2> QED
    BY <2>2, <2>3 DEF StateInv
<1>7. ASSUME ForceGc PROVE StateInv'
  <2>1. /\ pc = "force_gc" /\ writing' = writing
        /\ UNCHANGED <<blockVars, tableVars>> /\ UNCHANGED cacheVars
        /\ lpns' = lpns /\ gc_block' = gc_block /\ full_block' = full_block
    BY <1>7 DEF ForceGc, blockVars
  <2>2. BlockInv' /\ CacheInv'
    BY <1>0, <2>1, BlockUnchanged, CacheUnchanged
  <2>3. CASE gc_block = << >>
    <3>1. PICK i \in DOMAIN full_block : todo' = lpns[full_block[i]]
      BY <1>7, <2>3 DEF ForceGc
    <3>2. pc' = "move"
      BY <1>7, <2>3 DEF ForceGc
    <3>3. /\ full_block[i] \in Range(full_block) /\ lpns[full_block[i]] # << >>
          /\ lpns[full_block[i]] \in Seq(Lpns)
      <4>1. full_block[i] \in Range(full_block) /\ Range(full_block) \subseteq Blocks
        BY <1>0, RangeOfSeq DEF Range, BlockInv, TypeBlocks
      <4> QED
        BY <4>1, <1>0 DEF BlockInv, TypeBlocks, PageAccounting
    <3>4. TypeCall' /\ MoveConsistent'
      BY <1>0, <2>1, <3>1, <3>2, <3>3 DEF TypeCall, MoveConsistent
    <3> QED
      BY <2>2, <3>4 DEF StateInv
  <2>4. CASE gc_block # << >>
    <3>1. pc' = "reset" /\ todo' = todo
      BY <1>7, <2>4 DEF ForceGc
    <3>2. TypeCall' /\ MoveConsistent'
      BY <1>0, <2>1, <2>4, <3>1 DEF TypeCall, MoveConsistent
    <3> QED
      BY <2>2, <3>2 DEF StateInv
  <2> QED
    BY <2>3, <2>4
<1>8. ASSUME MoveRead PROVE StateInv'
  <2>1. /\ pc = "move" /\ pc' = "rewrite" /\ todo # << >> /\ RealRead(Head(todo))
        /\ writing' = writing /\ todo' = todo /\ UNCHANGED <<blockVars, tableVars>>
        /\ lpns' = lpns /\ full_block' = full_block
    BY <1>8 DEF MoveRead, blockVars
  <2>2. Head(todo) \in Lpns
    BY <1>0, <2>1, HeadTailProperties DEF TypeCall
  <2>3. BlockInv' /\ CacheInv'
    BY <1>0, <2>1, <2>2, RealReadInv, BlockUnchanged
  <2>4. TypeCall' /\ MoveConsistent'
    BY <1>0, <2>1 DEF TypeCall, MoveConsistent
  <2> QED
    BY <2>3, <2>4 DEF StateInv
<1>9. ASSUME MoveWrite PROVE StateInv'
  <2>1. /\ pc = "rewrite" /\ pc' = "move" /\ WriteWithoutGC(Head(todo)) /\ todo' = Tail(todo)
        /\ writing' = writing /\ todo # << >> /\ TrimEntry(Head(todo))
    BY <1>0, <1>9 DEF MoveWrite, MoveConsistent, WriteWithoutGC
  <2>2. Head(todo) \in Lpns /\ Tail(todo) \in Seq(Lpns)
    BY <1>0, <2>1, HeadTailProperties DEF TypeCall
  <2>3. BlockInv' /\ CacheInv'
    BY <1>0, <2>1, <2>2, WriteInv, TrimEntryInv
  <2>4. TypeCall'
    BY <1>0, <2>1, <2>2 DEF TypeCall
  <2>5. MoveConsistent'
    BY <1>0, <1>9, <2>3, MoveWriteKeepsMove DEF TypeCall
  <2> QED
    BY <2>3, <2>4, <2>5 DEF StateInv
<1>10. ASSUME MoveDone PROVE StateInv'
  <2>1. /\ pc = "move" /\ pc' = "reset" /\ todo = << >> /\ writing' = writing /\ todo' = todo
        /\ UNCHANGED <<blockVars, tableVars>> /\ UNCHANGED cacheVars
        /\ gc_block' = gc_block
    BY <1>10 DEF MoveDone, blockVars
  <2>2. BlockInv' /\ CacheInv'
    BY <1>0, <2>1, BlockUnchanged, CacheUnchanged
  <2>3. TypeCall' /\ MoveConsistent'
    BY <1>0, <2>1 DEF TypeCall, MoveConsistent
  <2> QED
    BY <2>2, <2>3 DEF StateInv
<1>11. ASSUME EraseBlock PROVE StateInv'
  <2>1. /\ pc = "reset" /\ pc' = (IF writing = NoLpn THEN "idle" ELSE "write")
        /\ writing' = writing /\ todo' = todo /\ UNCHANGED cacheVars
    BY <1>11 DEF EraseBlock
  <2>2. BlockInv' /\ CacheInv'
    BY <1>0, <1>11, <2>1, EraseInv, CacheUnchanged
  <2>3. TypeCall' /\ MoveConsistent'
    BY <1>0, <2>1 DEF TypeCall, MoveConsistent
  <2> QED
    BY <2>2, <2>3 DEF StateInv
<1>12. ASSUME UNCHANGED vars PROVE StateInv'
  <2>1. UNCHANGED <<blockVars, tableVars>> /\ UNCHANGED cacheVars /\ UNCHANGED callVars
        /\ lpns' = lpns /\ gc_block' = gc_block /\ full_block' = full_block
    BY <1>12 DEF vars, blockVars
  <2>2. BlockInv' /\ CacheInv'
    BY <1>0, <2>1, BlockUnchanged, CacheUnchanged
  <2>3. TypeCall' /\ MoveConsistent'
    BY <1>0, <2>1 DEF TypeCall, MoveConsistent, callVars
  <2> QED
    BY <2>2, <2>3 DEF StateInv
<1> QED
  BY <1>1, <1>2, <1>3, <1>4, <1>5, <1>6, <1>7, <1>8, <1>9, <1>10, <1>11, <1>12
  DEF Next, ForceGcStep

THEOREM StateInvariant == Spec => []StateInv
<1>1. Init => StateInv
  BY InitState
<1>2. StateInv /\ [Next]_vars => StateInv'
  BY NextState
<1> QED
  BY <1>1, <1>2, PTL DEF Spec

(* Type correctness.                                                       *)
THEOREM TypeCorrect == Spec => []TypeOK
<1>1. StateInv => TypeOK
  BY TypeSplit DEF StateInv, BlockInv, CacheInv
<1> QED
  BY <1>1, StateInvariant, PTL

(* No block is ever lost or listed twice.                                  *)
THEOREM BlocksSound == Spec => []Partition
<1>1. StateInv => Partition
  BY DEF StateInv, BlockInv
<1> QED
  BY <1>1, StateInvariant, PTL

(* Every page is clean, invalid or live, as the list of its block says.    *)
THEOREM PagesAccounted == Spec => []PageAccounting
<1>1. StateInv => PageAccounting
  BY DEF StateInv, BlockInv
<1> QED
  BY <1>1, StateInvariant, PTL

(* The blocks' lists and the table agree.                                  *)
THEOREM MappingSound == Spec => []MappingConsistent
<1>1. StateInv => MappingConsistent
  BY DEF StateInv, BlockInv
<1> QED
  BY <1>1, StateInvariant, PTL

(* No physical page is the page of two logical ones.                       *)
THEOREM PagesUnshared == Spec => []MappingInjective
<1>1. StateInv => MappingInjective
  BY DEF StateInv, BlockInv
<1> QED
  BY <1>1, StateInvariant, PTL

(* The cache list is bounded, without duplicates, and lists cached entries.*)
THEOREM CacheSound == Spec => []CacheConsistent
<1>1. StateInv => CacheConsistent
  BY DEF StateInv, CacheInv
<1> QED
  BY <1>1, StateInvariant, PTL

(* Collection walks exactly the live pages of a full block.                *)
THEOREM MoveSound == Spec => []MoveConsistent
<1>1. StateInv => MoveConsistent
  BY DEF StateInv
<1> QED
  BY <1>1, StateInvariant, PTL

-----------------------------------------------------------------------------
(* What a step may never do.                                               *)

(* Erasing a block destroys no mapped page.                                *)
THEOREM EraseSafe == Spec => EraseOnlyDead
<1> DEFINE Dead == \A b \in Blocks : (clean'[b] > clean[b] => \A l \in Lpns : block[l] # b)
<1>1. StateInv /\ [Next]_vars => [Dead]_vars
  <2> SUFFICES ASSUME StateInv, [Next]_vars PROVE Dead
    OBVIOUS
  <2>0. /\ clean \in [Blocks -> Nat] /\ BlockInv
    BY DEF StateInv, BlockInv, TypeBlocks, Counter
  <2>a. \A n \in Nat : ~(n > n) /\ ~(n - 1 > n)
    OBVIOUS
  <2>1. CASE clean' = clean
    BY <2>0, <2>1, <2>a
  <2>2. ASSUME NEW l \in Lpns, WriteWithoutGC(l) PROVE Dead
    <3>1. /\ free_block # << >>
          /\ clean' = [clean EXCEPT ![Head(free_block)] = @ - 1]
      BY <2>2 DEF WriteWithoutGC
    <3>2. ASSUME NEW b \in Blocks PROVE ~(clean'[b] > clean[b])
      BY <3>1, <2>0, <2>a
    <3> QED
      BY <3>2
  <2>3. CASE EraseBlock
    <3>1. clean' = [clean EXCEPT ![Head(gc_block)] = PagesPerBlock]
      BY <2>3 DEF EraseBlock
    <3>2. \A l \in Lpns : block[l] # Head(gc_block)
      BY <2>0, <2>3, EraseInv
    <3>3. ASSUME NEW b \in Blocks, b # Head(gc_block) PROVE ~(clean'[b] > clean[b])
      BY <3>1, <3>3, <2>0, <2>a
    <3> QED
      BY <3>2, <3>3
  <2>4. \/ clean' = clean
        \/ \E l \in Lpns : WriteWithoutGC(l)
        \/ EraseBlock
    <3>1. writing \in Lpns \cup {NoLpn} /\ (pc = "write" => writing # NoLpn)
      BY DEF StateInv, TypeCall, MoveConsistent
    <3>2. MoveWrite => Head(todo) \in Lpns
      BY HeadTailProperties DEF MoveWrite, StateInv, TypeCall, MoveConsistent
    <3> QED
      BY <3>1, <3>2
      DEF Next, ForceGcStep, Read, Trim, TrimPage, Cache, Write, WriteData, Gc, ForceGc,
          MoveRead, MoveWrite, MoveDone, blockVars, vars
  <2> QED
    BY <2>1, <2>2, <2>3, <2>4
<1> QED
  BY <1>1, StateInvariant, PTL DEF Spec, EraseOnlyDead

(* Collection neither unmaps a logical page nor maps one.                  *)
THEOREM CollectionSafe == Spec => CollectionKeepsData
<1> DEFINE Keeps == (pc \in {"force_gc", "move", "rewrite", "reset"}) =>
              {l \in Lpns : block'[l] # NoBlock} = {l \in Lpns : IsMapped(l)}
<1>1. StateInv /\ [Next]_vars => [Keeps]_vars
  <2> SUFFICES ASSUME StateInv, [Next]_vars, pc \in {"force_gc", "move", "rewrite", "reset"}
               PROVE  {l \in Lpns : block'[l] # NoBlock} = {l \in Lpns : IsMapped(l)}
    OBVIOUS
  <2>1. CASE block' = block
    BY <2>1 DEF IsMapped
  <2>2. CASE MoveWrite
    <3>1. /\ todo # << >> /\ WriteWithoutGC(Head(todo)) /\ todo \in Seq(Lpns)
          /\ \E b \in Range(full_block) : lpns[b] = todo
      BY <2>2 DEF MoveWrite, StateInv, MoveConsistent, TypeCall
    <3>2. PICK b \in Range(full_block) : lpns[b] = todo
      BY <3>1
    <3>3. b \in Blocks /\ Range(lpns[b]) = {l \in Lpns : block[l] = b}
      <4>1. Range(full_block) \subseteq Blocks
        BY RangeOfSeq DEF StateInv, BlockInv, TypeBlocks
      <4> QED
        BY <4>1, <3>2 DEF StateInv, BlockInv, MappingConsistent
    <3>4. Head(todo) \in Range(todo)
      BY <3>1, EmptySeq DEF Range
    <3>5. block[Head(todo)] = b /\ Head(todo) \in Lpns
      BY <3>2, <3>3, <3>4
    <3>6. /\ Head(free_block) \in Blocks
          /\ block' = [block EXCEPT ![Head(todo)] = Head(free_block)]
          /\ block \in [Lpns -> Blocks \cup {NoBlock}]
      BY <3>1, HeadOfFree DEF WriteWithoutGC, StateInv, BlockInv, TypeBlocks
    <3> QED
      BY <3>3, <3>5, <3>6, ConfigFacts DEF IsMapped
  <2>3. block' = block \/ MoveWrite
    BY DEF Next, ForceGcStep, Read, Trim, Cache, Write, WriteData, Gc, ForceGc,
           MoveRead, MoveDone, EraseBlock, tableVars, vars
  <2> QED
    BY <2>1, <2>2, <2>3
<1> QED
  BY <1>1, StateInvariant, PTL DEF Spec, CollectionKeepsData

-----------------------------------------------------------------------------
(* There is always a free block to write to.                               *)

(* If all blocks but one are full and none waits for the erase, some full  *)
(* block holds an invalid page: full blocks of live pages only would hold  *)
(* more logical pages than there are.                                      *)
LEMMA SomeInvalidPage ==
  ASSUME BlockInv, ReserveBlocks >= 2, gc_block = << >>, Len(free_block) = 1
  PROVE  \E b \in Range(full_block) : dirty[b] > 0
<1> SUFFICES ASSUME \A b \in Range(full_block) : ~(dirty[b] > 0)
             PROVE  FALSE
  OBVIOUS
<1> DEFINE Full  == Range(full_block)
           Pages == 1 .. PagesPerBlock
           f     == [q \in Full \X Pages |-> lpns[q[1]][q[2]]]
<1>1. /\ NumberOfBlocks \in Nat /\ ReserveBlocks \in Nat /\ ReserveBlocks < NumberOfBlocks
      /\ PagesPerBlock \in Nat /\ PagesPerBlock >= 1
  BY ConfigAssumption
<1>2. /\ free_block \in Seq(Blocks) /\ lpns \in [Blocks -> Seq(Lpns)]
      /\ dirty \in [Blocks -> Nat] /\ Full \subseteq Blocks
      /\ \A l \in Lpns : \A b, c \in Blocks : block[l] = b /\ block[l] = c => b = c
  BY RangeOfSeq DEF BlockInv, TypeBlocks, Counter
<1>3. Full = Blocks \ {free_block[1]} /\ free_block[1] \in Blocks
  <2>1. Range(free_block) = {free_block[1]} /\ free_block[1] \in Blocks
    <3>1. DOMAIN free_block = 1 .. 1
      BY <1>2, LenProperties
    <3>2. 1 .. 1 = {1}
      OBVIOUS
    <3>3. free_block[1] \in Blocks
      BY <1>2, <3>1, <3>2, ElementOfSeq
    <3> QED
      BY <3>1, <3>2, <3>3 DEF Range
  <2>2. Range(gc_block) = {}
    BY DEF Range
  <2> QED
    BY <2>1, <2>2 DEF BlockInv, Partition
<1>4. /\ IsFiniteSet(Full) /\ Cardinality(Full) = NumberOfBlocks - 1
  <2>1. IsFiniteSet(Blocks) /\ Cardinality(Blocks) = NumberOfBlocks
    BY <1>1, FS_Interval DEF Blocks
  <2> QED
    BY <2>1, <1>3, FS_RemoveElement
<1>5. IsFiniteSet(Pages) /\ Cardinality(Pages) = PagesPerBlock
  BY <1>1, FS_Interval
<1>6. Cardinality(Full \X Pages) = (NumberOfBlocks - 1) * PagesPerBlock
  BY <1>4, <1>5, FS_Product
<1>7. ASSUME NEW b \in Full
      PROVE  /\ lpns[b] \in Seq(Lpns) /\ Len(lpns[b]) = PagesPerBlock
             /\ IsInjective(lpns[b]) /\ Range(lpns[b]) = {l \in Lpns : block[l] = b}
  <2>1. b \in Blocks /\ dirty[b] = 0
    BY <1>2
  <2>2. clean[b] = 0 /\ clean[b] + dirty[b] + Len(lpns[b]) = PagesPerBlock
    BY <2>1 DEF BlockInv, PageAccounting
  <2>3. lpns[b] \in Seq(Lpns)
    BY <2>1, <1>2
  <2>4. Len(lpns[b]) = PagesPerBlock
    BY <2>1, <2>2, <2>3, LenProperties, <1>1
  <2> QED
    BY <2>1, <2>3, <2>4 DEF BlockInv, MappingConsistent
<1>8. ASSUME NEW b \in Full, NEW i \in Pages
      PROVE  lpns[b][i] \in Lpns /\ block[lpns[b][i]] = b
  <2>1. i \in DOMAIN lpns[b]
    BY <1>7, LenProperties
  <2>2. lpns[b][i] \in Range(lpns[b])
    BY <2>1 DEF Range
  <2> QED
    BY <2>2, <1>7
<1>9. f \in Injection(Full \X Pages, Lpns)
  <2>1. f \in [Full \X Pages -> Lpns]
    BY <1>8
  <2>2. ASSUME NEW q \in Full \X Pages, NEW r \in Full \X Pages, f[q] = f[r]
        PROVE  q = r
    <3>1. /\ q[1] \in Full /\ q[2] \in Pages /\ r[1] \in Full /\ r[2] \in Pages
          /\ lpns[q[1]][q[2]] = lpns[r[1]][r[2]]
          /\ q = <<q[1], q[2]>> /\ r = <<r[1], r[2]>>
      BY <2>2
    <3>2. q[1] = r[1]
      BY <3>1, <1>8
    <3>3. q[2] = r[2]
      <4>1. q[2] \in DOMAIN lpns[q[1]] /\ r[2] \in DOMAIN lpns[q[1]]
        BY <3>1, <1>7, LenProperties
      <4> QED
        BY <4>1, <3>1, <3>2, <1>7 DEF IsInjective
    <3> QED
      BY <3>1, <3>2, <3>3
  <2> HIDE DEF f
  <2> QED
    BY <2>1, <2>2 DEF Injection, IsInjective
<1>10. IsFiniteSet(Lpns) /\ Cardinality(Lpns) = TotalPages
  BY ConfigFacts, FS_Interval DEF Lpns
<1>11. (NumberOfBlocks - 1) * PagesPerBlock <= TotalPages
  BY <1>6, <1>9, <1>10, FS_Injection
<1>12. (NumberOfBlocks - 1) * PagesPerBlock > (NumberOfBlocks - ReserveBlocks) * PagesPerBlock
  <2>1. (NumberOfBlocks - 1) * PagesPerBlock =
          (NumberOfBlocks - ReserveBlocks) * PagesPerBlock + (ReserveBlocks - 1) * PagesPerBlock
    BY <1>1
  <2>2. \A r, p \in Nat : r >= 1 /\ p >= 1 => r * p >= 1
    OBVIOUS
  <2>3. (ReserveBlocks - 1) * PagesPerBlock >= 1
    BY <2>2, <1>1
  <2>4. \A m, n \in Nat : m * n \in Nat
    OBVIOUS
  <2>5. /\ (NumberOfBlocks - ReserveBlocks) * PagesPerBlock \in Nat
        /\ (ReserveBlocks - 1) * PagesPerBlock \in Nat
    BY <2>4, <1>1
  <2> QED
    BY <2>1, <2>3, <2>5
<1> QED
  <2>1. TotalPages \in Nat /\ TotalPages = (NumberOfBlocks - ReserveBlocks) * PagesPerBlock
    BY ConfigFacts DEF TotalPages
  <2>2. (NumberOfBlocks - 1) * PagesPerBlock \in Int
    BY <1>1
  <2> QED
    BY <2>1, <2>2, <1>11, <1>12

(* The number of clean pages, from the length of the free list.            *)
LEMMA FreeCount ==
  ASSUME BlockInv
  PROVE  /\ FreePages \in Nat /\ Len(free_block) \in Nat
         /\ FreePages >= 1 => free_block # << >>
         /\ Len(free_block) = 0 => FreePages = 0
         /\ Len(free_block) >= 2 => FreePages >= PagesPerBlock + 1
         /\ Len(free_block) >= 3 => FreePages >= PagesPerBlock + PagesPerBlock + 1
<1>1. free_block \in Seq(Blocks)
  BY DEF BlockInv, TypeBlocks
<1>2. Len(free_block) \in Nat /\ (free_block = << >> <=> Len(free_block) = 0)
  BY <1>1, EmptySeq, LenProperties
<1>3. free_block = << >> => FreePages = 0
  BY DEF FreePages
<1>4. ASSUME free_block # << >>
      PROVE  /\ FreePages \in Nat
             /\ Len(free_block) >= 2 => FreePages >= PagesPerBlock + 1
             /\ Len(free_block) >= 3 => FreePages >= PagesPerBlock + PagesPerBlock + 1
  <2>1. FreePages = clean[Head(free_block)] + (Len(free_block) - 1) * PagesPerBlock
    BY <1>4 DEF FreePages
  <2>2. clean[Head(free_block)] \in 1 .. PagesPerBlock
    BY <1>4, HeadOfFree
  <2>3. \A n, p \in Nat :
          /\ n >= 1 => (n - 1) * p \in Nat
          /\ n >= 2 => (n - 1) * p >= p
          /\ n >= 3 => (n - 1) * p >= p + p
    <3>1. \A n, p \in Nat : n >= 2 => (n - 1) * p = p + (n - 2) * p
      OBVIOUS
    <3>2. \A n, p \in Nat : n >= 3 => (n - 1) * p = p + p + (n - 3) * p
      OBVIOUS
    <3>3. \A m, p \in Nat : m * p \in Nat
      OBVIOUS
    <3>4. \A n \in Nat : /\ n >= 1 => n - 1 \in Nat
                         /\ n >= 2 => n - 2 \in Nat
                         /\ n >= 3 => n - 3 \in Nat
      OBVIOUS
    <3>5. \A n, p \in Nat : n >= 1 => (n - 1) * p \in Nat
      BY <3>3, <3>4
    <3>6. \A n, p \in Nat : n >= 2 => (n - 2) * p \in Nat
      BY <3>3, <3>4
    <3>7. \A n, p \in Nat : n >= 3 => (n - 3) * p \in Nat
      BY <3>3, <3>4
    <3> QED
      BY <3>1, <3>2, <3>5, <3>6, <3>7
  <2> DEFINE more == (Len(free_block) - 1) * PagesPerBlock
  <2>4. /\ more \in Nat
        /\ Len(free_block) >= 2 => more >= PagesPerBlock
        /\ Len(free_block) >= 3 => more >= PagesPerBlock + PagesPerBlock
    BY <2>3, <1>2, <1>4, PageCount
  <2> HIDE DEF more
  <2>5. FreePages = clean[Head(free_block)] + more
    BY <2>1 DEF more
  <2> QED
    BY <2>2, <2>4, <2>5, PageCount
<1> QED
  BY <1>2, <1>3, <1>4

(* Writing a page uses one clean page.                                     *)
LEMMA WriteSpace ==
  ASSUME BlockInv, NEW l \in Lpns, WriteWithoutGC(l)
  PROVE  FreePages' = FreePages - 1
<1> DEFINE b == Head(free_block)
           n == Len(free_block)
<1>1. /\ free_block # << >>
      /\ clean' = [clean EXCEPT ![b] = @ - 1]
      /\ free_block' = IF clean[b] - 1 <= 0 THEN Tail(free_block) ELSE free_block
  BY DEF WriteWithoutGC, Fills
<1>2. /\ free_block \in Seq(Blocks) /\ IsInjective(free_block)
      /\ clean \in [Blocks -> Counter]
      /\ \A i \in 2 .. n : clean[free_block[i]] = PagesPerBlock
  BY DEF BlockInv, TypeBlocks, Partition, PageAccounting
<1>3. b \in Blocks /\ clean[b] \in 1 .. PagesPerBlock
  BY <1>1, HeadOfFree
<1>4. /\ Tail(free_block) \in Seq(Blocks) /\ Len(Tail(free_block)) = n - 1
      /\ b = free_block[1] /\ b \notin Range(Tail(free_block))
      /\ \A i \in 1 .. Len(Tail(free_block)) : Tail(free_block)[i] = free_block[i + 1]
  BY <1>1, <1>2, TailFacts
<1>5. FreePages = clean[b] + (n - 1) * PagesPerBlock
  BY <1>1 DEF FreePages
<1>6. n \in Nat /\ n >= 1
  BY <1>1, <1>2, EmptySeq, LenProperties
<1>7. CASE clean[b] - 1 > 0
  <2>1. free_block' = free_block /\ clean'[b] = clean[b] - 1
    BY <1>7, <1>1, <1>2, <1>3, PageCount
  <2>2. FreePages' = clean'[b] + (n - 1) * PagesPerBlock
    BY <2>1, <1>1 DEF FreePages
  <2>3. \A c, p, m \in Nat : m >= 1 => (c - 1) + (m - 1) * p = (c + (m - 1) * p) - 1
    OBVIOUS
  <2> QED
    BY <1>3, <1>5, <1>6, <2>1, <2>2, <2>3, PageCount
<1>8. CASE clean[b] - 1 <= 0
  <2>1. free_block' = Tail(free_block) /\ clean[b] = 1
    BY <1>8, <1>1, <1>3, PageCount
  <2>2. CASE n = 1
    <3>1. free_block' = << >>
      BY <2>1, <2>2, <1>4, EmptySeq
    <3>2. FreePages' = 0
      BY <3>1 DEF FreePages
    <3>3. (n - 1) * PagesPerBlock = 0
      BY <2>2, PageCount
    <3> QED
      BY <1>5, <2>1, <3>2, <3>3
  <2>3. CASE n >= 2
    <3>1. /\ free_block' # << >> /\ Len(free_block') = n - 1
          /\ Head(free_block') = free_block[2]
      <4>0. \A m \in Nat : m >= 2 => m - 1 >= 1
        OBVIOUS
      <4>a. n - 1 >= 1
        BY <4>0, <2>3, <1>6
      <4>1. Len(Tail(free_block)) >= 1
        BY <4>a, <1>4, Zenon
      <4>2. Tail(free_block) # << >>
        <5>1. ASSUME Tail(free_block) = << >> PROVE FALSE
          <6>1. Len(Tail(free_block)) = 0
            BY <5>1, EmptySeq, Zenon
          <6>2. ~(0 >= 1)
            OBVIOUS
          <6> QED
            BY <4>1, <6>1, <6>2, Zenon
        <5> QED
          BY <5>1
      <4>3. Head(Tail(free_block)) = Tail(free_block)[1]
        BY <4>2, <1>4, HeadTailProperties
      <4>4. Tail(free_block)[1] = free_block[1 + 1]
        BY <4>1, <1>4, <1>6
      <4>5. 1 + 1 = 2
        OBVIOUS
      <4> QED
        BY <2>1, <4>2, <4>3, <4>4, <4>5, <1>4
    <3>2. free_block[2] \in Blocks /\ clean[free_block[2]] = PagesPerBlock /\ free_block[2] # b
      <4>1. 2 \in 1 .. n /\ 2 \in 2 .. n /\ 1 \in 1 .. n
        BY <2>3, <1>6
      <4>2. 2 \in DOMAIN free_block /\ 1 \in DOMAIN free_block
        BY <4>1, <1>2, LenProperties
      <4> QED
        BY <4>1, <4>2, <1>2, <1>4, ElementOfSeq DEF IsInjective
    <3>3. clean'[free_block[2]] = PagesPerBlock
      BY <3>2, <1>1, <1>2
    <3>4. FreePages' = PagesPerBlock + ((n - 1) - 1) * PagesPerBlock
      BY <3>1, <3>3 DEF FreePages
    <3>5. \A p, m \in Nat : m >= 2 => p + ((m - 1) - 1) * p = (1 + (m - 1) * p) - 1
      OBVIOUS
    <3>6. FreePages = 1 + (n - 1) * PagesPerBlock
      BY <1>5, <2>1, Zenon
    <3>7. PagesPerBlock + ((n - 1) - 1) * PagesPerBlock = (1 + (n - 1) * PagesPerBlock) - 1
      BY <1>6, <2>3, <3>5, PageCount, Zenon
    <3>8. FreePages' = (1 + (n - 1) * PagesPerBlock) - 1
      BY <3>4, <3>7, Zenon
    <3> QED
      BY <3>6, <3>8, Zenon
  <2>4. \A m \in Nat : m >= 1 => m = 1 \/ m >= 2
    OBVIOUS
  <2> QED
    BY <1>6, <2>2, <2>3, <2>4, Zenon
<1> QED
  BY <1>3, <1>7, <1>8, PageCount

(* Erasing a block frees its pages.                                        *)
LEMMA EraseSpace ==
  ASSUME BlockInv, EraseBlock
  PROVE  FreePages' = FreePages + PagesPerBlock
<1> DEFINE g == Head(gc_block)
           n == Len(free_block)
<1>1. /\ gc_block # << >>
      /\ clean' = [clean EXCEPT ![g] = PagesPerBlock]
      /\ free_block' = Append(free_block, g)
  BY DEF EraseBlock
<1>2. /\ free_block \in Seq(Blocks) /\ gc_block \in Seq(Blocks) /\ IsInjective(gc_block)
      /\ clean \in [Blocks -> Counter]
      /\ Range(free_block) \cap Range(gc_block) = {}
  BY DEF BlockInv, TypeBlocks, Partition
<1>3. g \in Blocks /\ g \in Range(gc_block) /\ n \in Nat
  BY <1>1, <1>2, TailFacts, LenProperties
<1>4. /\ Append(free_block, g) \in Seq(Blocks) /\ Len(Append(free_block, g)) = n + 1
      /\ \A i \in 1 .. n : Append(free_block, g)[i] = free_block[i]
      /\ Append(free_block, g)[n + 1] = g
  BY <1>2, <1>3, AppendFacts
<1>5. /\ free_block' # << >> /\ Head(free_block') = Append(free_block, g)[1]
  BY <1>1, <1>3, <1>4, EmptySeq, HeadTailProperties
<1>6. FreePages' = clean'[Head(free_block')] + ((n + 1) - 1) * PagesPerBlock
  BY <1>1, <1>4, <1>5 DEF FreePages
<1>7. CASE n = 0
  <2>1. free_block = << >>
    BY <1>2, <1>7, EmptySeq
  <2>2. FreePages = 0
    BY <2>1 DEF FreePages
  <2>3. Head(free_block') = g
    BY <1>4, <1>5, <1>7
  <2>4. clean'[Head(free_block')] = PagesPerBlock
    BY <1>1, <1>2, <1>3, <2>3
  <2>5. ((n + 1) - 1) * PagesPerBlock = 0
    BY <1>7, PageCount
  <2> QED
    BY <1>6, <2>2, <2>4, <2>5, PageCount
<1>8. CASE n >= 1
  <2>1. free_block # << >>
    BY <1>8, EmptySeq
  <2>2. Head(free_block) \in Blocks /\ Head(free_block) \in Range(free_block)
        /\ clean[Head(free_block)] \in 1 .. PagesPerBlock
    BY <2>1, HeadOfFree
  <2>3. Head(free_block') = Head(free_block)
    BY <1>4, <1>5, <1>8, <1>2, <1>3, <2>1, HeadTailProperties
  <2>4. clean'[Head(free_block)] = clean[Head(free_block)]
    BY <1>1, <1>2, <1>3, <2>2
  <2>5. FreePages = clean[Head(free_block)] + (n - 1) * PagesPerBlock
    BY <2>1 DEF FreePages
  <2>6. \A c, p, m \in Nat : m >= 1 => c + ((m + 1) - 1) * p = (c + (m - 1) * p) + p
    OBVIOUS
  <2> QED
    BY <1>3, <1>6, <1>8, <2>2, <2>3, <2>4, <2>5, <2>6, PageCount
<1> QED
  BY <1>3, <1>7, <1>8

(* A victim exists when no block waits and not all of them are free.       *)
LEMMA FullExists ==
  ASSUME BlockInv, gc_block = << >>, Len(free_block) < NumberOfBlocks
  PROVE  full_block # << >>
<1> SUFFICES ASSUME full_block = << >> PROVE FALSE
  OBVIOUS
<1> DEFINE n == Len(free_block)
<1>1. free_block \in Seq(Blocks) /\ Range(free_block) = Blocks
  BY DEF BlockInv, TypeBlocks, Partition, Range
<1>2. free_block \in [1 .. n -> Blocks] /\ n \in Nat
  BY <1>1, LenProperties
<1>3. free_block \in Surjection(1 .. n, Blocks)
  <2>1. DOMAIN free_block = 1 .. n
    BY <1>2
  <2>2. ASSUME NEW b \in Blocks PROVE \E i \in 1 .. n : free_block[i] = b
    BY <1>1, <2>1 DEF Range
  <2> HIDE DEF n
  <2> QED
    BY <1>2, <2>2 DEF Surjection
<1>4. IsFiniteSet(1 .. n) /\ Cardinality(1 .. n) = n
  <2>1. \A m \in Nat : IsFiniteSet(1 .. m) /\ Cardinality(1 .. m) = m
    BY FS_Interval
  <2> QED
    BY <1>2, <2>1, Zenon
<1>5. NumberOfBlocks \in Nat /\ Cardinality(Blocks) = NumberOfBlocks
  BY ConfigAssumption, FS_Interval DEF Blocks
<1>6. Cardinality(Blocks) <= Cardinality(1 .. n)
  BY <1>3, <1>4, FS_Surjection
<1> QED
  BY <1>2, <1>4, <1>5, <1>6

-----------------------------------------------------------------------------
(* Space.                                                                  *)

LEMMA SpaceUnchanged ==
  ASSUME UNCHANGED <<clean, free_block>>
  PROVE  FreePages' = FreePages /\ Len(free_block') = Len(free_block)
  BY DEF FreePages

(* The victim of a collection with only one block left to write to has an  *)
(* invalid page; with two blocks left its copy fits in any case.           *)
LEMMA VictimFits ==
  ASSUME BlockInv, ReserveBlocks >= 2, gc_block = << >>, FreePages >= PagesPerBlock,
         NEW i \in DOMAIN full_block, IsVictim(i)
  PROVE  FreePages >= Len(lpns[full_block[i]]) + 1
<1> DEFINE v == full_block[i]
<1>1. /\ full_block \in Seq(Blocks) /\ dirty \in [Blocks -> Counter]
      /\ clean \in [Blocks -> Counter] /\ lpns \in [Blocks -> Seq(Lpns)]
  BY DEF BlockInv, TypeBlocks
<1>2. v \in Blocks /\ v \in Range(full_block)
  BY <1>1, ElementOfSeq DEF Range
<1>3. /\ Len(lpns[v]) \in Nat /\ dirty[v] \in Nat
      /\ Len(lpns[v]) + dirty[v] = PagesPerBlock
  <2>1. clean[v] = 0 /\ clean[v] + dirty[v] + Len(lpns[v]) = PagesPerBlock
    BY <1>2 DEF BlockInv, PageAccounting
  <2>2. Len(lpns[v]) \in Nat /\ dirty[v] \in Nat
    BY <1>1, <1>2, LenProperties DEF Counter
  <2> QED
    BY <2>1, <2>2
<1>4. FreePages \in Nat /\ Len(free_block) \in Nat
      /\ (Len(free_block) = 0 => FreePages = 0)
      /\ (Len(free_block) >= 2 => FreePages >= PagesPerBlock + 1)
  BY FreeCount
<1>5. CASE Len(free_block) >= 2
  BY <1>3, <1>4, <1>5, PageCount
<1>6. CASE Len(free_block) = 1
  <2>1. PICK b \in Range(full_block) : dirty[b] > 0
    BY <1>6, SomeInvalidPage
  <2>2. PICK j \in DOMAIN full_block : full_block[j] = b
    BY <2>1 DEF Range
  <2>3. dirty[b] <= dirty[v] /\ dirty[b] \in Nat
    <3>1. b \in Blocks
      BY <1>1, <2>2, ElementOfSeq
    <3> QED
      BY <3>1, <1>1, <2>2 DEF IsVictim, Counter
  <2> HIDE DEF v
  <2>4. dirty[v] >= 1
    BY <1>3, <2>1, <2>3
  <2>5. FreePages >= Len(lpns[v]) + 1
    BY <1>3, <1>4, <2>4, PageCount
  <2> QED
    BY <2>5 DEF v
<1>7. Len(free_block) # 0
  BY <1>4, PageCount
<1>8. Len(free_block) >= 2 \/ Len(free_block) = 1
  <2>1. \A m \in Nat : m # 0 => m >= 2 \/ m = 1
    OBVIOUS
  <2> QED
    BY <1>4, <1>7, <2>1, Zenon
<1> QED
  BY <1>5, <1>6, <1>8, Zenon

LEMMA InitSpace ==
  ASSUME Init, ReserveBlocks >= 2
  PROVE  FreeSpace
<1>1. /\ BlockInv /\ pc = "idle" /\ free_block = [i \in 1 .. NumberOfBlocks |-> i - 1]
  BY InitState DEF StateInv, Init
<1>2. NumberOfBlocks \in Nat /\ NumberOfBlocks >= 2
  BY ConfigAssumption
<1>3. Len(free_block) = NumberOfBlocks
  <2>1. free_block \in Seq(Blocks)
    BY <1>1 DEF BlockInv, TypeBlocks
  <2>2. DOMAIN free_block = 1 .. Len(free_block) /\ Len(free_block) \in Nat
    BY <2>1, LenProperties
  <2>3. DOMAIN free_block = 1 .. NumberOfBlocks
    BY <1>1
  <2>4. NumberOfBlocks \in 1 .. NumberOfBlocks
    BY <1>2
  <2>5. NumberOfBlocks \in 1 .. Len(free_block)
    BY <2>2, <2>3, <2>4, Zenon
  <2>6. Len(free_block) \in 1 .. Len(free_block)
    BY <2>2, <2>5
  <2>7. Len(free_block) \in 1 .. NumberOfBlocks
    BY <2>2, <2>3, <2>6, Zenon
  <2>8. \A m, n \in Nat : m \in 1 .. n /\ n \in 1 .. m => m = n
    OBVIOUS
  <2> QED
    BY <1>2, <2>2, <2>5, <2>7, <2>8, Zenon
<1>4. FreePages \in Nat /\ FreePages >= PagesPerBlock + 1
  BY <1>1, <1>2, <1>3, FreeCount
<1> QED
  BY <1>1, <1>4, PageCount DEF FreeSpace

LEMMA NextSpace ==
  ASSUME StateInv, FreeSpace, ReserveBlocks >= 2, [Next]_vars
  PROVE  FreeSpace'
<1>0. BlockInv /\ TypeCall /\ MoveConsistent
  BY DEF StateInv
<1>a. /\ NumberOfBlocks \in Nat /\ ReserveBlocks \in Nat /\ NumberOfBlocks >= 3
      /\ ReserveBlocks < NumberOfBlocks
  BY ConfigAssumption
<1>b. /\ FreePages \in Nat /\ Len(free_block) \in Nat
      /\ Len(free_block) >= 3 => FreePages >= PagesPerBlock + PagesPerBlock + 1
  BY <1>0, FreeCount
<1>c. todo \in Seq(Lpns) /\ Len(todo) \in Nat
  BY <1>0, LenProperties DEF TypeCall
<1>1. CASE UNCHANGED <<clean, free_block, pc, todo>>
  BY <1>1, SpaceUnchanged DEF FreeSpace
<1>2. ASSUME NEW l \in Lpns, Write(l) PROVE FreeSpace'
  <2>1. /\ UNCHANGED <<clean, free_block>> /\ pc = "idle"
        /\ pc' = IF Len(free_block) <= 2 THEN "force_gc" ELSE "write"
    BY <1>2 DEF Write, IsLow, blockVars
  <2>2. FreePages' = FreePages /\ Len(free_block') = Len(free_block) /\ FreePages >= PagesPerBlock
    BY <2>1, SpaceUnchanged DEF FreeSpace
  <2>3. CASE Len(free_block) <= 2
    BY <1>a, <1>b, <2>1, <2>2, <2>3 DEF FreeSpace
  <2>4. CASE Len(free_block) >= 3
    <3>1. pc' = "write"
      BY <1>b, <2>1, <2>4
    <3>2. FreePages' >= PagesPerBlock + 1
      BY <1>b, <2>2, <2>4, PageCount
    <3> QED
      BY <3>1, <3>2 DEF FreeSpace
  <2> QED
    BY <1>b, <2>3, <2>4
<1>3. CASE WriteData
  <2>1. writing \in Lpns /\ WriteWithoutGC(writing) /\ pc = "write" /\ pc' = "idle"
    BY <1>0, <1>3 DEF WriteData, TypeCall, MoveConsistent
  <2>2. FreePages' = FreePages - 1 /\ FreePages >= PagesPerBlock + 1
    BY <1>0, <2>1, WriteSpace DEF FreeSpace
  <2>3. FreePages' >= PagesPerBlock
    BY <1>b, <2>2, PageCount
  <2> QED
    BY <2>1, <2>3 DEF FreeSpace
<1>4. CASE Gc
  <2>1. /\ UNCHANGED <<clean, free_block>> /\ pc = "idle" /\ pc' = "force_gc"
        /\ Len(free_block) < ReserveBlocks \div 2
    BY <1>4 DEF Gc, blockVars
  <2>2. ReserveBlocks \div 2 <= ReserveBlocks
    BY <1>a
  <2>3. Len(free_block) < NumberOfBlocks
    BY <1>a, <1>b, <2>1, <2>2
  <2>4. FreePages >= PagesPerBlock
    BY <2>1 DEF FreeSpace
  <2> QED
    BY <2>1, <2>3, <2>4, SpaceUnchanged DEF FreeSpace
<1>5. CASE ForceGc
  <2>1. UNCHANGED <<clean, free_block>> /\ FreePages >= PagesPerBlock /\ pc' \in {"move", "reset"}
    BY <1>5 DEF ForceGc, blockVars, FreeSpace
  <2>2. FreePages' = FreePages
    BY <2>1, SpaceUnchanged
  <2>3. FreePages >= 1
    BY <1>b, <2>1, PageCount
  <2>4. CASE pc' = "reset"
    BY <2>2, <2>3, <2>4 DEF FreeSpace
  <2>5. CASE pc' = "move"
    <3>1. gc_block = << >> /\ \E i \in DOMAIN full_block : IsVictim(i) /\ todo' = lpns[full_block[i]]
      BY <1>5, <2>5 DEF ForceGc
    <3>2. FreePages >= Len(todo') + 1
      BY <1>0, <2>1, <3>1, VictimFits
    <3> QED
      BY <2>2, <2>5, <3>2 DEF FreeSpace
  <2> QED
    BY <2>1, <2>4, <2>5
<1>6. CASE MoveRead
  <2>1. /\ UNCHANGED <<clean, free_block>> /\ pc = "move" /\ pc' = "rewrite" /\ todo' = todo
    BY <1>6 DEF MoveRead, blockVars
  <2> QED
    BY <2>1, SpaceUnchanged DEF FreeSpace
<1>7. CASE MoveWrite
  <2>1. /\ WriteWithoutGC(Head(todo)) /\ todo' = Tail(todo) /\ todo # << >>
        /\ pc = "rewrite" /\ pc' = "move"
    BY <1>0, <1>7 DEF MoveWrite, MoveConsistent
  <2>2. Head(todo) \in Lpns /\ Len(todo') = Len(todo) - 1
    BY <1>c, <2>1, HeadTailProperties
  <2>3. FreePages' = FreePages - 1 /\ FreePages >= Len(todo) + 1
    BY <1>0, <2>1, <2>2, WriteSpace DEF FreeSpace
  <2>4. FreePages' >= Len(todo') + 1
    BY <1>b, <1>c, <2>2, <2>3
  <2> QED
    BY <2>1, <2>4 DEF FreeSpace
<1>8. CASE MoveDone
  <2>1. /\ UNCHANGED <<clean, free_block>> /\ pc = "move" /\ pc' = "reset"
    BY <1>8 DEF MoveDone, blockVars
  <2>2. FreePages >= Len(todo) + 1
    BY <2>1 DEF FreeSpace
  <2>3. FreePages >= 1
    BY <1>b, <1>c, <2>2
  <2> QED
    BY <2>1, <2>3, SpaceUnchanged DEF FreeSpace
<1>9. CASE EraseBlock
  <2>1. pc = "reset" /\ pc' \in {"idle", "write"}
    BY <1>9 DEF EraseBlock
  <2>2. FreePages' = FreePages + PagesPerBlock /\ FreePages >= 1
    BY <1>0, <1>9, <2>1, EraseSpace DEF FreeSpace
  <2>3. FreePages' >= PagesPerBlock + 1 /\ FreePages' >= PagesPerBlock
    BY <1>b, <2>2, PageCount
  <2> QED
    BY <2>1, <2>3 DEF FreeSpace
<1> QED
  BY <1>1, <1>2, <1>3, <1>4, <1>5, <1>6, <1>7, <1>8, <1>9
  DEF Next, ForceGcStep, Read, Trim, TrimPage, Cache, blockVars, callVars, vars

(* With two reserve blocks every operation keeps enough clean pages for    *)
(* what is left of it.                                                     *)
THEOREM SpaceSuffices ==
  ASSUME ReserveBlocks >= 2
  PROVE  Spec => []FreeSpace
<1>1. Init => FreeSpace
  BY InitSpace
<1>2. StateInv /\ FreeSpace /\ [Next]_vars => FreeSpace'
  BY NextSpace
<1> QED
  BY <1>1, <1>2, StateInvariant, PTL DEF Spec

(* No operation takes the head of an empty list.                           *)
THEOREM NoEmptyList ==
  ASSUME ReserveBlocks >= 2
  PROVE  Spec => []HeadsExist
<1>1. StateInv /\ FreeSpace => HeadsExist
  <2> SUFFICES ASSUME StateInv, FreeSpace PROVE HeadsExist
    OBVIOUS
  <2>0. BlockInv /\ MoveConsistent /\ TypeCall
    BY DEF StateInv
  <2>1. FreePages \in Nat /\ (FreePages >= 1 => free_block # << >>)
    BY <2>0, FreeCount
  <2>2. todo \in Seq(Lpns) /\ Len(todo) \in Nat
    BY <2>0, LenProperties DEF TypeCall
  <2>3. CASE pc = "write"
    <3>1. FreePages >= PagesPerBlock + 1
      BY <2>3 DEF FreeSpace
    <3>2. FreePages >= 1
      BY <2>1, <3>1, PageCount
    <3> QED
      BY <2>1, <2>3, <3>2 DEF HeadsExist
  <2>4. CASE pc = "rewrite"
    <3>1. FreePages >= Len(todo) + 1
      BY <2>4 DEF FreeSpace
    <3>2. FreePages >= 1
      BY <2>1, <2>2, <3>1
    <3> QED
      BY <2>1, <2>4, <3>2 DEF HeadsExist
  <2>5. CASE pc = "force_gc"
    BY <2>0, <2>5, FullExists DEF FreeSpace, HeadsExist
  <2>6. CASE pc = "reset"
    BY <2>0, <2>6 DEF MoveConsistent, HeadsExist
  <2> QED
    BY <2>3, <2>4, <2>5, <2>6 DEF HeadsExist
<1>2. Spec => []FreeSpace
  BY SpaceSuffices
<1> QED
  BY <1>1, <1>2, StateInvariant, PTL
=============================================================================
