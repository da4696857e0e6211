---------------------------- MODULE CpftlProofs -----------------------------
(***************************************************************************)
(* Proofs about the mining actor (Cpftl) and the miners (Miner).           *)
(*                                                                         *)
(* First what FlattenSeq does to sequences of sequences. Its definition is *)
(* a recursive function: that it exists, and what it gives, is proved by   *)
(* induction on a set of natural numbers (NatSetInduction), which needs no *)
(* theorem with an operator parameter. Then the types of what the miners   *)
(* compute, then the inductive invariant of the actor.                     *)
(***************************************************************************)
EXTENDS Cpftl, FiniteSetTheorems, WellFoundedInduction, SequenceTheorems, TLAPS

(* Every set of natural numbers has a least element.                       *)
LEMMA Least ==
  ASSUME NEW T \in SUBSET Nat, T # {}
  PROVE  \E x \in T : \A y \in T : x <= y
<1> DEFINE R == OpToRel(<, Nat)
<1>1. IsWellFoundedOn(R, Nat)
  BY NatLessThanWellFounded
<1> HIDE DEF R
<1>2. PICK x \in T : \A y \in T : ~(<<y, x>> \in R)
  BY <1>1, WFMin
<1>3. \A y \in T : y < x => <<y, x>> \in R
  BY <1>2 DEF R, OpToRel
<1>4. ASSUME NEW y \in T
      PROVE  x <= y
  <2>1. x \in Nat /\ y \in Nat /\ ~(y < x)
    BY <1>2, <1>3
  <2> QED
    BY <2>1
<1> QED
  BY <1>4

(* Induction, for a set instead of a predicate.                            *)
LEMMA NatSetInduction ==
  ASSUME NEW S, 0 \in S, \A n \in Nat : n \in S => n + 1 \in S
  PROVE  \A n \in Nat : n \in S
<1> SUFFICES ASSUME Nat \ S # {} PROVE FALSE
  OBVIOUS
<1>1. PICK x \in Nat \ S : \A y \in Nat \ S : x <= y
  BY Least
<1>2. x # 0 /\ x - 1 \in Nat
  BY <1>1
<1>3. x - 1 \notin S
  BY <1>2, (x - 1) + 1 = x
<1> QED
  BY <1>1, <1>2, <1>3

(* The recursive function of FlattenSeq exists.                            *)
LEMMA FlattenDef ==
  ASSUME NEW S, NEW ss \in Seq(Seq(S)), ss # << >>
  PROVE  \E f \in [1 .. Len(ss) -> Seq(S)] :
           /\ FlattenSeq(ss) = f[Len(ss)]
           /\ \A i \in 1 .. Len(ss) : f[i] = IF i = 1 THEN ss[i] ELSE f[i - 1] \o ss[i]
<1> DEFINE flatten[i \in 1 .. Len(ss)] == IF i = 1 THEN ss[i] ELSE flatten[i - 1] \o ss[i]
<1>1. FlattenSeq(ss) = flatten[Len(ss)]
  BY Len(ss) # 0 DEF FlattenSeq
<1>2. flatten = CHOOSE g : g = [i \in 1 .. Len(ss) |-> IF i = 1 THEN ss[i] ELSE g[i - 1] \o ss[i]]
  OBVIOUS
<1> HIDE DEF flatten
<1> DEFINE Up(n, g) == \A i \in 1 .. n : g[i] = IF i = 1 THEN ss[i] ELSE g[i - 1] \o ss[i]
           N == {n \in Nat : n <= Len(ss) => \E g \in [1 .. n -> Seq(S)] : Up(n, g)}
<1>t. /\ Len(ss) \in Nat /\ \A i \in 1 .. Len(ss) : ss[i] \in Seq(S)
  BY LenProperties, ElementOfSeq
<1>a. 0 \in N
  <2>1. << >> \in [1 .. 0 -> Seq(S)] /\ Up(0, << >>)
    OBVIOUS
  <2> QED
    BY <2>1
<1>b. ASSUME NEW n \in Nat, n \in N
      PROVE  n + 1 \in N
  <2> SUFFICES ASSUME n + 1 <= Len(ss)
               PROVE  \E g \in [1 .. n + 1 -> Seq(S)] : Up(n + 1, g)
    OBVIOUS
  <2>1. PICK g \in [1 .. n -> Seq(S)] : Up(n, g)
    BY <1>b, <1>t
  <2> DEFINE next == IF n = 0 THEN ss[1] ELSE g[n] \o ss[n + 1]
             h == [i \in 1 .. n + 1 |-> IF i <= n THEN g[i] ELSE next]
  <2>2. next \in Seq(S)
    <3>1. CASE n = 0
      BY <3>1, <1>t
    <3>2. CASE n # 0
      <4>1. g[n] \in Seq(S) /\ ss[n + 1] \in Seq(S)
        BY <3>2, <1>t
      <4> QED
        BY <3>2, <4>1, ConcatProperties
    <3> QED
      BY <3>1, <3>2
  <2>3. h \in [1 .. n + 1 -> Seq(S)]
    <3> HIDE DEF next
    <3> QED
      BY <2>2
  <2>4. ASSUME NEW i \in 1 .. n + 1
        PROVE  h[i] = IF i = 1 THEN ss[i] ELSE h[i - 1] \o ss[i]
    <3>1. CASE i <= n
      <4>1. h[i] = g[i] /\ (i # 1 => h[i - 1] = g[i - 1])
        <5> HIDE DEF next
        <5>1. i \in 1 .. n + 1 /\ (i # 1 => i - 1 \in 1 .. n + 1 /\ i - 1 <= n)
          BY <3>1
        <5>2. \A j \in 1 .. n + 1 : j <= n => h[j] = g[j]
          OBVIOUS
        <5> HIDE DEF h
        <5> QED
          BY <3>1, <5>1, <5>2
      <4>2. g[i] = IF i = 1 THEN ss[i] ELSE g[i - 1] \o ss[i]
        <5>1. i \in 1 .. n
          BY <3>1
        <5> HIDE DEF next, h, N
        <5> QED
          BY <2>1, <5>1
      <4> HIDE DEF h
      <4> QED
        BY <4>1, <4>2
    <3>2. CASE i = n + 1
      <4>1. h[i] = next /\ (n # 0 => h[i - 1] = g[n])
        BY <3>2
      <4>2. i = 1 <=> n = 0
        BY <3>2
      <4> HIDE DEF h
      <4> QED
        BY <3>2, <4>1, <4>2
    <3> QED
      BY <3>1, <3>2
  <2> HIDE DEF h, next
  <2> QED
    BY <2>3, <2>4
<1> HIDE DEF N
<1>c. Len(ss) \in N
  BY <1>a, <1>b, <1>t, NatSetInduction
<1>d. PICK g \in [1 .. Len(ss) -> Seq(S)] : Up(Len(ss), g)
  <2> HIDE DEF Up
  <2> QED
    BY <1>c, <1>t DEF N
<1>3. g = [i \in 1 .. Len(ss) |-> IF i = 1 THEN ss[i] ELSE g[i - 1] \o ss[i]]
  BY <1>d
<1> HIDE DEF Up
<1>4. flatten = [i \in 1 .. Len(ss) |-> IF i = 1 THEN ss[i] ELSE flatten[i - 1] \o ss[i]]
  BY <1>2, <1>3, Zenon
<1>5. \A i \in 1 .. Len(ss) : flatten[i] = IF i = 1 THEN ss[i] ELSE flatten[i - 1] \o ss[i]
  BY <1>4
<1>6. flatten \in [1 .. Len(ss) -> Seq(S)]
  <2> DEFINE M == {n \in Nat : n \in 1 .. Len(ss) => flatten[n] \in Seq(S)}
  <2>1. 0 \in M
    OBVIOUS
  <2>2. ASSUME NEW n \in Nat, n \in M
        PROVE  n + 1 \in M
    <3> SUFFICES ASSUME n + 1 \in 1 .. Len(ss)
                 PROVE  flatten[n + 1] \in Seq(S)
      OBVIOUS
    <3>1. CASE n = 0
      BY <3>1, <1>5, <1>t
    <3>2. CASE n # 0
      <4>1. flatten[n] \in Seq(S) /\ ss[n + 1] \in Seq(S)
        BY <3>2, <2>2, <1>t
      <4>2. flatten[n + 1] = flatten[n] \o ss[n + 1]
        <5>1. n + 1 \in 1 .. Len(ss) /\ n + 1 # 1 /\ (n + 1) - 1 = n
          BY <3>2
        <5>2. flatten[n + 1] = IF n + 1 = 1 THEN ss[n + 1] ELSE flatten[(n + 1) - 1] \o ss[n + 1]
          BY <5>1, <1>5
        <5> QED
          BY <5>1, <5>2
      <4> QED
        BY <4>1, <4>2, ConcatProperties
    <3> QED
      BY <3>1, <3>2
  <2> HIDE DEF M
  <2>3. \A n \in Nat : n \in M
    BY <2>1, <2>2, NatSetInduction
  <2>4. \A n \in 1 .. Len(ss) : flatten[n] \in Seq(S)
    BY <2>3 DEF M
  <2> QED
    BY <2>4, <1>4
<1> QED
  BY <1>1, <1>5, <1>6

(* FlattenSeq gives a sequence.                                            *)
LEMMA FlattenType ==
  ASSUME NEW S, NEW ss \in Seq(Seq(S))
  PROVE  FlattenSeq(ss) \in Seq(S) /\ FlattenSeq(<< >>) = << >>
<1>1. FlattenSeq(<< >>) = << >>
  BY Len(<< >>) = 0 DEF FlattenSeq
<1>2. CASE ss = << >>
  BY <1>1, <1>2, EmptySeq
<1>3. CASE ss # << >>
  <2>1. Len(ss) \in 1 .. Len(ss)
    BY <1>3, EmptySeq, LenProperties
  <2>2. PICK f \in [1 .. Len(ss) -> Seq(S)] : FlattenSeq(ss) = f[Len(ss)]
    BY <1>3, FlattenDef
  <2> QED
    BY <1>1, <2>1, <2>2
<1> QED
  BY <1>1, <1>2, <1>3

(* A sequence appended is flattened last.                                  *)
LEMMA FlattenAppend ==
  ASSUME NEW S, NEW ss \in Seq(Seq(S)), NEW q \in Seq(S)
  PROVE  FlattenSeq(Append(ss, q)) = FlattenSeq(ss) \o q
<1> DEFINE tt == Append(ss, q)
           n == Len(ss)
<1>1. /\ tt \in Seq(Seq(S)) /\ Len(tt) = n + 1 /\ tt # << >>
      /\ \A i \in 1 .. n : tt[i] = ss[i]
      /\ tt[n + 1] = q
      /\ n \in Nat
  BY AppendProperties, LenProperties
<1> HIDE DEF tt, n
<1>2. PICK f \in [1 .. n + 1 -> Seq(S)] :
        /\ FlattenSeq(tt) = f[n + 1]
        /\ \A i \in 1 .. n + 1 : f[i] = IF i = 1 THEN tt[i] ELSE f[i - 1] \o tt[i]
  <2>1. Len(tt) = n + 1
    BY <1>1
  <2>2. PICK f \in [1 .. Len(tt) -> Seq(S)] :
          /\ FlattenSeq(tt) = f[Len(tt)]
          /\ \A i \in 1 .. Len(tt) : f[i] = IF i = 1 THEN tt[i] ELSE f[i - 1] \o tt[i]
    BY <1>1, FlattenDef
  <2> QED
    BY <2>1, <2>2
<1>3. CASE n = 0
  <2>1. ss = << >> /\ f[n + 1] = q
    <3>1. ss = << >>
      BY <1>3, EmptySeq DEF n
    <3>2. n + 1 = 1
      BY <1>3
    <3> QED
      BY <3>1, <3>2, <1>1, <1>2
  <2> QED
    BY <2>1, <1>2, FlattenType, ConcatEmptySeq DEF tt
<1>4. CASE n # 0
  <2>1. ss # << >>
    BY <1>4 DEF n
  <2>2. PICK g \in [1 .. n -> Seq(S)] :
          /\ FlattenSeq(ss) = g[n]
          /\ \A i \in 1 .. n : g[i] = IF i = 1 THEN ss[i] ELSE g[i - 1] \o ss[i]
    BY <2>1, FlattenDef DEF n
  <2> DEFINE M == {i \in Nat : i \in 1 .. n => f[i] = g[i]}
  <2>3. 0 \in M
    OBVIOUS
  <2>4. ASSUME NEW i \in Nat, i \in M
        PROVE  i + 1 \in M
    <3> SUFFICES ASSUME i + 1 \in 1 .. n
                 PROVE  f[i + 1] = g[i + 1]
      OBVIOUS
    <3>1. (i + 1) - 1 = i /\ (i + 1 = 1 <=> i = 0) /\ (i # 0 => i \in 1 .. n)
          /\ i + 1 \in 1 .. n + 1
      BY <1>1
    <3>2. i # 0 => f[i] = g[i]
      BY <2>4, <3>1
    <3> HIDE DEF M
    <3>3. f[i + 1] = IF i = 0 THEN tt[i + 1] ELSE f[i] \o tt[i + 1]
      BY <3>1, <1>2
    <3>4. g[i + 1] = IF i = 0 THEN ss[i + 1] ELSE g[i] \o ss[i + 1]
      BY <3>1, <2>2
    <3>5. tt[i + 1] = ss[i + 1]
      BY <1>1
    <3> QED
      BY <3>2, <3>3, <3>4, <3>5
  <2> HIDE DEF M
  <2>5. n \in M
    BY <2>3, <2>4, <1>1, NatSetInduction
  <2>6. f[n] = g[n]
    <3>1. n \in 1 .. n
      BY <1>1, <1>4
    <3> QED
      BY <2>5, <3>1 DEF M
  <2>7. f[n + 1] = f[n] \o q
    <3>1. n + 1 \in 1 .. n + 1 /\ n + 1 # 1 /\ (n + 1) - 1 = n
      BY <1>1, <1>4
    <3>2. f[n + 1] = IF n + 1 = 1 THEN tt[n + 1] ELSE f[(n + 1) - 1] \o tt[n + 1]
      BY <3>1, <1>2
    <3> QED
      BY <3>1, <3>2, <1>1
  <2> QED
    BY <2>2, <2>6, <2>7, <1>2 DEF tt
<1> QED
  BY <1>3, <1>4

(* A sequence put in front is flattened first.                             *)
LEMMA FlattenCons ==
  ASSUME NEW S, NEW q \in Seq(S), NEW ss \in Seq(Seq(S))
  PROVE  FlattenSeq(<< q >> \o ss) = q \o FlattenSeq(ss)
<1> DEFINE M == {n \in Nat : \A tt \in Seq(Seq(S)) :
                   Len(tt) = n => FlattenSeq(<< q >> \o tt) = q \o FlattenSeq(tt)}
<1>q. << q >> \in Seq(Seq(S))
  OBVIOUS
<1>1. 0 \in M
  <2> SUFFICES ASSUME NEW tt \in Seq(Seq(S)), Len(tt) = 0
               PROVE  FlattenSeq(<< q >> \o tt) = q \o FlattenSeq(tt)
    OBVIOUS
  <2>1. tt = << >>
    BY EmptySeq
  <2>2. << q >> \o tt = << q >>
    BY <1>q, <2>1, ConcatEmptySeq
  <2>3. FlattenSeq(<< q >>) = q
    <3>1. << q >> = Append(<< >>, q)
      OBVIOUS
    <3>2. << >> \in Seq(Seq(S)) /\ FlattenSeq(<< >>) = << >>
      BY EmptySeq, FlattenType
    <3>3. FlattenSeq(Append(<< >>, q)) = << >> \o q
      BY <3>2, FlattenAppend
    <3> QED
      BY <3>1, <3>3, ConcatEmptySeq
  <2>4. FlattenSeq(tt) = << >>
    BY <2>1, FlattenType
  <2> QED
    BY <2>2, <2>3, <2>4, ConcatEmptySeq
<1>2. ASSUME NEW n \in Nat, n \in M
      PROVE  n + 1 \in M
  <2> SUFFICES ASSUME NEW tt \in Seq(Seq(S)), Len(tt) = n + 1
               PROVE  FlattenSeq(<< q >> \o tt) = q \o FlattenSeq(tt)
    BY n + 1 \in Nat
  <2>1. PICK front \in Seq(Seq(S)), last \in Seq(S) : tt = Append(front, last)
    <3>1. tt # << >>
      OBVIOUS
    <3> QED
      BY <3>1, SequenceEmptyOrAppend
  <2>2. Len(front) = n
    <3>1. Len(front) \in Nat /\ Len(tt) = Len(front) + 1
      BY <2>1, AppendProperties, LenProperties
    <3> QED
      BY <3>1
  <2>3. FlattenSeq(<< q >> \o front) = q \o FlattenSeq(front)
    BY <1>2, <2>2
  <2>4. << q >> \o tt = Append(<< q >> \o front, last) /\ << q >> \o front \in Seq(Seq(S))
    BY <1>q, <2>1, AppendIsConcat, ConcatAssociative, ConcatProperties
  <2>5. FlattenSeq(<< q >> \o tt) = (q \o FlattenSeq(front)) \o last
    BY <2>3, <2>4, FlattenAppend
  <2>6. FlattenSeq(tt) = FlattenSeq(front) \o last
    BY <2>1, FlattenAppend
  <2>7. FlattenSeq(front) \in Seq(S)
    BY FlattenType
  <2>8. (q \o FlattenSeq(front)) \o last = q \o (FlattenSeq(front) \o last)
    <3> HIDE DEF M
    <3>1. PICK m \in Seq(S) : m = FlattenSeq(front)
      BY <2>7
    <3>2. (q \o m) \o last = q \o (m \o last)
      BY <2>7, ConcatAssociative, SMTT(30)
    <3> QED
      BY <3>1, <3>2
  <2> QED
    BY <2>5, <2>6, <2>8, Zenon
<1> HIDE DEF M
<1>3. Len(ss) \in M
  BY <1>1, <1>2, LenProperties, NatSetInduction
<1> QED
  BY <1>3 DEF M

(* One that is not empty makes the result not empty.                       *)
LEMMA FlattenNonEmpty ==
  ASSUME NEW S, NEW ss \in Seq(Seq(S)), NEW k \in 1 .. Len(ss), ss[k] # << >>
  PROVE  FlattenSeq(ss) # << >>
<1> DEFINE M == {n \in Nat : \A tt \in Seq(Seq(S)) :
                   Len(tt) = n /\ (\E i \in 1 .. n : tt[i] # << >>) => FlattenSeq(tt) # << >>}
<1>1. 0 \in M
  OBVIOUS
<1>2. ASSUME NEW n \in Nat, n \in M
      PROVE  n + 1 \in M
  <2> SUFFICES ASSUME NEW tt \in Seq(Seq(S)), Len(tt) = n + 1,
                      NEW i \in 1 .. n + 1, tt[i] # << >>
               PROVE  FlattenSeq(tt) # << >>
    BY n + 1 \in Nat
  <2>1. PICK front \in Seq(Seq(S)), last \in Seq(S) : tt = Append(front, last)
    <3>1. tt # << >>
      OBVIOUS
    <3> QED
      BY <3>1, SequenceEmptyOrAppend
  <2>2. /\ Len(front) = n
        /\ i \in 1 .. n => tt[i] = front[i]
        /\ i = n + 1 => tt[i] = last
    <3>1. Len(front) \in Nat /\ Len(tt) = Len(front) + 1
      BY <2>1, AppendProperties, LenProperties
    <3>2. Len(front) = n
      BY <3>1
    <3> QED
      BY <2>1, <3>2, AppendProperties
  <2>3. FlattenSeq(tt) = FlattenSeq(front) \o last /\ FlattenSeq(front) \in Seq(S)
    BY <2>1, FlattenAppend, FlattenType
  <2>4. Len(FlattenSeq(tt)) = Len(FlattenSeq(front)) + Len(last)
    BY <2>1, <2>3, ConcatProperties
  <2>5. Len(FlattenSeq(front)) \in Nat /\ Len(last) \in Nat
    BY <2>1, <2>3, LenProperties
  <2>6. CASE i = n + 1
    <3>1. last # << >>
      BY <2>2, <2>6
    <3>2. Len(last) # 0
      BY <2>1, <3>1, EmptySeq
    <3>3. Len(FlattenSeq(tt)) # 0
      BY <2>4, <2>5, <3>2
    <3> QED
      BY <3>3, EmptySeq
  <2>7. CASE i \in 1 .. n
    <3>1. front[i] # << >>
      BY <2>2, <2>7
    <3>2. FlattenSeq(front) # << >>
      BY <1>2, <2>2, <2>7, <3>1
    <3>3. Len(FlattenSeq(front)) # 0
      BY <2>3, <3>2, EmptySeq
    <3>4. Len(FlattenSeq(tt)) # 0
      BY <2>4, <2>5, <3>3
    <3> QED
      BY <3>4, EmptySeq
  <2> QED
    BY <2>6, <2>7
<1> HIDE DEF M
<1>3. Len(ss) \in M
  BY <1>1, <1>2, LenProperties, NatSetInduction
<1> QED
  BY <1>3 DEF M

(* What Where keeps of seq is typed, and one element kept makes it not     *)
(* empty; f is the function that Where flattens.                           *)
LEMMA KeptPieces ==
  ASSUME NEW S, NEW seq \in Seq(S), NEW f,
         f = [i \in DOMAIN seq |-> f[i]],
         \A i \in DOMAIN seq : f[i] \in {<< >>, << seq[i] >>}
  PROVE  /\ FlattenSeq(f) \in Seq(S)
         /\ (\E i \in DOMAIN seq : f[i] # << >>) => FlattenSeq(f) # << >>
<1>1. Len(seq) \in Nat /\ DOMAIN seq = 1 .. Len(seq)
  BY LenProperties
<1>2. \A i \in 1 .. Len(seq) : seq[i] \in S
  BY ElementOfSeq
<1>3. \A i \in 1 .. Len(seq) : << >> \in Seq(S) /\ << seq[i] >> \in Seq(S)
  BY <1>2, EmptySeq
<1>4. \A i \in 1 .. Len(seq) : f[i] \in Seq(S)
  BY <1>1, <1>3
<1>5. f \in [1 .. Len(seq) -> Seq(S)]
  BY <1>1, <1>4
<1>6. f \in Seq(Seq(S)) /\ Len(f) = Len(seq)
  BY <1>1, <1>5
<1>7. FlattenSeq(f) \in Seq(S)
  BY <1>6, FlattenType
<1>8. ASSUME NEW i \in DOMAIN seq, f[i] # << >>
      PROVE  FlattenSeq(f) # << >>
  BY <1>1, <1>6, <1>8, FlattenNonEmpty
<1> QED
  BY <1>7, <1>8

-----------------------------------------------------------------------------
(* The miners.                                                             *)

(* What the operators of Miner give for sequences over S.                  *)
LEMMA CountType ==
  ASSUME NEW S, NEW input \in Seq(S), NEW x
  PROVE  Count(input, x) \in Nat
<1>1. IsFiniteSet(1 .. Len(input)) /\ DOMAIN input = 1 .. Len(input)
  BY LenProperties, FS_Interval
<1>2. IsFiniteSet({i \in DOMAIN input : input[i] = x})
  BY <1>1, FS_Subset
<1> QED
  BY <1>2, FS_CardinalityType DEF Count

LEMMA GroupedType ==
  ASSUME NEW S, NEW input \in Seq(S), NEW n \in Nat \ {0}
  PROVE  Grouped(input, n) \in Seq(Seq(S))
<1> DEFINE m == Len(input)
           last == (m + n - 1) \div n
           From(k) == (k - 1) * n + 1
           To(k) == IF k * n < m THEN k * n ELSE m
<1>1. m \in Nat /\ \A i \in 1 .. m : input[i] \in S
  BY LenProperties, ElementOfSeq
<1>2. last \in Nat
  <2> HIDE DEF m
  <2> QED
    BY <1>1
<1>3. ASSUME NEW k \in 1 .. last
      PROVE  SubSeq(input, From(k), To(k)) \in Seq(S)
  <2>1. k \in Nat /\ k - 1 \in Nat
    BY <1>2
  <2>2. (k - 1) * n \in Nat /\ k * n \in Nat
    BY <2>1
  <2> DEFINE a == From(k)
             b == To(k)
  <2>3. a \in Nat /\ a >= 1 /\ b \in Nat /\ b <= m
    <3> HIDE DEF m
    <3> QED
      BY <1>1, <2>2
  <2> HIDE DEF a, b, m
  <2>4. \A i \in a .. b : input[i] \in S
    <3>1. \A i \in a .. b : i \in 1 .. m
      BY <1>1, <2>3
    <3> QED
      BY <1>1, <3>1
  <2>5. SubSeq(input, a, b) \in Seq(S)
    BY <2>3, <2>4, SubSeqProperties
  <2> QED
    BY <2>5 DEF a, b
<1>4. Grouped(input, n) = [k \in 1 .. last |-> SubSeq(input, From(k), To(k))]
  BY DEF Grouped
<1> HIDE DEF last, From, To
<1> QED
  BY <1>2, <1>3, <1>4

LEMMA SimpleMineType ==
  ASSUME NEW S, NEW input \in Seq(S), NEW splitSize \in Nat \ {0}
  PROVE  SimpleMine(input, splitSize) \subseteq Seq(S)
<1>1. Grouped(input, splitSize) \in Seq(Seq(S))
  BY GroupedType
<1> QED
  BY <1>1 DEF SimpleMine, ToSet

(* The places of pages of S that the levels of CMiner pass on.             *)
Places(S) ==
  {e \in [seq : Seq(S), next : S, split : Seq(S), pos : Nat,
          father_support : Nat, support : Nat] : e.pos <= Len(e.split)}

LEMMA PlaceType ==
  ASSUME NEW S, NEW seq \in Seq(S), NEW split \in Seq(S), NEW pos \in 1 .. Len(split),
         NEW fatherSupport \in Nat
  PROVE  Place(seq, split, pos, fatherSupport) \in Places(S)
<1>1. split[pos] \in S /\ pos \in Nat /\ pos <= Len(split)
  BY LenProperties, ElementOfSeq
<1>2. Place(seq, split, pos, fatherSupport) \in
        [seq : Seq(S), next : S, split : Seq(S), pos : Nat, father_support : Nat, support : Nat]
  BY <1>1 DEF Place
<1>3. Place(seq, split, pos, fatherSupport).pos = pos
      /\ Place(seq, split, pos, fatherSupport).split = split
  BY DEF Place
<1> QED
  BY <1>1, <1>2, <1>3 DEF Places

LEMMA FirstOfSplitType ==
  ASSUME NEW S, NEW input \in Seq(S), NEW split \in Seq(S)
  PROVE  FirstOfSplit(input, split) \in Seq(Places(S))
<1> DEFINE n == Len(split)
           Row(i) == [j \in 1 .. n - i |->
                        Place(<< split[i] >>, split, i + j, Count(input, split[i]))]
<1>1. n \in Nat /\ \A i \in 1 .. n : split[i] \in S
  BY LenProperties, ElementOfSeq
<1>2. ASSUME NEW i \in 1 .. n
      PROVE  Row(i) \in Seq(Places(S))
  <2>1. << split[i] >> \in Seq(S) /\ Count(input, split[i]) \in Nat
    BY <1>1, CountType
  <2>2. \A j \in 1 .. n - i : i + j \in 1 .. Len(split)
    <3>1. n = Len(split)
      OBVIOUS
    <3> HIDE DEF n
    <3> QED
      BY <1>1, <3>1
  <2>3. \A j \in 1 .. n - i :
          Place(<< split[i] >>, split, i + j, Count(input, split[i])) \in Places(S)
    BY <2>1, <2>2, PlaceType
  <2>4. n - i \in Nat
    BY <1>1
  <2>5. Row(i) \in [1 .. n - i -> Places(S)]
    BY <2>3
  <2> HIDE DEF Row, n
  <2> QED
    BY <2>4, <2>5
<1>3. FirstOfSplit(input, split) = FlattenSeq([i \in 1 .. n |-> Row(i)])
  BY DEF FirstOfSplit
<1> HIDE DEF Row, n
<1>4. [i \in 1 .. n |-> Row(i)] \in Seq(Seq(Places(S)))
  BY <1>1, <1>2
<1> QED
  BY <1>3, <1>4, FlattenType

LEMMA FrequentType ==
  ASSUME NEW S, NEW input \in Seq(S)
  PROVE  Frequent(input) \in Seq(S)
<1> DEFINE f == [i \in DOMAIN input |->
                   IF Count(input, input[i]) >= MinSupport THEN << input[i] >> ELSE << >>]
<1>1. f = [i \in DOMAIN input |-> f[i]] /\ \A i \in DOMAIN input : f[i] \in {<< >>, << input[i] >>}
  OBVIOUS
<1>2. Frequent(input) = FlattenSeq(f)
  BY DEF Frequent, Where
<1> HIDE DEF f
<1> QED
  BY <1>1, <1>2, KeptPieces

LEMMA FirstLevelType ==
  ASSUME NEW S, NEW input \in Seq(S), NEW splitSize \in Nat \ {0}
  PROVE  FirstLevelSubSequences(input, splitSize) \in Seq(Places(S))
<1> DEFINE splits == Grouped(Frequent(input), splitSize)
           rows == [k \in DOMAIN splits |-> FirstOfSplit(input, splits[k])]
<1>1. splits \in Seq(Seq(S))
  BY FrequentType, GroupedType
<1> HIDE DEF splits
<1>2. DOMAIN splits = 1 .. Len(splits) /\ Len(splits) \in Nat
      /\ \A k \in 1 .. Len(splits) : splits[k] \in Seq(S)
  BY <1>1, LenProperties, ElementOfSeq
<1>3. \A k \in 1 .. Len(splits) : FirstOfSplit(input, splits[k]) \in Seq(Places(S))
  BY <1>2, FirstOfSplitType
<1>4. rows \in Seq(Seq(Places(S)))
  BY <1>2, <1>3
<1>5. FirstLevelSubSequences(input, splitSize) = FlattenSeq(rows)
  BY DEF FirstLevelSubSequences, splits
<1> HIDE DEF rows
<1> QED
  BY <1>4, <1>5, FlattenType

LEMMA NextLevelType ==
  ASSUME NEW S, NEW list \in Seq(Places(S))
  PROVE  NextLevelSubSequence(list) \in Seq(Places(S))
<1>1. CASE list = << >>
  BY <1>1 DEF NextLevelSubSequence
<1>2. CASE list # << >>
  <2> DEFINE seq == Append(Head(list).seq, Head(list).next)
             Row(i) == [j \in 1 .. Len(list[i].split) - list[i].pos |->
                          Place(seq, list[i].split, list[i].pos + j, list[i].support)]
             rows == [i \in DOMAIN list |-> Row(i)]
  <2>1. Head(list) \in Places(S)
    BY <1>2, HeadTailProperties
  <2>2. seq \in Seq(S)
    BY <2>1, AppendProperties DEF Places
  <2>3. DOMAIN list = 1 .. Len(list) /\ Len(list) \in Nat
        /\ \A i \in 1 .. Len(list) : list[i] \in Places(S)
    BY LenProperties, ElementOfSeq
  <2> HIDE DEF seq
  <2>4. ASSUME NEW i \in 1 .. Len(list)
        PROVE  Row(i) \in Seq(Places(S))
    <3> DEFINE split == list[i].split
               pos == list[i].pos
               n == Len(split)
    <3>1. /\ split \in Seq(S) /\ pos \in Nat /\ pos <= n /\ list[i].support \in Nat
          /\ n = Len(split) /\ n \in Nat
      BY <2>3, LenProperties DEF Places
    <3>2. Row(i) = [j \in 1 .. n - pos |-> Place(seq, split, pos + j, list[i].support)]
      OBVIOUS
    <3> HIDE DEF split, pos, n, Row
    <3>3. \A j \in 1 .. n - pos : pos + j \in 1 .. Len(split)
      BY <3>1
    <3>4. \A j \in 1 .. n - pos : Place(seq, split, pos + j, list[i].support) \in Places(S)
      BY <2>2, <3>1, <3>3, PlaceType
    <3>5. n - pos \in Nat
      BY <3>1
    <3> QED
      BY <3>2, <3>4, <3>5
  <2>5. NextLevelSubSequence(list) = FlattenSeq(rows)
    BY <1>2 DEF NextLevelSubSequence, seq
  <2> HIDE DEF Row
  <2>6. rows \in Seq(Seq(Places(S)))
    BY <2>3, <2>4
  <2> HIDE DEF rows
  <2> QED
    BY <2>5, <2>6, FlattenType
<1> QED
  BY <1>1, <1>2

LEMMA FrequentSubsequenceType ==
  ASSUME NEW S, NEW list \in Seq(Places(S))
  PROVE  FrequentSubsequence(list) \subseteq Seq(Places(S)) \ {<< >>}
<1>1. DOMAIN list = 1 .. Len(list) /\ Len(list) \in Nat
      /\ \A i \in 1 .. Len(list) : list[i] \in Places(S)
  BY LenProperties, ElementOfSeq
<1>2. ASSUME NEW e \in Keys(list)
      PROVE  GroupOf(list, e) \in Seq(Places(S)) \ {<< >>}
  <2> DEFINE f == [i \in DOMAIN list |-> IF Same(list[i], e) THEN << list[i] >> ELSE << >>]
  <2>1. f = [i \in DOMAIN list |-> f[i]] /\ \A i \in DOMAIN list : f[i] \in {<< >>, << list[i] >>}
    OBVIOUS
  <2>2. GroupOf(list, e) = FlattenSeq(f)
    BY DEF GroupOf, Where
  <2>3. PICK i \in DOMAIN list : e = list[i]
    BY DEF Keys
  <2>4. f[i] # << >>
    BY <2>3 DEF Same
  <2> HIDE DEF f
  <2> QED
    BY <2>1, <2>2, <2>4, KeptPieces
<1>3. ASSUME NEW group \in Seq(Places(S)) \ {<< >>}
      PROVE  [i \in DOMAIN group |-> [group[i] EXCEPT !.support = Len(group)]]
               \in Seq(Places(S)) \ {<< >>}
  <2> DEFINE n == Len(group)
             h == [i \in 1 .. n |-> [group[i] EXCEPT !.support = n]]
  <2>1. /\ n \in Nat /\ n # 0 /\ DOMAIN group = 1 .. n
        /\ \A i \in 1 .. n : group[i] \in Places(S)
    BY LenProperties, ElementOfSeq, EmptySeq
  <2> HIDE DEF n
  <2>2. \A i \in 1 .. n : [group[i] EXCEPT !.support = n] \in Places(S)
    BY <2>1 DEF Places
  <2>3. h \in Seq(Places(S)) /\ h # << >>
    <3>1. h \in Seq(Places(S)) /\ Len(h) = n
      BY <2>1, <2>2
    <3> HIDE DEF h
    <3> QED
      BY <2>1, <3>1, EmptySeq
  <2> QED
    BY <2>1, <2>3 DEF n
<1>4. \A group \in {GroupOf(list, e) : e \in {k \in Keys(list) : Kept(k, Len(GroupOf(list, k)))}} :
        group \in Seq(Places(S)) \ {<< >>}
  BY <1>2
<1> QED
  BY <1>3, <1>4 DEF FrequentSubsequence

(* The recursive function of MiningNext exists, and what it gives for      *)
(* every level below the first is made of groups of places.                *)
LEMMA MiningNextType ==
  ASSUME NEW S, NEW list \in Seq(Places(S)), NEW level \in Nat \ {0}, NEW depth
  PROVE  MiningNext(list, level, depth) \subseteq Places(S)
<1> DEFINE Found(g, n) == FrequentSubsequence(IF n = depth THEN g ELSE NextLevelSubSequence(g))
           groups[n \in 0 .. level] ==
             IF n = 0 THEN {list}
             ELSE UNION {Found(g, level - n + 1) : g \in groups[n - 1]}
           T == SUBSET Seq(Places(S))
           Step(G, n) == UNION {Found(g, level - n + 1) : g \in G}
<1>1. MiningNext(list, level, depth) = {Head(g) : g \in groups[level]}
  BY DEF MiningNext
<1>2. groups = CHOOSE h : h = [n \in 0 .. level |->
                 IF n = 0 THEN {list} ELSE UNION {Found(g, level - n + 1) : g \in h[n - 1]}]
  OBVIOUS
<1> HIDE DEF groups
<1>3. ASSUME NEW G \in T, NEW n \in Nat
      PROVE  Step(G, n) \subseteq Seq(Places(S)) \ {<< >>}
  <2>1. ASSUME NEW g \in G
        PROVE  Found(g, level - n + 1) \subseteq Seq(Places(S)) \ {<< >>}
    <3>1. g \in Seq(Places(S))
      OBVIOUS
    <3>2. NextLevelSubSequence(g) \in Seq(Places(S))
      BY <3>1, NextLevelType
    <3>3. CASE level - n + 1 = depth
      BY <3>1, <3>3, FrequentSubsequenceType
    <3>4. CASE level - n + 1 # depth
      BY <3>2, <3>4, FrequentSubsequenceType
    <3> QED
      BY <3>3, <3>4
  <2> HIDE DEF Found
  <2> QED
    BY <2>1
<1> HIDE DEF Found
<1> DEFINE Up(k, h) == \A n \in 0 .. k : h[n] = IF n = 0 THEN {list} ELSE Step(h[n - 1], n)
           N == {k \in Nat : \E h \in [0 .. k -> T] : Up(k, h)}
<1>4. {list} \in T
  OBVIOUS
<1>5. 0 \in N
  <2> DEFINE h == [n \in 0 .. 0 |-> {list}]
  <2>1. h \in [0 .. 0 -> T]
    BY <1>4
  <2>2. Up(0, h)
    <3> HIDE DEF T
    <3> QED
      OBVIOUS
  <2> HIDE DEF h
  <2> QED
    BY <2>1, <2>2
<1>6. ASSUME NEW k \in Nat, k \in N
      PROVE  k + 1 \in N
  <2> HIDE DEF Step, T
  <2>1. PICK f \in [0 .. k -> T] : Up(k, f)
    BY <1>6
  <2> DEFINE next == Step(f[k], k + 1)
             h == [n \in 0 .. k + 1 |-> IF n <= k THEN f[n] ELSE next]
  <2>2. next \in T
    <3>1. f[k] \in T /\ k + 1 \in Nat
      OBVIOUS
    <3> QED
      BY <1>3, <3>1 DEF T
  <2> HIDE DEF next
  <2>3. h \in [0 .. k + 1 -> T]
    BY <2>2
  <2>4. \A n \in 0 .. k : h[n] = f[n]
    OBVIOUS
  <2>5. h[k + 1] = next
    OBVIOUS
  <2> HIDE DEF h
  <2>6. ASSUME NEW n \in 0 .. k + 1
        PROVE  h[n] = IF n = 0 THEN {list} ELSE Step(h[n - 1], n)
    <3>1. CASE n = k + 1
      <4>1. n # 0 /\ n - 1 = k /\ k \in 0 .. k
        BY <3>1
      <4>2. h[n - 1] = f[k]
        BY <4>1, <2>4
      <4> QED
        BY <3>1, <4>1, <4>2, <2>5 DEF next
    <3>2. CASE n # k + 1
      <4>1. n \in 0 .. k /\ (n # 0 => n - 1 \in 0 .. k)
        BY <3>2
      <4>2. h[n] = f[n] /\ (n # 0 => h[n - 1] = f[n - 1])
        BY <4>1, <2>4
      <4>3. f[n] = IF n = 0 THEN {list} ELSE Step(f[n - 1], n)
        BY <4>1, <2>1
      <4> QED
        BY <4>2, <4>3
    <3> QED
      BY <3>1, <3>2
  <2>7. Up(k + 1, h)
    BY <2>6
  <2>8. \E g \in [0 .. k + 1 -> T] : Up(k + 1, g)
    <3> HIDE DEF Up
    <3> QED
      BY <2>3, <2>7
  <2> HIDE DEF Up
  <2>9. k + 1 \in Nat
    OBVIOUS
  <2> QED
    BY <2>8, <2>9
<1> HIDE DEF N
<1>7. level \in N
  BY <1>5, <1>6, NatSetInduction
<1>8. PICK f \in [0 .. level -> T] : Up(level, f)
  <2> HIDE DEF Up, T
  <2> QED
    BY <1>7 DEF N
<1>9. f = [n \in 0 .. level |->
             IF n = 0 THEN {list} ELSE UNION {Found(g, level - n + 1) : g \in f[n - 1]}]
  BY <1>8
<1>10. groups = [n \in 0 .. level |->
             IF n = 0 THEN {list} ELSE UNION {Found(g, level - n + 1) : g \in groups[n - 1]}]
  BY <1>2, <1>9, Zenon
<1> HIDE DEF Step
<1>11. \A n \in 0 .. level : groups[n] = IF n = 0 THEN {list} ELSE Step(groups[n - 1], n)
  BY <1>10 DEF Step
<1> DEFINE M == {n \in Nat : n \in 0 .. level => groups[n] \in T}
<1>12. 0 \in M
  BY <1>4, <1>11
<1>13. ASSUME NEW n \in Nat, n \in M
       PROVE  n + 1 \in M
  <2> HIDE DEF T
  <2> SUFFICES ASSUME n + 1 \in 0 .. level
               PROVE  groups[n + 1] \in T
    OBVIOUS
  <2>1. groups[n] \in T
    BY <1>13
  <2>2. n + 1 # 0 /\ (n + 1) - 1 = n /\ n + 1 \in Nat
    OBVIOUS
  <2>3. groups[n + 1] = IF n + 1 = 0 THEN {list} ELSE Step(groups[(n + 1) - 1], n + 1)
    BY <1>11
  <2>4. groups[n + 1] = Step(groups[n], n + 1)
    BY <2>2, <2>3
  <2>5. Step(groups[n], n + 1) \subseteq Seq(Places(S)) \ {<< >>}
    BY <2>1, <2>2, <1>3
  <2> QED
    BY <2>4, <2>5 DEF T
<1> HIDE DEF M
<1>14. level - 1 \in M
  BY <1>12, <1>13, NatSetInduction
<1>15. groups[level] \subseteq Seq(Places(S)) \ {<< >>}
  <2> HIDE DEF T
  <2>1. level - 1 \in 0 .. level /\ level \in 0 .. level /\ level # 0
    OBVIOUS
  <2>2. groups[level - 1] \in T
    BY <2>1, <1>14 DEF M
  <2>3. groups[level] = Step(groups[level - 1], level)
    BY <2>1, <1>11
  <2> QED
    BY <2>2, <2>3, <1>3
<1>16. \A g \in groups[level] : Head(g) \in Places(S)
  BY <1>15, HeadTailProperties
<1> QED
  BY <1>1, <1>16

LEMMA CMineType ==
  ASSUME NEW S, NEW input \in Seq(S), NEW splitSize \in Nat \ {0},
         NEW depth \in Nat, depth >= 3
  PROVE  CMine(input, splitSize, depth) \subseteq Seq(S)
<1> DEFINE E == MiningNext(FirstLevelSubSequences(input, splitSize), depth - 2, depth)
<1>1. depth - 2 \in Nat \ {0}
  OBVIOUS
<1>2. E \subseteq Places(S)
  BY <1>1, FirstLevelType, MiningNextType
<1>3. CMine(input, splitSize, depth) = {Append(e.seq, e.next) : e \in E}
  BY DEF CMine
<1> HIDE DEF E
<1>4. \A e \in E : e.seq \in Seq(S) /\ e.next \in S
  BY <1>2 DEF Places
<1>5. \A e \in E : Append(e.seq, e.next) \in Seq(S)
  BY <1>4, AppendProperties
<1> QED
  BY <1>3, <1>5

LEMMA LshMineType ==
  ASSUME NEW S, NEW input \in Seq(S), NEW splitSize \in Nat \ {0},
         NEW depth \in Nat, depth >= 3, NEW bucketOf
  PROVE  LshMine(input, splitSize, depth, bucketOf) \subseteq Seq(S)
<1> DEFINE groups == Grouped(input, splitSize)
           splits == Splits(input, splitSize)
           In(b) == Where(splits, LAMBDA s : bucketOf[ToSet(s)] = b)
<1>1. splits \in Seq(Seq(S))
  <2> DEFINE f == [i \in DOMAIN groups |->
                     IF Len(groups[i]) = splitSize THEN << groups[i] >> ELSE << >>]
  <2>1. groups \in Seq(Seq(S))
    BY GroupedType
  <2>2. splits = FlattenSeq(f)
    BY DEF Splits, Where
  <2> HIDE DEF groups
  <2>3. f = [i \in DOMAIN groups |-> f[i]]
        /\ \A i \in DOMAIN groups : f[i] \in {<< >>, << groups[i] >>}
    OBVIOUS
  <2> HIDE DEF f, splits
  <2> QED
    BY <2>1, <2>2, <2>3, KeptPieces
<1>2. LshMine(input, splitSize, depth, bucketOf) \subseteq
        UNION {CMine(FlattenSeq(In(b)), splitSize, depth) : b \in {bucketOf[x] : x \in DOMAIN bucketOf}}
  BY DEF LshMine, Where
<1> HIDE DEF splits, groups
<1>3. ASSUME NEW b
      PROVE  CMine(FlattenSeq(In(b)), splitSize, depth) \subseteq Seq(S)
  <2> DEFINE f == [i \in DOMAIN splits |->
                     IF bucketOf[ToSet(splits[i])] = b THEN << splits[i] >> ELSE << >>]
  <2>1. In(b) = FlattenSeq(f)
    BY DEF Where
  <2>2. f = [i \in DOMAIN splits |-> f[i]]
        /\ \A i \in DOMAIN splits : f[i] \in {<< >>, << splits[i] >>}
    OBVIOUS
  <2> HIDE DEF f, In
  <2>3. In(b) \in Seq(Seq(S))
    BY <1>1, <2>1, <2>2, KeptPieces
  <2>4. FlattenSeq(In(b)) \in Seq(S)
    BY <2>3, FlattenType
  <2> QED
    BY <2>4, CMineType
<1> HIDE DEF In
<1> QED
  BY <1>2, <1>3

LEMMA FindsType ==
  ASSUME NEW found \in Finds
  PROVE  found[3] \subseteq Seq(Lpns)
<1> DEFINE FullSequences == [1 .. AccessSequenceLength -> Lpns]
           Buckets(s) == [PageSets(s, LshSplit) -> 1 .. AccessSequenceLength \div LshSplit]
<1>c. /\ AccessSequenceLength \in Nat /\ SimpleSplit \in Nat \ {0}
      /\ CMinerSplit \in Nat \ {0} /\ CMinerDepth \in Nat /\ CMinerDepth >= 3
      /\ LshSplit \in Nat \ {0} /\ LshDepth \in Nat /\ LshDepth >= 3
  BY CpftlAssumption
<1>s. \A s \in FullSequences : s \in Seq(Lpns)
  BY <1>c
<1>1. \/ \E s \in FullSequences : found = <<"simple", s, SimpleMine(s, SimpleSplit)>>
      \/ \E s \in FullSequences : found = <<"cminer", s, CMine(s, CMinerSplit, CMinerDepth)>>
      \/ \E s \in FullSequences : \E bucketOf \in Buckets(s) :
           found = <<"lsh", s, LshMine(s, LshSplit, LshDepth, bucketOf)>>
  <2> HIDE DEF FullSequences, Buckets
  <2> QED
    BY DEF Finds, FullSequences, Buckets
<1> HIDE DEF FullSequences, Buckets
<1>2. CASE \E s \in FullSequences : found = <<"simple", s, SimpleMine(s, SimpleSplit)>>
  BY <1>c, <1>s, <1>2, SimpleMineType
<1>3. CASE \E s \in FullSequences : found = <<"cminer", s, CMine(s, CMinerSplit, CMinerDepth)>>
  BY <1>c, <1>s, <1>3, CMineType
<1>4. CASE \E s \in FullSequences : \E bucketOf \in Buckets(s) :
           found = <<"lsh", s, LshMine(s, LshSplit, LshDepth, bucketOf)>>
  BY <1>c, <1>s, <1>4, LshMineType
<1> QED
  BY <1>1, <1>2, <1>3, <1>4

-----------------------------------------------------------------------------
(* What the actor's mailbox holds of the reads.                            *)

Messages == {NewAccess(l) : l \in Lpns} \cup {NewSequence(s) : s \in Seq(Lpns)}

SequenceIn(m)  == IF m.type = "NewSequence" THEN m.seq ELSE << >>
AccessIn(m)    == IF m.type = "NewAccess" THEN << m.lpn >> ELSE << >>
Waiting(box)   == FlattenSeq([i \in DOMAIN box |-> SequenceIn(box[i])])
Unseen(box)    == FlattenSeq([i \in DOMAIN box |-> AccessIn(box[i])])

(* A message carries one access or one sequence.                           *)
LEMMA MessageParts ==
  ASSUME NEW m \in Messages
  PROVE  /\ SequenceIn(m) \in Seq(Lpns) /\ AccessIn(m) \in Seq(Lpns)
         /\ m.type = "NewAccess" =>
              m.lpn \in Lpns /\ SequenceIn(m) = << >> /\ AccessIn(m) = << m.lpn >>
         /\ m.type = "NewSequence" =>
              m.seq \in Seq(Lpns) /\ SequenceIn(m) = m.seq /\ AccessIn(m) = << >>
<1>e. << >> \in Seq(Lpns)
  BY EmptySeq
<1>1. CASE \E l \in Lpns : m = NewAccess(l)
  <2> PICK l \in Lpns : m = NewAccess(l)
    BY <1>1
  <2> QED
    BY <1>e DEF NewAccess, SequenceIn, AccessIn
<1>2. CASE \E s \in Seq(Lpns) : m = NewSequence(s)
  <2> PICK s \in Seq(Lpns) : m = NewSequence(s)
    BY <1>2
  <2> QED
    BY <1>e DEF NewSequence, SequenceIn, AccessIn
<1> QED
  BY <1>1, <1>2 DEF Messages

(* The parts of a mailbox; what sending and receiving a message does to    *)
(* them.                                                                   *)
LEMMA BoxParts ==
  ASSUME NEW box \in Seq(Messages)
  PROVE  /\ [i \in DOMAIN box |-> SequenceIn(box[i])] \in Seq(Seq(Lpns))
         /\ [i \in DOMAIN box |-> AccessIn(box[i])] \in Seq(Seq(Lpns))
<1>1. Len(box) \in Nat /\ DOMAIN box = 1 .. Len(box)
  BY LenProperties
<1>2. \A i \in 1 .. Len(box) : box[i] \in Messages
  BY ElementOfSeq
<1>3. \A i \in 1 .. Len(box) : SequenceIn(box[i]) \in Seq(Lpns) /\ AccessIn(box[i]) \in Seq(Lpns)
  BY <1>2, MessageParts
<1>4. /\ [i \in 1 .. Len(box) |-> SequenceIn(box[i])] \in [1 .. Len(box) -> Seq(Lpns)]
      /\ [i \in 1 .. Len(box) |-> AccessIn(box[i])] \in [1 .. Len(box) -> Seq(Lpns)]
  BY <1>3
<1>5. \A f : f \in [1 .. Len(box) -> Seq(Lpns)] => f \in Seq(Seq(Lpns))
  BY <1>1
<1> QED
  BY <1>1, <1>4, <1>5

LEMMA BoxAppend ==
  ASSUME NEW box \in Seq(Messages), NEW m \in Messages
  PROVE  /\ Waiting(box) \in Seq(Lpns) /\ Unseen(box) \in Seq(Lpns)
         /\ Waiting(Append(box, m)) = Waiting(box) \o SequenceIn(m)
         /\ Unseen(Append(box, m)) = Unseen(box) \o AccessIn(m)
<1> DEFINE S(b) == [i \in DOMAIN b |-> SequenceIn(b[i])]
           A(b) == [i \in DOMAIN b |-> AccessIn(b[i])]
<1>1. S(box) \in Seq(Seq(Lpns)) /\ A(box) \in Seq(Seq(Lpns))
  BY BoxParts
<1>2. S(Append(box, m)) = Append(S(box), SequenceIn(m))
  OBVIOUS
<1>3. A(Append(box, m)) = Append(A(box), AccessIn(m))
  OBVIOUS
<1>4. SequenceIn(m) \in Seq(Lpns) /\ AccessIn(m) \in Seq(Lpns)
  BY MessageParts
<1>5. /\ Waiting(box) = FlattenSeq(S(box)) /\ Unseen(box) = FlattenSeq(A(box))
      /\ Waiting(Append(box, m)) = FlattenSeq(S(Append(box, m)))
      /\ Unseen(Append(box, m)) = FlattenSeq(A(Append(box, m)))
  BY DEF Waiting, Unseen
<1> HIDE DEF S, A
<1>6. FlattenSeq(Append(S(box), SequenceIn(m))) = FlattenSeq(S(box)) \o SequenceIn(m)
  BY <1>1, <1>4, FlattenAppend
<1>7. FlattenSeq(Append(A(box), AccessIn(m))) = FlattenSeq(A(box)) \o AccessIn(m)
  BY <1>1, <1>4, FlattenAppend
<1>8. FlattenSeq(S(box)) \in Seq(Lpns) /\ FlattenSeq(A(box)) \in Seq(Lpns)
  BY <1>1, FlattenType
<1> QED
  BY <1>2, <1>3, <1>5, <1>6, <1>7, <1>8

LEMMA BoxHead ==
  ASSUME NEW box \in Seq(Messages), box # << >>
  PROVE  /\ Head(box) \in Messages /\ Tail(box) \in Seq(Messages)
         /\ Waiting(Tail(box)) \in Seq(Lpns) /\ Unseen(Tail(box)) \in Seq(Lpns)
         /\ Waiting(box) = SequenceIn(Head(box)) \o Waiting(Tail(box))
         /\ Unseen(box) = AccessIn(Head(box)) \o Unseen(Tail(box))
<1> DEFINE S(b) == [i \in DOMAIN b |-> SequenceIn(b[i])]
           A(b) == [i \in DOMAIN b |-> AccessIn(b[i])]
           m == Head(box)
           rest == Tail(box)
<1>1. m \in Messages /\ rest \in Seq(Messages)
  BY HeadTailProperties
<1>4. SequenceIn(m) \in Seq(Lpns) /\ AccessIn(m) \in Seq(Lpns)
  BY <1>1, MessageParts
<1>2. S(box) = << SequenceIn(m) >> \o S(rest)
  OBVIOUS
<1>3. A(box) = << AccessIn(m) >> \o A(rest)
  OBVIOUS
<1>5. S(rest) \in Seq(Seq(Lpns)) /\ A(rest) \in Seq(Seq(Lpns))
  <2> HIDE DEF rest
  <2> QED
    BY <1>1, BoxParts
<1>6. /\ Waiting(box) = FlattenSeq(S(box)) /\ Unseen(box) = FlattenSeq(A(box))
      /\ Waiting(rest) = FlattenSeq(S(rest)) /\ Unseen(rest) = FlattenSeq(A(rest))
  BY DEF Waiting, Unseen
<1> HIDE DEF S, A, m, rest
<1>7. FlattenSeq(<< SequenceIn(m) >> \o S(rest)) = SequenceIn(m) \o FlattenSeq(S(rest))
  BY <1>4, <1>5, FlattenCons
<1>8. FlattenSeq(<< AccessIn(m) >> \o A(rest)) = AccessIn(m) \o FlattenSeq(A(rest))
  BY <1>4, <1>5, FlattenCons
<1>9. FlattenSeq(S(rest)) \in Seq(Lpns) /\ FlattenSeq(A(rest)) \in Seq(Lpns)
  BY <1>5, FlattenType
<1> QED
  BY <1>1, <1>2, <1>3, <1>6, <1>7, <1>8, <1>9 DEF m, rest

(* The sequence variables, and AccessesInOrder, which is inductive with it. *)
OrderInv ==
  /\ mailbox \in Seq(Messages)
  /\ mined \in Seq(Seq(Lpns))
  /\ accessSequence \in Seq(Lpns)
  /\ reads \in Seq(Lpns)
  /\ reads = ((FlattenSeq(mined) \o Waiting(mailbox)) \o accessSequence) \o Unseen(mailbox)

(* OrderInv contains AccessesInOrder.                                      *)
LEMMA OrderAsStated ==
  OrderInv => AccessesInOrder
<1> QED
  BY DEF OrderInv, AccessesInOrder, Waiting, Unseen, SequenceIn, AccessIn

(* Regrouping of concatenations.                                           *)
LEMMA ConcatRegrouped ==
  \A a, b, c \in Seq(Lpns) : (a \o b) \o c = a \o (b \o c)
BY ConcatAssociative, SMTT(30)

(* Every step keeps the order of the reads.                                *)
LEMMA OrderStep ==
  OrderInv /\ [Next]_vars => OrderInv'
<1> SUFFICES ASSUME OrderInv, [Next]_vars
             PROVE  OrderInv'
  OBVIOUS
<1> DEFINE F == FlattenSeq(mined)
           W == Waiting(mailbox)
           U == Unseen(mailbox)
<1>t. /\ F \in Seq(Lpns) /\ << >> \in Seq(Lpns)
      /\ mailbox \in Seq(Messages) /\ mined \in Seq(Seq(Lpns))
      /\ accessSequence \in Seq(Lpns) /\ reads \in Seq(Lpns)
      /\ reads = ((F \o W) \o accessSequence) \o U
  BY FlattenType, EmptySeq DEF OrderInv
<1>1. CASE Read
  <2>1. PICK l \in Lpns : /\ reads' = Append(reads, l)
                          /\ mailbox' = Append(mailbox, NewAccess(l))
    BY <1>1 DEF Read
  <2>2. UNCHANGED <<mined, accessSequence>>
    BY <1>1 DEF Read, actorVars
  <2>3. NewAccess(l) \in Messages /\ NewAccess(l).type = "NewAccess" /\ NewAccess(l).lpn = l
    BY DEF Messages, NewAccess
  <2>4. SequenceIn(NewAccess(l)) = << >> /\ AccessIn(NewAccess(l)) = << l >>
    BY <2>3, MessageParts
  <2>5. /\ W \in Seq(Lpns) /\ U \in Seq(Lpns)
        /\ Waiting(mailbox') = W \o << >> /\ Unseen(mailbox') = U \o << l >>
    BY <1>t, <2>1, <2>3, <2>4, BoxAppend
  <2>6. W \o << >> = W
    BY <2>5, ConcatEmptySeq
  <2> DEFINE b == F \o W
             q == << l >>
  <2>7. b \in Seq(Lpns) /\ q \in Seq(Lpns)
    BY <1>t, <2>5, ConcatProperties
  <2>8. reads' = reads \o q
    BY <1>t, <2>1, AppendIsConcat
  <2> HIDE DEF F, W, U, b, q
  <2>9. (b \o accessSequence) \o (U \o q) = ((b \o accessSequence) \o U) \o q
    <3>1. U \in Seq(Lpns) /\ accessSequence \in Seq(Lpns)
      BY <1>t, <2>5
    <3>2. b \in Seq(Lpns)
      BY <2>7
    <3>3. q \in Seq(Lpns)
      BY <2>7
    <3>4. b \o accessSequence \in Seq(Lpns)
      BY <3>1, <3>2, ConcatProperties
    <3> QED
      BY <3>1, <3>3, <3>4, ConcatRegrouped, Zenon
  <2>10. reads' = ((FlattenSeq(mined') \o Waiting(mailbox')) \o accessSequence') \o Unseen(mailbox')
    BY <1>t, <2>2, <2>5, <2>6, <2>8, <2>9 DEF F, b, q
  <2>11. mailbox' \in Seq(Messages) /\ reads' \in Seq(Lpns)
    BY <1>t, <2>1, <2>3, AppendProperties
  <2> QED
    BY <1>t, <2>2, <2>10, <2>11 DEF OrderInv
<1>2. CASE Prefetch \/ UNCHANGED vars
  <2> UNCHANGED <<mailbox, mined, accessSequence, reads>>
    BY <1>2 DEF Prefetch, vars, actorVars, readVars
  <2> QED
    BY DEF OrderInv, Waiting, Unseen
<1>3. CASE ReceiveAccess
  <2> DEFINE m == Head(mailbox)
             rest == Tail(mailbox)
             seq == Append(accessSequence, m.lpn)
             R == Waiting(rest)
             V == Unseen(rest)
  <2>1. mailbox # << >> /\ m.type = "NewAccess" /\ UNCHANGED <<mined, reads>>
    BY <1>3 DEF ReceiveAccess, readVars
  <2>2. /\ m \in Messages /\ rest \in Seq(Messages)
        /\ R \in Seq(Lpns) /\ V \in Seq(Lpns)
        /\ W = SequenceIn(m) \o R /\ U = AccessIn(m) \o V
    BY <1>t, <2>1, BoxHead
  <2>3. m.lpn \in Lpns /\ SequenceIn(m) = << >> /\ AccessIn(m) = << m.lpn >>
    BY <2>1, <2>2, MessageParts
  <2>4. W = R
    BY <2>2, <2>3, ConcatEmptySeq
  <2>5. seq \in Seq(Lpns) /\ seq = accessSequence \o << m.lpn >>
    BY <1>t, <2>3, AppendIsConcat, AppendProperties
  <2> DEFINE b == F \o R
             q == << m.lpn >>
  <2>6. b \in Seq(Lpns) /\ q \in Seq(Lpns)
    BY <1>t, <2>2, <2>3, ConcatProperties
  <2>7. reads = (b \o seq) \o V
    <3>1. reads = (b \o accessSequence) \o (q \o V)
      BY <1>t, <2>2, <2>3, <2>4
    <3> HIDE DEF b, q, V
    <3>2. V \in Seq(Lpns)
      BY <2>2 DEF V
    <3>3. b \in Seq(Lpns)
      BY <2>6
    <3>5. q \in Seq(Lpns)
      BY <2>6
    <3>6. accessSequence \in Seq(Lpns)
      BY <1>t
    <3>4. (b \o accessSequence) \o (q \o V) = (b \o (accessSequence \o q)) \o V
      <4>1. b \o accessSequence \in Seq(Lpns)
        BY <3>3, <3>6, ConcatProperties
      <4>2. ((b \o accessSequence) \o q) \o V = (b \o accessSequence) \o (q \o V)
        BY <3>2, <3>5, <4>1, ConcatRegrouped, Zenon
      <4>3. (b \o accessSequence) \o q = b \o (accessSequence \o q)
        BY <3>3, <3>5, <3>6, ConcatRegrouped, Zenon
      <4> QED
        BY <4>2, <4>3, Zenon
    <3> QED
      BY <3>1, <3>4, <2>5 DEF q
  <2>8. CASE Full(seq)
    <3>1. accessSequence' = << >> /\ mailbox' = Append(rest, NewSequence(seq))
      BY <1>3, <2>8 DEF ReceiveAccess, NextSequence
    <3> HIDE DEF seq, rest, R, V, b, F
    <3>2. /\ NewSequence(seq) \in Messages
          /\ NewSequence(seq).type = "NewSequence" /\ NewSequence(seq).seq = seq
      BY <2>5 DEF Messages, NewSequence
    <3>3. SequenceIn(NewSequence(seq)) = seq /\ AccessIn(NewSequence(seq)) = << >>
      BY <3>2, MessageParts
    <3>4. Waiting(mailbox') = R \o seq /\ Unseen(mailbox') = V \o << >>
      BY <2>2, <3>1, <3>2, <3>3, BoxAppend DEF R, V
    <3>5. V \o << >> = V
      BY <2>2, ConcatEmptySeq
    <3>r. R \in Seq(Lpns) /\ F \in Seq(Lpns) /\ seq \in Seq(Lpns)
      BY <1>t, <2>2, <2>5 DEF R
    <3>6. reads = ((F \o (R \o seq)) \o << >>) \o V
      <4>1. (F \o R) \o seq = F \o (R \o seq)
        BY <3>r, ConcatRegrouped, Zenon
      <4>2. F \o (R \o seq) \in Seq(Lpns)
        BY <3>r, ConcatProperties
      <4>3. (F \o (R \o seq)) \o << >> = F \o (R \o seq)
        BY <4>2, ConcatEmptySeq
      <4> QED
        BY <4>1, <4>3, <2>7 DEF b
    <3>7. reads' = ((FlattenSeq(mined') \o Waiting(mailbox')) \o accessSequence') \o Unseen(mailbox')
      BY <2>1, <3>1, <3>4, <3>5, <3>6 DEF F
    <3>8. mailbox' \in Seq(Messages)
      BY <2>2, <3>1, <3>2, AppendProperties
    <3> QED
      BY <1>t, <2>1, <3>1, <3>7, <3>8 DEF OrderInv
  <2>9. CASE ~Full(seq)
    <3>1. accessSequence' = seq /\ mailbox' = rest
      BY <1>3, <2>9 DEF ReceiveAccess
    <3>2. reads' = ((FlattenSeq(mined') \o Waiting(mailbox')) \o accessSequence') \o Unseen(mailbox')
      BY <2>1, <2>7, <3>1
    <3> QED
      BY <1>t, <2>1, <2>2, <2>5, <3>1, <3>2 DEF OrderInv
  <2> QED
    BY <2>8, <2>9
<1>4. CASE ReceiveSequence
  <2> DEFINE m == Head(mailbox)
             rest == Tail(mailbox)
             seq == m.seq
             R == Waiting(rest)
             V == Unseen(rest)
  <2>1. /\ mailbox # << >> /\ m.type = "NewSequence"
        /\ mined' = Append(mined, seq) /\ mailbox' = rest
        /\ UNCHANGED <<accessSequence, reads>>
    BY <1>4 DEF ReceiveSequence, readVars
  <2>2. /\ m \in Messages /\ rest \in Seq(Messages)
        /\ R \in Seq(Lpns) /\ V \in Seq(Lpns)
        /\ W = SequenceIn(m) \o R /\ U = AccessIn(m) \o V
    BY <1>t, <2>1, BoxHead
  <2>3. seq \in Seq(Lpns) /\ SequenceIn(m) = seq /\ AccessIn(m) = << >>
    BY <2>1, <2>2, MessageParts
  <2>4. FlattenSeq(mined') = F \o seq /\ mined' \in Seq(Seq(Lpns))
    BY <1>t, <2>1, <2>3, FlattenAppend, AppendProperties
  <2>5. (F \o seq) \o R = F \o (seq \o R) /\ << >> \o V = V
    <3>1. << >> \o V = V
      BY <2>2, ConcatEmptySeq
    <3> HIDE DEF F, seq, R
    <3>2. R \in Seq(Lpns)
      BY <2>2 DEF R
    <3>f. F \in Seq(Lpns)
      BY <1>t
    <3>g. seq \in Seq(Lpns)
      BY <2>3
    <3>3. (F \o seq) \o R = F \o (seq \o R)
      BY <3>g, <3>f, <3>2, ConcatRegrouped, Zenon
    <3> QED
      BY <3>1, <3>3
  <2>6. reads = (((F \o seq) \o R) \o accessSequence) \o V
    BY <1>t, <2>2, <2>3, <2>5
  <2> QED
    BY <1>t, <2>1, <2>2, <2>4, <2>6 DEF OrderInv
<1> QED
  BY <1>1, <1>2, <1>3, <1>4 DEF Next

(* The types, which rest on those of the mailbox.                          *)
LEMMA TypeStep ==
  OrderInv /\ TypeOK /\ [Next]_vars => TypeOK'
<1> SUFFICES ASSUME OrderInv, TypeOK, [Next]_vars
             PROVE  TypeOK'
  OBVIOUS
<1>n. AccessSequenceLength \in Nat \ {0}
  BY CpftlAssumption
<1>1. CASE Read
  <2>1. PICK l \in Lpns : reading' = {l} /\ reads' = Append(reads, l)
    BY <1>1 DEF Read
  <2>2. prefetched' = {} /\ UNCHANGED <<accessSequence, tree>>
    BY <1>1 DEF Read, actorVars
  <2>3. reads' \in Seq(Lpns)
    BY <2>1, AppendProperties DEF TypeOK
  <2> QED
    BY <2>1, <2>2, <2>3 DEF TypeOK
<1>2. CASE Prefetch
  <2>0. PICK l \in reading :
          \E found \in {{}} \cup Search(l) : prefetched' = UNION {ToSet(s) : s \in found}
    BY <1>2 DEF Prefetch
  <2>1. PICK found \in {{}} \cup Search(l) : prefetched' = UNION {ToSet(s) : s \in found}
    BY <2>0
  <2>2. reading' = {} /\ UNCHANGED <<reads, accessSequence, tree>>
    BY <1>2 DEF Prefetch, actorVars
  <2>3. found \subseteq tree
    BY DEF Search
  <2>4. \A s \in found : ToSet(s) \subseteq Lpns
    <3> TAKE s \in found
    <3>1. s \in Seq(Lpns)
      BY <2>3 DEF TypeOK
    <3> QED
      BY <3>1, ElementOfSeq DEF ToSet
  <2>5. prefetched' \subseteq Lpns
    BY <2>1, <2>4
  <2> QED
    BY <2>2, <2>5 DEF TypeOK
<1>3. CASE ReceiveAccess
  <2> DEFINE m == Head(mailbox)
             seq == Append(accessSequence, m.lpn)
  <2>1. /\ mailbox # << >> /\ m.type = "NewAccess"
        /\ UNCHANGED <<tree, reading, prefetched, reads>>
    BY <1>3 DEF ReceiveAccess, readVars
  <2>2. m \in Messages
    BY <2>1, HeadTailProperties DEF OrderInv
  <2>3. m.lpn \in Lpns
    BY <2>1, <2>2, MessageParts
  <2>4. seq \in Seq(Lpns) /\ Len(seq) \in Nat
    BY <2>3, AppendProperties, LenProperties DEF TypeOK
  <2>5. CASE Full(seq)
    <3>1. accessSequence' = << >>
      BY <1>3, <2>5 DEF ReceiveAccess, NextSequence
    <3>2. << >> \in Seq(Lpns) /\ Len(<< >>) < AccessSequenceLength
      BY <1>n, EmptySeq
    <3> QED
      BY <2>1, <3>1, <3>2 DEF TypeOK
  <2>6. CASE ~Full(seq)
    <3>1. accessSequence' = seq
      BY <1>3, <2>6 DEF ReceiveAccess
    <3> HIDE DEF seq
    <3>2. Len(seq) < AccessSequenceLength
      BY <1>n, <2>4, <2>6 DEF Full
    <3> QED
      BY <2>1, <2>4, <3>1, <3>2 DEF TypeOK
  <2> QED
    BY <2>5, <2>6
<1>4. CASE ReceiveSequence
  <2>1. PICK found \in Finds : tree' = found[3]
    BY <1>4 DEF ReceiveSequence
  <2>2. UNCHANGED <<accessSequence, reading, prefetched, reads>>
    BY <1>4 DEF ReceiveSequence, readVars
  <2>3. tree' \subseteq Seq(Lpns)
    BY <2>1, FindsType
  <2> QED
    BY <2>2, <2>3 DEF TypeOK
<1>5. CASE UNCHANGED vars
  BY <1>5 DEF TypeOK, vars, actorVars, readVars
<1> QED
  BY <1>1, <1>2, <1>3, <1>4, <1>5 DEF Next

(* The initial states.                                                     *)
LEMMA OrderInit ==
  Init => OrderInv /\ TypeOK
<1> SUFFICES ASSUME Init
             PROVE  OrderInv /\ TypeOK
  OBVIOUS
<1>1. /\ mailbox = << >> /\ mined = << >> /\ accessSequence = << >> /\ reads = << >>
      /\ reading = {} /\ prefetched = {} /\ tree = {}
  BY DEF Init
<1>2. /\ << >> \in Seq(Messages) /\ << >> \in Seq(Seq(Lpns)) /\ << >> \in Seq(Lpns)
      /\ << >> \o << >> = << >> /\ Len(<< >>) = 0
  BY EmptySeq, ConcatEmptySeq
<1>3. FlattenSeq(<< >>) = << >>
  BY <1>2, FlattenType
<1>4. Waiting(<< >>) = << >> /\ Unseen(<< >>) = << >>
  <2>1. /\ [i \in DOMAIN << >> |-> SequenceIn(<< >>[i])] = << >>
        /\ [i \in DOMAIN << >> |-> AccessIn(<< >>[i])] = << >>
    OBVIOUS
  <2> QED
    BY <1>3, <2>1 DEF Waiting, Unseen
<1>5. OrderInv
  BY <1>1, <1>2, <1>3, <1>4 DEF OrderInv
<1>6. TypeOK
  BY <1>1, <1>2, CpftlAssumption DEF TypeOK
<1> QED
  BY <1>5, <1>6

(* The inductive invariant.                                                *)
THEOREM OrderInvariant ==
  Spec => [](OrderInv /\ TypeOK)
<1>1. OrderInv /\ TypeOK /\ [Next]_vars => (OrderInv /\ TypeOK)'
  BY OrderStep, TypeStep
<1> QED
  BY <1>1, OrderInit, PTL DEF Spec

(* What the request thread and the actor share is well typed: the tree     *)
(* holds sequences of logical pages, whichever miner found them, and a     *)
(* read prefetches logical pages (CPFTL.scala, CMiner.scala,               *)
(* LSHMiner.scala).                                                        *)
THEOREM TypeCorrect ==
  Spec => []TypeOK
BY OrderInvariant, PTL

(* Every read reaches a miner once and in order: full sequences and single *)
(* accesses that pass each other in the actor's mailbox never mix.         *)
THEOREM ReadsMinedInOrder ==
  Spec => []AccessesInOrder
BY OrderInvariant, OrderAsStated, PTL
=============================================================================
