-------------------------------- MODULE Miner --------------------------------
(***************************************************************************)
(* The miners of CPFTL: SimpleMiner and CMiner (CMiner.scala) and LSHMiner *)
(* (LSHMiner.scala). A miner takes a sequence of accesses and gives a set  *)
(* of sequences of logical pages (the order of a Scala Map is not part of  *)
(* what it promises).                                                      *)
(***************************************************************************)
EXTENDS Integers, Sequences, SequencesExt

CONSTANT MinSupport

(* filter: SelectSeq, by a definition that proofs can expand.              *)
Where(seq, Test(_)) ==
  FlattenSeq([i \in DOMAIN seq |-> IF Test(seq[i]) THEN << seq[i] >> ELSE << >>])

Count(input, x) == Cardinality({i \in DOMAIN input : input[i] = x})

(* input.grouped(n): the last group may be shorter.                        *)
Grouped(input, n) ==
  [k \in 1 .. (Len(input) + n - 1) \div n |->
     SubSeq(input, (k - 1) * n + 1, IF k * n < Len(input) THEN k * n ELSE Len(input))]

SimpleMine(input, splitSize) == ToSet(Grouped(input, splitSize))

-----------------------------------------------------------------------------
(* CMiner. A CMinerSubsequence stands for one place where seq followed by  *)
(* next was found: next is at pos of split. The places are a list, for     *)
(* frequentSubsequence counts them, the same place more than once when it  *)
(* is reached in different ways.                                           *)

Place(seq, split, pos, fatherSupport) ==
  [seq |-> seq, next |-> split[pos], split |-> split, pos |-> pos,
   father_support |-> fatherSupport, support |-> 0]

FirstOfSplit(input, split) ==
  FlattenSeq([i \in 1 .. Len(split) |->
    [j \in 1 .. Len(split) - i |->
       Place(<<split[i]>>, split, i + j, Count(input, split[i]))]])

Frequent(input) == Where(input, LAMBDA x : Count(input, x) >= MinSupport)

FirstLevelSubSequences(input, splitSize) ==
  LET splits == Grouped(Frequent(input), splitSize)
  IN  FlattenSeq([k \in DOMAIN splits |-> FirstOfSplit(input, splits[k])])

(* Mutant: a place may be followed by itself. *)
NextLevelFromHere(list) ==
  IF list = << >> THEN << >>
  ELSE LET seq == Append(Head(list).seq, Head(list).next)
       IN  FlattenSeq([i \in DOMAIN list |->
             [j \in 1 .. Len(list[i].split) - list[i].pos + 1 |->
                Place(seq, list[i].split, list[i].pos + j - 1, list[i].support)]])

(* Every place takes the sequence of the list's first place: the list is   *)
(* meant to be a group of places with the same one.                        *)
NextLevelSubSequence(list) ==
  IF list = << >> THEN << >>
  ELSE LET seq == Append(Head(list).seq, Head(list).next)
       IN  FlattenSeq([i \in DOMAIN list |->
             [j \in 1 .. Len(list[i].split) - list[i].pos |->
                Place(seq, list[i].split, list[i].pos + j, list[i].support)]])

Same(a, b) == a.seq = b.seq /\ a.next = b.next

(* groupBy identity; the group's first place is the key.                   *)
GroupOf(list, e) == Where(list, LAMBDA x : Same(x, e))
Keys(list) == {list[i] : i \in {k \in DOMAIN list : \A j \in 1 .. k - 1 : ~Same(list[j], list[k])}}

(* A group that is frequent, or much less frequent than its father.        *)
Kept(e, support) ==
  \/ support >= MinSupport
  \/ e.father_support >= MinSupport /\ support < e.father_support \div 2

FrequentSubsequence(list) ==
  {[i \in DOMAIN group |-> [group[i] EXCEPT !.support = Len(group)]] :
     group \in {GroupOf(list, e) : e \in {k \in Keys(list) : Kept(k, Len(GroupOf(list, k)))}}}

(* miningNext, one level after the other: groups[n] are those that level n *)
(* of the recursion, which ends at depth 1 or where nothing is frequent,   *)
(* passes on. The list that mine starts with is taken as it is only when   *)
(* level is the miner's depth.                                             *)
MiningNext(list, level, depth) ==
  LET Found(g, n) == FrequentSubsequence(IF n = depth THEN g ELSE NextLevelSubSequence(g))
      groups[n \in 0 .. level] ==
        IF n = 0 THEN {list}
        ELSE UNION {Found(g, level - n + 1) : g \in groups[n - 1]}
  IN  {Head(g) : g \in groups[level]}

CMine(input, splitSize, depth) ==
  {Append(e.seq, e.next) :
     e \in MiningNext(FirstLevelSubSequences(input, splitSize), depth - 2, depth)}

-----------------------------------------------------------------------------
(* LSHMiner: CMiner on the splits that fall into the same bucket. bucketOf *)
(* (LSHMinHash, a library under src/main/java) is a function of the set of *)
(* the pages of a split.                                                   *)

Splits(input, splitSize) == Where(Grouped(input, splitSize), LAMBDA s : Len(s) = splitSize)

PageSets(input, splitSize) == {ToSet(s) : s \in ToSet(Splits(input, splitSize))}

LshMine(input, splitSize, depth, bucketOf) ==
  LET In(b)   == Where(Splits(input, splitSize), LAMBDA s : bucketOf[ToSet(s)] = b)
      buckets == {b \in {bucketOf[x] : x \in DOMAIN bucketOf} : Len(In(b)) >= MinSupport}
  IN  UNION {CMine(FlattenSeq(In(b)), splitSize, depth) : b \in buckets}

-----------------------------------------------------------------------------
(* What CMiner mines, by counting. An embedding of tail in a split is the  *)
(* places of any two pages followed by those of the members of tail.       *)

Embeddings(split, tail) ==
  {places \in kSubset(Len(tail) + 2, DOMAIN split) :
     \A p \in places :
       LET rank == Cardinality({q \in places : q <= p})
       IN  rank > 2 => split[p] = tail[rank - 2]}

Support(splits, tail) ==
  Cardinality(UNION {{<<k, e>> : e \in Embeddings(splits[k], tail)} : k \in DOMAIN splits})

(* The tails that are kept, with all their prefixes.                       *)
TailKept(splits, tail) ==
  \A n \in DOMAIN tail :
    LET now  == Support(splits, SubSeq(tail, 1, n))
        then == Support(splits, SubSeq(tail, 1, n - 1))
    IN  \/ now >= MinSupport
        \/ n > 1 /\ 0 < now /\ now < then \div 2

(* All of them are given the same two first pages, those of the input: the *)
(* first level is never grouped, for mine starts two levels below depth.   *)
Counted(input, splitSize, depth) ==
  LET frequent == Frequent(input)
      splits   == Grouped(frequent, splitSize)
  IN  {SubSeq(frequent, 1, 2) \o tail :
         tail \in {t \in [1 .. depth - 2 -> ToSet(frequent)] : TailKept(splits, t)}}
=============================================================================
