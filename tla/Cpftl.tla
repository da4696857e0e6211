-------------------------------- MODULE Cpftl --------------------------------
(***************************************************************************)
(* CPFTL.scala: reads send their page to an actor, which mines every       *)
(* accessSequenceLength of them and replaces the tree of correlations that *)
(* later reads prefetch from. The request thread and the actor share only  *)
(* the mailbox and the variable tree, which nothing guards.                *)
(*                                                                         *)
(* What a prefetch does to the mapping cache is DFTL's Prefetch.           *)
(***************************************************************************)
EXTENDS Miner

CONSTANTS
  Lpns,                      (* logical pages                               *)
  AccessSequenceLength,
  SimpleSplit,               (* SimpleMiner.splitSize                       *)
  CMinerSplit, CMinerDepth,  (* CMiner.splitSize, depth                     *)
  LshSplit, LshDepth,        (* LSHMiner.splitSize, depth                   *)
  MaxReads                   (* bound                                       *)

ASSUME CpftlAssumption ==
  /\ AccessSequenceLength \in Nat \ {0} /\ MinSupport \in Nat
  /\ SimpleSplit \in Nat \ {0} /\ MaxReads \in Nat
  /\ CMinerSplit \in Nat /\ LshSplit \in Nat
  /\ CMinerDepth \in 3 .. CMinerSplit /\ LshDepth \in 3 .. LshSplit

VARIABLES
  miner,            (* which Miner was configured                           *)
  reading,          (* the pages of the read between its send and its search*)
  mailbox,          (* of the actor, a FIFO                                 *)
  accessSequence,   (* the actor's                                          *)
  tree,             (* the sequences in the BloomFilterTreeNew              *)
  prefetched,       (* what the last read prefetched                        *)
  reads,            (* history: the pages read                              *)
  mined             (* history: the sequences mined                         *)

actorVars == <<accessSequence, tree, mined>>
readVars  == <<reading, prefetched, reads>>
vars      == <<miner, mailbox, actorVars, readVars>>

Miners == {"simple", "cminer", "lsh"}

NewAccess(l)   == [type |-> "NewAccess", lpn |-> l]
NewSequence(s) == [type |-> "NewSequence", seq |-> s]

Init ==
  /\ miner \in Miners
  /\ reading = {} /\ prefetched = {} /\ reads = << >>
  /\ mailbox = << >> /\ accessSequence = << >> /\ tree = {} /\ mined = << >>

-----------------------------------------------------------------------------
(* The request thread. A read tells the actor, and then searches the tree, *)
(* which the actor may have replaced in between.                           *)

Read ==
  /\ reading = {} /\ Len(reads) < MaxReads
  /\ \E l \in Lpns :
       /\ reading' = {l}
       /\ reads' = Append(reads, l)
       /\ mailbox' = Append(mailbox, NewAccess(l))
  /\ prefetched' = {}
  /\ UNCHANGED <<miner, actorVars>>

(* search gives every sequence with the page, and others whose filter has  *)
(* all its bits: none or all of them stand for the false positives.        *)
Search(l) == {{s \in tree : l \in ToSet(s)}, tree}

(* prefetch: only when the mapping of the page is not cached.              *)
Prefetch ==
  /\ reading # {}
  /\ \E l \in reading : \E found \in {{}} \cup Search(l) :
       prefetched' = UNION {ToSet(s) : s \in found}
  /\ reading' = {}
  /\ UNCHANGED <<miner, reads, mailbox, actorVars>>

-----------------------------------------------------------------------------
(* The actor.                                                              *)

FullTooLate(seq) == Len(seq) > AccessSequenceLength       (* mutant         *)
Full(seq)        == Len(seq) >= AccessSequenceLength

NextSequenceKept(seq) == seq                              (* mutant         *)
NextSequence(seq)     == << >>

ReceiveAccess ==
  /\ mailbox # << >> /\ Head(mailbox).type = "NewAccess"
  /\ LET seq == Append(accessSequence, Head(mailbox).lpn)
     IN  IF Full(seq)
         THEN /\ accessSequence' = NextSequence(seq)
              /\ mailbox' = Append(Tail(mailbox), NewSequence(seq))
         ELSE /\ accessSequence' = seq
              /\ mailbox' = Tail(mailbox)
  /\ UNCHANGED <<miner, tree, mined, readVars>>

(* What a miner may find in a full sequence: a set of triples of a miner,  *)
(* a sequence and its correlations, for mining depends on nothing else.    *)
Finds ==
  LET FullSequences == [1 .. AccessSequenceLength -> Lpns]
      Buckets(s)    == [PageSets(s, LshSplit) -> 1 .. AccessSequenceLength \div LshSplit]
  IN  {<<"simple", s, SimpleMine(s, SimpleSplit)>> : s \in FullSequences}
      \cup {<<"cminer", s, CMine(s, CMinerSplit, CMinerDepth)>> : s \in FullSequences}
      \cup UNION {{<<"lsh", s, LshMine(s, LshSplit, LshDepth, bucketOf)>> :
                     bucketOf \in Buckets(s)} : s \in FullSequences}

ReceiveSequence ==
  /\ mailbox # << >> /\ Head(mailbox).type = "NewSequence"
  /\ LET seq == Head(mailbox).seq
     IN  /\ \E found \in Finds :
              /\ found[1] = miner /\ found[2] = seq
              /\ tree' = found[3]
         /\ mined' = Append(mined, seq)
  /\ mailbox' = Tail(mailbox)
  /\ UNCHANGED <<miner, accessSequence, readVars>>

Actor == ReceiveAccess \/ ReceiveSequence

Next == Read \/ Prefetch \/ ReceiveAccess \/ ReceiveSequence

(* The actor's dispatcher runs it while it has messages.                   *)
Spec == Init /\ [][Next]_vars /\ WF_vars(Actor)

-----------------------------------------------------------------------------
(* Correctness.                                                            *)

TypeOK ==
  /\ reading \subseteq Lpns /\ prefetched \subseteq Lpns
  /\ accessSequence \in Seq(Lpns) /\ Len(accessSequence) < AccessSequenceLength
  /\ \A s \in tree : s \in Seq(Lpns)
  /\ reads \in Seq(Lpns)

(* Every read is mined once and in the order of the reads, although full   *)
(* sequences pass through the same mailbox as the accesses that follow     *)
(* them: what was mined, what waits to be mined, what is being collected   *)
(* and what the actor has not seen make up the reads.                      *)
AccessesInOrder ==
  LET SequenceIn(m) == IF m.type = "NewSequence" THEN m.seq ELSE << >>
      AccessIn(m)   == IF m.type = "NewAccess" THEN << m.lpn >> ELSE << >>
  IN  reads = FlattenSeq(mined)
              \o FlattenSeq([i \in DOMAIN mailbox |-> SequenceIn(mailbox[i])])
              \o accessSequence
              \o FlattenSeq([i \in DOMAIN mailbox |-> AccessIn(mailbox[i])])

(* CMiner's levels of grouped places find what counting finds.             *)
MinedAsCounted ==
  [][miner = "cminer" /\ mined' # mined =>
       tree' = Counted(Last(mined'), CMinerSplit, CMinerDepth)]_vars

(* In the end every accessSequenceLength reads have been mined.            *)
SequencesMined ==
  <>[](Len(mined) = Len(reads) \div AccessSequenceLength)
=============================================================================
