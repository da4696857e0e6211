---------------------------- MODULE ChannelProofs ----------------------------
(* Theorems about Channel and their proofs: for all delays and start times, *)
(* and any number of events.                                                *)
EXTENDS Channel, WellFoundedInduction, TLAPS

------------------------------------------------------------------------------
(* The first and the last entry of a table.                                 *)

LEMMA LeastNatural ==
  ASSUME NEW S \in SUBSET Nat, S # {}
  PROVE  \E x \in S : \A y \in S : x <= y
<1> DEFINE R == {pair \in Nat \X Nat : pair[1] < pair[2]}
<1>1. IsWellFoundedOn(R, Nat)
  BY NatLessThanWellFounded DEF OpToRel
<1> HIDE DEF R
<1>2. PICK x \in S : \A y \in S : ~(<<y, x>> \in R)
  BY <1>1, WFMin
<1>3. \A y \in S : ~(y < x)
  BY <1>2 DEF R
<1> QED
  BY <1>3

LEMMA GreatestNatural ==
  ASSUME NEW S \in SUBSET Nat, S # {}, NEW b \in Nat, \A x \in S : x <= b
  PROVE  \E x \in S : \A y \in S : y <= x
<1> DEFINE T == {b - x : x \in S}
<1>1. T \in SUBSET Nat /\ T # {}
  <2>1. ASSUME NEW x \in S PROVE b - x \in Nat
    OBVIOUS
  <2> QED
    BY <2>1
<1>2. PICK n \in T : \A m \in T : n <= m
  BY <1>1, LeastNatural
<1>3. PICK x \in S : n = b - x
  OBVIOUS
<1>4. ASSUME NEW y \in S PROVE y <= x
  <2>1. b - x <= b - y
    BY <1>2, <1>3
  <2> QED
    BY <2>1
<1> QED
  BY <1>4

LEMMA FirstFacts ==
  ASSUME NEW live \in SUBSET Slots, live # {}
  PROVE  First(live) \in live /\ \A u \in live : First(live).lock <= u.lock
<1> DEFINE S == {t.lock : t \in live}
<1>1. S \in SUBSET Nat /\ S # {}
  BY DEF Slots
<1>2. PICK n \in S : \A m \in S : n <= m
  BY <1>1, LeastNatural
<1>3. \E t \in live : \A u \in live : t.lock <= u.lock
  BY <1>2
<1> QED
  BY <1>3 DEF First

LEMMA LastFacts ==
  ASSUME NEW live \in SUBSET Slots, live # {}, NEW b \in Nat, \A t \in live : t.lock <= b
  PROVE  Last(live) \in live /\ \A u \in live : u.lock <= Last(live).lock
<1> DEFINE S == {t.lock : t \in live}
<1>1. S \in SUBSET Nat /\ S # {} /\ \A x \in S : x <= b
  BY DEF Slots
<1>2. PICK n \in S : \A m \in S : m <= n
  BY <1>1, GreatestNatural
<1>3. \E t \in live : \A u \in live : u.lock <= t.lock
  BY <1>2
<1> QED
  BY <1>3 DEF Last

------------------------------------------------------------------------------
(* Where a new entry goes.                                                  *)

(* The table after unlock: what has not ended, end times bounded by b.      *)
Proper(live, start, b) ==
  /\ live \in SUBSET Slots
  /\ \A t \in live : t.lock < t.unlock /\ start < t.unlock /\ t.unlock <= b
  /\ \A t, u \in live : t # u => Disjoint(t, u)

(* The entry before a time at which there is room, if there is one.         *)
LEMMA EntryBefore ==
  ASSUME NEW live, NEW start \in Nat, NEW b \in Nat, Proper(live, start, b),
         NEW duration \in Nat \ {0}, NEW r \in Nat, IsFree(live, r, duration),
         NEW e \in live, e.unlock <= r
  PROVE  \E t \in live : /\ t.unlock <= r
                         /\ \A u \in live : u.lock > t.lock => u.lock - t.unlock >= duration
<1> DEFINE Ended == {t \in live : t.unlock <= r}
<1>1. Ended \in SUBSET Slots /\ Ended # {} /\ \A t \in Ended : t.lock <= b
  BY DEF Proper, Slots
<1>2. Last(Ended) \in Ended /\ \A u \in Ended : u.lock <= Last(Ended).lock
  BY <1>1, LastFacts
<1> DEFINE t == Last(Ended)
<1> HIDE DEF t
<1>3. t \in Ended /\ \A u \in Ended : u.lock <= t.lock
  BY <1>2 DEF t
<1>4. ASSUME NEW u \in live, u.lock > t.lock PROVE u.lock - t.unlock >= duration
  <2>1. u \notin Ended
    BY <1>3, <1>4 DEF Proper, Slots
  <2>2. u.lock >= r + duration
    BY <2>1 DEF IsFree, Disjoint
  <2> QED
    BY <1>3, <2>2 DEF Proper, Slots
<1> QED
  BY <1>3, <1>4

(* A new entry begins when it was asked for or later, and at a free time.   *)
LEMMA SchedFits ==
  ASSUME NEW live, NEW start \in Nat, NEW b \in Nat, Proper(live, start, b),
         NEW duration \in Nat \ {0}
  PROVE  /\ Sched(live, start, duration) \in Nat
         /\ Sched(live, start, duration) >= start
         /\ IsFree(live, Sched(live, start, duration), duration)
<1> DEFINE at == Sched(live, start, duration)
           gaps == FollowedByGap(live, duration)
<1>1. CASE live = {}
  BY <1>1 DEF Sched, IsFree
<1>2. CASE live # {} /\ First(live).lock - start >= duration
  <2>1. at = start
    BY <1>2 DEF Sched
  <2>2. ASSUME NEW t \in live PROVE start + duration <= t.lock
    BY <1>2, FirstFacts DEF Proper, Slots
  <2> QED
    BY <2>1, <2>2 DEF IsFree, Disjoint
<1>3. CASE live # {} /\ ~(First(live).lock - start >= duration) /\ gaps # {}
  <2>1. gaps \in SUBSET Slots /\ gaps \subseteq live
    BY DEF FollowedByGap, Proper
  <2>2. PICK f \in gaps : f = First(gaps)
    BY <1>3, <2>1, FirstFacts
  <2>3. at = f.unlock
    BY <1>3, <2>2 DEF Sched
  <2>4. f \in live /\ \A u \in live : u.lock > f.lock => u.lock - f.unlock >= duration
    BY DEF FollowedByGap
  <2>5. ASSUME NEW t \in live PROVE t.unlock <= f.unlock \/ f.unlock + duration <= t.lock
    <3>1. CASE t.lock > f.lock
      BY <2>4, <3>1 DEF Proper, Slots
    <3>2. CASE ~(t.lock > f.lock)
      BY <2>4, <3>2 DEF Proper, Slots, Disjoint
    <3> QED
      BY <3>1, <3>2
  <2>6. f.unlock \in Nat /\ f.unlock >= start
    BY <2>4 DEF Proper, Slots
  <2> QED
    BY <2>3, <2>5, <2>6 DEF IsFree, Disjoint
<1>4. CASE live # {} /\ ~(First(live).lock - start >= duration) /\ gaps = {}
  <2>1. \A t \in live : t.lock <= b
    BY DEF Proper, Slots
  <2>2. PICK l \in live : l = Last(live) /\ \A u \in live : u.lock <= l.lock
    BY <1>4, <2>1, LastFacts DEF Proper
  <2>3. at = l.unlock
    BY <1>4, <2>2 DEF Sched
  <2>4. ASSUME NEW t \in live PROVE t.unlock <= l.unlock
    BY <2>2 DEF Proper, Slots, Disjoint
  <2>5. l.unlock \in Nat /\ l.unlock >= start
    BY DEF Proper, Slots
  <2> QED
    BY <2>3, <2>4, <2>5 DEF IsFree, Disjoint
<1> QED
  BY <1>1, <1>2, <1>3, <1>4

(* No earlier time would have done.                                         *)
LEMMA SchedEarliest ==
  ASSUME NEW live, NEW start \in Nat, NEW b \in Nat, Proper(live, start, b),
         NEW duration \in Nat \ {0},
         NEW r \in start .. Sched(live, start, duration) - 1
  PROVE  ~IsFree(live, r, duration)
<1> DEFINE at == Sched(live, start, duration)
           gaps == FollowedByGap(live, duration)
<1>1. at \in Nat
  BY SchedFits
<1>2. r \in Nat /\ start <= r /\ r < at
  BY <1>1
<1> SUFFICES ASSUME IsFree(live, r, duration) PROVE FALSE
  OBVIOUS
<1>3. live # {} /\ ~(First(live).lock - start >= duration)
  BY <1>2 DEF Sched
<1>4. PICK e \in live : e.unlock <= r
  <2>1. First(live) \in live
    BY <1>3, FirstFacts DEF Proper
  <2>2. First(live).lock \in Nat /\ First(live).unlock \in Nat
    BY <2>1 DEF Proper, Slots
  <2>3. First(live).unlock <= r \/ r + duration <= First(live).lock
    BY <2>1 DEF IsFree, Disjoint
  <2> QED
    BY <1>2, <1>3, <2>1, <2>2, <2>3
<1>5. PICK t \in live : /\ t.unlock <= r
                        /\ \A u \in live : u.lock > t.lock => u.lock - t.unlock >= duration
  BY <1>2, <1>4, EntryBefore
<1>6. CASE gaps # {}
  <2>1. gaps \in SUBSET Slots /\ gaps \subseteq live
    BY DEF FollowedByGap, Proper
  <2>2. PICK f \in gaps : f = First(gaps) /\ \A u \in gaps : f.lock <= u.lock
    BY <1>6, <2>1, FirstFacts
  <2>3. at = f.unlock
    BY <1>3, <1>6, <2>2 DEF Sched
  <2>4. f.unlock > t.unlock
    BY <1>2, <1>5, <2>1, <2>3 DEF Proper, Slots
  <2>5. f.lock > t.lock
    BY <2>1, <2>4 DEF Proper, Slots, Disjoint
  <2>6. t \in gaps
    BY <1>5, <2>1, <2>5 DEF FollowedByGap
  <2> QED
    BY <2>1, <2>2, <2>5, <2>6 DEF Slots
<1>7. CASE gaps = {}
  <2>1. \A u \in live : u.lock <= b
    BY DEF Proper, Slots
  <2>2. PICK l \in live : l = Last(live)
    BY <1>3, <2>1, LastFacts DEF Proper
  <2>3. at = l.unlock
    BY <1>3, <1>7, <2>2 DEF Sched
  <2>4. l.lock > t.lock
    BY <1>2, <1>5, <2>3 DEF Proper, Slots, Disjoint
  <2>5. t \in gaps
    BY <1>5, <2>4 DEF FollowedByGap
  <2> QED
    BY <1>7, <2>5
<1> QED
  BY <1>6, <1>7
------------------------------------------------------------------------------
(* The inductive invariant.                                                 *)

(* A slot takes time; an entry of the table, or a granted slot, ends before *)
(* ready_at; what has left the table had ended by a time asked for; and     *)
(* what the runs check.                                                     *)
Good(s) ==
  /\ s.timings \in SUBSET Slots
  /\ s.ready_at \in Nat \cup {-1}
  /\ s.granted \in SUBSET [slot : Slots, late : BOOLEAN]
  /\ s.horizon \in Nat
  /\ \A t \in s.timings : t.lock < t.unlock /\ t.unlock <= s.ready_at
  /\ \A t, u \in s.timings : t # u => Disjoint(t, u)
  /\ \A g \in s.granted : /\ g.slot.unlock <= s.ready_at
                          /\ g.slot \in s.timings \/ g.slot.unlock <= s.horizon
  /\ \A g, h \in s.granted : g # h => g.late \/ h.late \/ Disjoint(g.slot, h.slot)

IInv == Good(channel) /\ issued \in 0 .. MaxEvents

(* After unlock the table is one that a lock can be put into.               *)
LEMMA LiveProper ==
  ASSUME NEW s, Good(s), NEW start \in Nat
  PROVE  \E b \in Nat : Proper(Live(s.timings, start), start, b)
<1>1. CASE Live(s.timings, start) = {}
  BY <1>1 DEF Proper
<1>2. CASE Live(s.timings, start) # {}
  <2>1. s.ready_at \in Nat
    BY <1>2 DEF Good, Live, Slots
  <2>2. Proper(Live(s.timings, start), start, s.ready_at)
    BY DEF Good, Live, Proper
  <2> QED
    BY <2>1, <2>2
<1> QED
  BY <1>1, <1>2

LEMMA LockKeepsGood ==
  ASSUME NEW s, Good(s), NEW start \in Nat, NEW duration \in Nat \ {0}
  PROVE  /\ Granted(s, start, duration).unlock \in Nat
         /\ Granted(s, start, duration).unlock >= start
         /\ Good(Lock(s, start, duration))
<1> DEFINE live == Live(s.timings, start)
           slot == Granted(s, start, duration)
           new  == [slot |-> slot, late |-> start < s.horizon]
           n    == Lock(s, start, duration)
<1>1. PICK b \in Nat : Proper(live, start, b)
  BY LiveProper
<1>2. /\ slot \in Slots /\ slot.unlock = slot.lock + duration /\ slot.lock >= start
      /\ \A t \in live : Disjoint(slot, t)
  BY <1>1, SchedFits DEF Granted, Slots, IsFree
<1>3. /\ n.timings = live \cup {slot}
      /\ n.ready_at = Later(s.ready_at, slot.unlock)
      /\ n.granted = s.granted \cup {new}
      /\ n.horizon = Later(s.horizon, start)
  BY DEF Lock
<1>4. slot.lock \in Nat /\ slot.unlock \in Nat
  BY <1>2 DEF Slots
<1>5. /\ live \in SUBSET s.timings
      /\ \A t \in s.timings : t \in live \/ t.unlock <= start
  BY DEF Live, Good, Slots
<1>6. /\ n.ready_at \in Nat /\ slot.unlock <= n.ready_at
      /\ \A x \in Nat : x <= s.ready_at => x <= n.ready_at
  BY <1>3, <1>4 DEF Good, Later
<1>7. /\ n.horizon \in Nat /\ start <= n.horizon
      /\ s.horizon <= n.horizon
  BY <1>3 DEF Good, Later
<1> HIDE DEF live, slot, n
<1>a. n.timings \in SUBSET Slots
  BY <1>2, <1>3, <1>5 DEF Good
<1>b. n.granted \in SUBSET [slot : Slots, late : BOOLEAN]
  <2>1. (start < s.horizon) \in BOOLEAN
    OBVIOUS
  <2>2. new \in [slot : Slots, late : BOOLEAN]
    BY <1>2, <2>1, Zenon
  <2>3. s.granted \in SUBSET [slot : Slots, late : BOOLEAN]
    BY DEF Good
  <2> QED
    BY <1>3, <2>2, <2>3, Zenon
<1>c. \A t \in n.timings : t.lock < t.unlock /\ t.unlock <= n.ready_at
  <2>1. \A t \in live : t.lock < t.unlock /\ t.unlock <= n.ready_at
    BY <1>5, <1>6 DEF Good, Slots
  <2> QED
    BY <1>2, <1>3, <1>4, <1>6, <2>1
<1>d. \A t, u \in n.timings : t # u => Disjoint(t, u)
  BY <1>2, <1>3, <1>5 DEF Good, Disjoint
<1>e. \A g \in n.granted : /\ g.slot.unlock <= n.ready_at
                           /\ g.slot \in n.timings \/ g.slot.unlock <= n.horizon
  <2>1. new.slot.unlock <= n.ready_at /\ new.slot \in n.timings
    BY <1>3, <1>6
  <2>2. ASSUME NEW g \in s.granted
        PROVE  /\ g.slot.unlock <= n.ready_at
               /\ g.slot \in n.timings \/ g.slot.unlock <= n.horizon
    <3>1. g.slot \in Slots /\ g.slot.unlock \in Nat
      BY DEF Good, Slots
    <3>2. g.slot.unlock <= n.ready_at
      <4>1. g.slot.unlock <= s.ready_at
        BY Zenon DEF Good
      <4> QED
        BY <1>6, <3>1, <4>1
    <3>3. CASE g.slot \in s.timings
      BY <1>3, <1>5, <1>7, <3>1, <3>2, <3>3
    <3>4. CASE g.slot.unlock <= s.horizon
      <4>1. s.horizon \in Nat
        BY DEF Good
      <4> QED
        BY <1>7, <3>1, <3>2, <3>4, <4>1
    <3> QED
      BY <3>3, <3>4 DEF Good
  <2> QED
    BY <1>3, <2>1, <2>2
<1>f. \A g, h \in n.granted : g # h => g.late \/ h.late \/ Disjoint(g.slot, h.slot)
  <2>1. ASSUME NEW g \in s.granted, ~(start < s.horizon)
        PROVE  Disjoint(g.slot, slot) /\ Disjoint(slot, g.slot)
    <3>1. g.slot.unlock \in Nat /\ g.slot.lock \in Nat /\ s.horizon \in Nat
      BY DEF Good, Slots
    <3>2. CASE g.slot \in live
      BY <1>2, <3>2 DEF Disjoint
    <3>3. CASE g.slot.unlock <= start
      BY <1>2, <1>4, <3>1, <3>3 DEF Disjoint
    <3>4. CASE g.slot.unlock <= s.horizon
      BY <1>2, <1>4, <2>1, <3>1, <3>4 DEF Disjoint
    <3> QED
      BY <1>5, <3>2, <3>3, <3>4 DEF Good
  <2>2. ASSUME NEW g \in s.granted
        PROVE  start < s.horizon \/ (Disjoint(g.slot, slot) /\ Disjoint(slot, g.slot))
    BY <2>1
  <2>3. ASSUME NEW g \in s.granted, NEW h \in s.granted, g # h
        PROVE  g.late \/ h.late \/ Disjoint(g.slot, h.slot)
    BY <2>3 DEF Good
  <2>4. new.slot = slot /\ (new.late <=> start < s.horizon)
    OBVIOUS
  <2> HIDE DEF new
  <2> QED
    BY <1>3, <2>2, <2>3, <2>4, Zenon
<1> QED
  BY <1>2, <1>4, <1>6, <1>7, <1>a, <1>b, <1>c, <1>d, <1>e, <1>f DEF Good, slot, n

LEMMA InitGood == Init => IInv
BY ChannelAssumption DEF Init, IInv, Good

LEMMA NextGood == IInv /\ [Next]_vars => IInv'
<1> SUFFICES ASSUME IInv, [Next]_vars PROVE IInv'
  OBVIOUS
<1> USE ChannelAssumption
<1>1. Times \subseteq Nat
  BY DEF Times
<1>2. CtrlDelay + DataDelay \in Nat \ {0}
  OBVIOUS
<1>3. CASE IssueRead
  <2>1. PICK start \in Times, taken \in Times :
          channel' = Lock(Lock(channel, start, CtrlDelay),
                          ReadyToSend(channel, start, taken), CtrlDelay + DataDelay)
    BY <1>3 DEF IssueRead
  <2>2. /\ Good(Lock(channel, start, CtrlDelay))
        /\ Granted(channel, start, CtrlDelay).unlock \in Nat
        /\ Granted(channel, start, CtrlDelay).unlock >= start
    BY <1>1, LockKeepsGood DEF IInv
  <2>3. ReadyToSend(channel, start, taken) \in Nat
    BY <1>1, <2>2 DEF ReadyToSend
  <2>4. Good(channel')
    BY <1>2, <2>1, <2>2, <2>3, LockKeepsGood
  <2> QED
    BY <1>3, <2>4 DEF IssueRead, Issue, IInv
<1>4. CASE IssueWrite
  <2>1. Good(channel')
    BY <1>1, <1>2, <1>4, LockKeepsGood DEF IssueWrite, IInv
  <2> QED
    BY <1>4, <2>1 DEF IssueWrite, Issue, IInv
<1>5. CASE IssueErase
  <2>1. Good(channel')
    BY <1>1, <1>5, LockKeepsGood DEF IssueErase, IInv
  <2> QED
    BY <1>5, <2>1 DEF IssueErase, Issue, IInv
<1>6. CASE UNCHANGED vars
  BY <1>6 DEF vars, IInv
<1> QED
  BY <1>3, <1>4, <1>5, <1>6 DEF Next

LEMMA AlwaysGood == Spec => []IInv
BY InitGood, NextGood, PTL DEF Spec

------------------------------------------------------------------------------
(* The theorems.                                                            *)

(* The state is well typed, and nothing that Channel::lock granted ends     *)
(* after ready_at.                                                          *)
THEOREM ChannelTypeOK == Spec => []TypeOK
<1>1. IInv => TypeOK
  <2> SUFFICES ASSUME IInv PROVE TypeOK
    OBVIOUS
  <2>1. /\ channel.timings \subseteq Slots
        /\ channel.ready_at \in Nat \cup {-1}
        /\ channel.horizon \in Nat
        /\ issued \in 0 .. MaxEvents
    BY DEF IInv, Good
  <2>2. /\ channel.granted \subseteq [slot : Slots, late : BOOLEAN]
        /\ \A g \in channel.granted : g.slot.unlock <= channel.ready_at
    BY Zenon DEF IInv, Good
  <2> QED
    BY <2>1, <2>2, Zenon DEF TypeOK
<1> QED
  BY <1>1, AlwaysGood, PTL

(* The entries of the table of Channel::lock are disjoint.                  *)
THEOREM ChannelExclusive == Spec => []TableExclusive
<1>1. IInv => TableExclusive
  BY DEF IInv, Good, TableExclusive
<1> QED
  BY <1>1, AlwaysGood, PTL

(* Channel::lock grants the first time that is long enough in its table.    *)
THEOREM ChannelFirstFit == Spec => []FirstFit
<1>1. IInv => FirstFit
  <2> SUFFICES ASSUME IInv, NEW start \in Times,
                      NEW duration \in {CtrlDelay, CtrlDelay + DataDelay}
               PROVE  LET live == Live(channel.timings, start)
                          at   == Sched(live, start, duration)
                      IN  /\ at >= start /\ IsFree(live, at, duration)
                          /\ \A t \in start .. at - 1 : ~IsFree(live, t, duration)
    BY DEF FirstFit
  <2>1. start \in Nat /\ duration \in Nat \ {0}
    BY ChannelAssumption DEF Times
  <2>2. PICK b \in Nat : Proper(Live(channel.timings, start), start, b)
    BY <2>1, LiveProper DEF IInv
  <2> QED
    BY <2>1, <2>2, SchedFits, SchedEarliest
<1> QED
  BY <1>1, AlwaysGood, PTL

(* Transmissions overlap only when one of them was asked for at a time that *)
(* Channel::unlock had already passed.                                      *)
THEOREM ChannelOverlapsOnlyLate == Spec => []ExclusiveUnlessLate
<1>1. IInv => ExclusiveUnlessLate
  BY DEF IInv, Good, ExclusiveUnlessLate
<1> QED
  BY <1>1, AlwaysGood, PTL
==============================================================================
