------------------------------ MODULE Channel -------------------------------
(***************************************************************************)
(* A bus channel of FlashSim, ssd_channel.cpp, with the locks that         *)
(* Controller::issue takes on it for each kind of event. A bus is one      *)
(* channel for every package, and an event locks only the channel of its   *)
(* package: the channels share nothing.                                    *)
(*                                                                         *)
(* Times are natural numbers. The table `timings` is a set: it is sorted   *)
(* before it is used, and its entries never start together, as             *)
(* TableExclusive says. An event comes from the host or from a translation *)
(* layer, which dates its events by the times it has added up itself: the  *)
(* start times follow no order.                                            *)
(***************************************************************************)
EXTENDS Integers

CONSTANTS
  CtrlDelay, DataDelay,    (* BUS_CTRL_DELAY, BUS_DATA_DELAY                *)
  PageReadDelay,           (* PAGE_READ_DELAY                               *)
  MaxTime,                 (* bound: start times, and time taken before     *)
  MaxEvents                (* bound: events issued                          *)

ASSUME ChannelAssumption ==
  /\ CtrlDelay \in Nat \ {0}
  /\ DataDelay \in Nat /\ PageReadDelay \in Nat /\ MaxTime \in Nat /\ MaxEvents \in Nat

VARIABLES
  channel,   (* timings and ready_at; and, of the past, the slots granted   *)
             (* and the latest start time that was asked for                *)
  issued     (* events issued                                               *)

vars == <<channel, issued>>

Times == 0 .. MaxTime
Slots == [lock : Nat, unlock : Nat]

Init ==
  /\ channel = [timings |-> {}, ready_at |-> -1, granted |-> {}, horizon |-> 0]
  /\ issued = 0

-----------------------------------------------------------------------------
(* Channel::lock.                                                          *)

Later(a, b) == IF a < b THEN b ELSE a

(* Mutant: what has begun is dropped. *)
LiveNotBegun(table, start) == {t \in table : t.lock > start}

(* unlock drops the entries that have ended.                               *)
Live(table, start) == {t \in table : t.unlock > start}

First(live) == CHOOSE t \in live : \A u \in live : t.lock <= u.lock
Last(live)  == CHOOSE t \in live : \A u \in live : u.lock <= t.lock

(* The entries with enough time between them and the next one.             *)
FollowedByGap(live, duration) ==
  {t \in live : /\ \E u \in live : u.lock > t.lock
                /\ \A u \in live : u.lock > t.lock => u.lock - t.unlock >= duration}

(* Mutant: the gap need not be long enough. *)
SchedAnyGap(live, start, duration) ==
  IF live = {} \/ First(live).lock > start THEN start
  ELSE IF FollowedByGap(live, 1) # {} THEN First(FollowedByGap(live, 1)).unlock
  ELSE Last(live).unlock

(* Mutant: no gap is used. *)
SchedLast(live, start, duration) ==
  IF live = {} THEN start ELSE Last(live).unlock

(* Before the first entry, or in the first gap that is long enough, or     *)
(* after the last entry.                                                   *)
Sched(live, start, duration) ==
  IF live = {} \/ First(live).lock - start >= duration THEN start
  ELSE IF FollowedByGap(live, duration) # {} THEN First(FollowedByGap(live, duration)).unlock
  ELSE Last(live).unlock

Granted(s, start, duration) ==
  LET at == Sched(Live(s.timings, start), start, duration)
  IN  [lock |-> at, unlock |-> at + duration]

Lock(s, start, duration) ==
  LET slot == Granted(s, start, duration)
  IN  [timings  |-> Live(s.timings, start) \cup {slot},
       ready_at |-> Later(s.ready_at, slot.unlock),
       granted  |-> s.granted \cup {[slot |-> slot, late |-> start < s.horizon]},
       horizon  |-> Later(s.horizon, start)]

-----------------------------------------------------------------------------
(* Controller::issue of one event; taken is the event's time_taken.        *)

Issue == issued < MaxEvents /\ issued' = issued + 1

(* Mutant: the start is taken off twice. *)
ReadyRelative(s, start, taken) ==
  taken + (Granted(s, start, CtrlDelay).unlock - start) + PageReadDelay - start

(* The time_taken of a read once the page is in the register. The second   *)
(* lock is asked for this time, without the event's start time.            *)
ReadyToSend(s, start, taken) ==
  taken + (Granted(s, start, CtrlDelay).unlock - start) + PageReadDelay

IssueRead ==
  /\ Issue
  /\ \E start, taken \in Times :
       channel' = Lock(Lock(channel, start, CtrlDelay),
                       ReadyToSend(channel, start, taken), CtrlDelay + DataDelay)

IssueWrite ==
  /\ Issue
  /\ \E start \in Times : channel' = Lock(channel, start, CtrlDelay + DataDelay)

(* An erase, or a merge.                                                   *)
IssueErase ==
  /\ Issue
  /\ \E start \in Times : channel' = Lock(channel, start, CtrlDelay)

Next == IssueRead \/ IssueWrite \/ IssueErase

Spec == Init /\ [][Next]_vars

-----------------------------------------------------------------------------
(* Correctness.                                                            *)

(* The state, and ready_at: no slot that was ever granted ends after it.   *)
TypeOK ==
  /\ channel.timings \subseteq Slots
  /\ channel.ready_at \in Nat \cup {-1}
  /\ channel.granted \subseteq [slot : Slots, late : BOOLEAN]
  /\ channel.horizon \in Nat
  /\ \A g \in channel.granted : g.slot.unlock <= channel.ready_at
  /\ issued \in 0 .. MaxEvents

Disjoint(t, u) == t.unlock <= u.lock \/ u.unlock <= t.lock

(* The channel carries one transmission at a time: the entries of its      *)
(* table are disjoint, although each new one is put between the others.    *)
TableExclusive ==
  \A t, u \in channel.timings : t # u => Disjoint(t, u)

IsFree(live, at, duration) ==
  \A t \in live : Disjoint([lock |-> at, unlock |-> at + duration], t)

(* "event is sent across bus as soon as bus channel is available":         *)
(* whatever is asked for next gets the first time that is long enough in   *)
(* what the table still knows of.                                          *)
FirstFit ==
  \A start \in Times, duration \in {CtrlDelay, CtrlDelay + DataDelay} :
    LET live == Live(channel.timings, start)
        at   == Sched(live, start, duration)
    IN  /\ at >= start /\ IsFree(live, at, duration)
        /\ \A t \in start .. at - 1 : ~IsFree(live, t, duration)

(* The table forgets what has ended, and start times follow no order. So   *)
(* two transmissions may overlap, but only when one of them was asked for  *)
(* at a time that an earlier event had already passed.                     *)
ExclusiveUnlessLate ==
  \A g, h \in channel.granted :
    g # h => g.late \/ h.late \/ Disjoint(g.slot, h.slot)
=============================================================================
