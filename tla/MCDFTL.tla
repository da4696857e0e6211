------------------------------- MODULE MCDFTL -------------------------------
(* A small instance of DFTL for TLC; the constants are given by the .cfg.  *)
EXTENDS DFTL

(* Gc, the background thread's, never finds its goal missed between two    *)
(* operations: with two blocks in reserve it is one free block (FreeSpace).*)
(* MCEmulator has the instance in which it collects.                       *)
ASSUME NoBackgroundGc == ReserveBlocks \div 2 = 1

MCNext ==
  \/ \E l \in Lpns : Read(l) \/ Trim(l) \/ Cache(l) \/ Write(l)
  \/ WriteData
  \/ ForceGcStep

(* An operation that has started runs to its end: it holds the lock and    *)
(* waits for nothing.                                                      *)
MCSpec == Init /\ [][MCNext]_vars /\ WF_vars(WriteData \/ ForceGcStep)
=============================================================================
