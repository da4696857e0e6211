---------------------------- MODULE MCSimulator -----------------------------
(* Small instances of Simulator for TLC; the .cfg gives the constants.     *)
EXTENDS Simulator
=============================================================================
