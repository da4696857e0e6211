------------------------------- MODULE MCCpftl -------------------------------
(* A small instance of Cpftl for TLC; the .cfg gives the constants.         *)
EXTENDS Cpftl
==============================================================================
