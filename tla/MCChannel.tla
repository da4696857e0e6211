------------------------------ MODULE MCChannel ------------------------------
(* A small instance of Channel for TLC; the .cfg gives the constants.       *)
EXTENDS Channel
==============================================================================
