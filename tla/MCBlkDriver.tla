---------------------------- MODULE MCBlkDriver -----------------------------
(* Small instances of BlkDriver for TLC; the .cfg gives the constants.     *)
EXTENDS BlkDriver
=============================================================================
