--------------------------- MODULE MCEmulatedDisk ---------------------------
(* Small instances of EmulatedDisk for TLC; the .cfg gives the constants.  *)
EXTENDS EmulatedDisk
=============================================================================
