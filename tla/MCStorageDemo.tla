---------------------------- MODULE MCStorageDemo ----------------------------
(***************************************************************************)
(* Disks of one sector, too small for the demo, and of two sectors.        *)
(***************************************************************************)
EXTENDS StorageDemo

SmallDisks == [{0} -> Blocks] \cup [{0, 1} -> Blocks]
=============================================================================
