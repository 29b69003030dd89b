----------------------------- MODULE MCVirtioBlk -----------------------------
(***************************************************************************)
(* One sector and a sector number beyond the end, two block contents,      *)
(* indices modulo 6 under queues of 3 and 4 entries: 4 does not divide 6,  *)
(* as 3, 5, 6 and 7 do not divide 2^16.                                    *)
(***************************************************************************)
EXTENDS VirtioBlkProps

SmallDisks == [{0} -> Blocks]

(* A disk behind another device, behind an older block device that hides   *)
(* it, and no disk at all.                                                 *)
SmallBuses ==
  {[i \in 0 .. 1 |-> slots[i + 1]] :
     slots \in {<<"other", "blk2">>, <<"blk1", "blk2">>, <<"empty", "other">>}}
=============================================================================
