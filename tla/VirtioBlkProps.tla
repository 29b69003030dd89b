--------------------------- MODULE VirtioBlkProps ---------------------------
(***************************************************************************)
(* What the driver and the device do to each other through their queue.    *)
(***************************************************************************)
EXTENDS VirtioBlk

Idx   == 0 .. IdxSize - 1
Rings == [0 .. QUEUE_SIZE - 1 -> Nat]
Block == Blocks \cup {None}

Drivers == [initialized : BOOLEAN, queue_size : 0 .. QUEUE_SIZE, last_used_idx : Idx]
Queues  == [avail_idx : Idx, avail_ring : Rings, used_idx : Idx, used_ring : Rings]
Frames  == [request : Store!Requests \cup {None}, status : {0, 1, 255}, data : Block]
Devices == [live : BOOLEAN, size : 0 .. QUEUE_SIZE, avail_idx : Idx, used_idx : Idx,
            kicked : BOOLEAN, phase : {"idle", "fetched", "served"},
            chain : Store!Requests \cup {None}, last_id : Nat,
            irq : {"clear", "due", "raised"}]

(* Every field keeps its type; the indices of the rings are u16.           *)
TypeOK ==
  /\ bus \in Buses
  /\ driver \in Drivers
  /\ at \in {"idle", "release", "publish", "notify", "poll", "take", "finish"}
  /\ req \in Store!Requests \cup {None}
  /\ old_avail_idx \in Idx /\ taken \in Nat
  /\ queue \in Queues /\ frame \in Frames /\ device \in Devices
  /\ pending \subseteq {"chain", "ring", "idx"}
  /\ disk \in [DOMAIN disk -> Blocks]

(* The four indices run from last_used_idx to avail.idx, at most one apart *)
(* across the wrap of u16, and meet whenever the driver is outside the     *)
(* part of do_rw_sector that waits: no reset by init(), no failed call and *)
(* no early return leaves a request outstanding or the rings out of step.  *)
Ahead(i) == (i - driver.last_used_idx) % IdxSize

Waiting == at \in {"notify", "poll", "take"}

IndicesAgree ==
  /\ device.used_idx = queue.used_idx
  /\ Ahead(queue.used_idx) <= Ahead(device.avail_idx)
  /\ Ahead(device.avail_idx) <= Ahead(queue.avail_idx)
  /\ Ahead(queue.avail_idx) <= (IF Waiting THEN 1 ELSE 0)

(* Whatever the device works on is the request of the call in progress, as *)
(* the caller described it: it never takes a descriptor chain from before  *)
(* the release fence or from an unwritten ring slot, and never reaches     *)
(* through a chain into the stack frame of a call that has returned.       *)
ServesTheCallInProgress ==
  device.phase # "idle" => at \in {"notify", "poll"} /\ device.chain = req /\ req # None

(* The element do_rw_sector takes from the used ring is the one the device *)
(* put there for this call, also where the indices wrap at 2^16 while the  *)
(* size of the queue does not divide it.                                   *)
ReadsOwnUsedElem == at = "finish" => taken = device.last_id

(* The driver and the device together are a block store: a request takes   *)
(* effect once, between its call and its return, and what the caller is    *)
(* told is what happened.                                                  *)
ImplementsStore == Store!StoreSpec

(* Every call returns, although it polls without a time-out: no            *)
(* notification is lost, provided that fences order memory before MMIO and *)
(* the device answers.                                                     *)
CallsReturn == (at # "idle") ~> (at = "idle")
=============================================================================
