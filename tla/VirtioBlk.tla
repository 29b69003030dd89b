------------------------------ MODULE VirtioBlk ------------------------------
(***************************************************************************)
(* The virtio-blk driver of the storage crate and the device at the other  *)
(* end of its queue.  init() is one action (the device works on no queue   *)
(* before DRIVER_OK); do_rw_sector is cut at its fences and at every       *)
(* access to what the device writes.  The stores of the driver become      *)
(* visible to the device in any order the fences leave open.               *)
(***************************************************************************)
EXTENDS Integers

CONSTANTS Sectors, Blocks, Disks, None,     \* as in BlockStore
          IdxSize,        \* 2^16: the ring indices are u16
          QUEUE_SIZE,     \* 8 in the source
          MaxSizes,       \* what QUEUE_NUM_MAX may read
          Buses,          \* what may sit in the virtio-mmio slots
          UsedIds,        \* the ids the device returns; {0} if it conforms
          FenceOrdersIo   \* whether fence(SeqCst) also orders memory before MMIO

SlotKinds == {"empty", "other", "blk1", "blk2"}     \* block devices by version

ASSUME VirtioAssumption ==
  /\ QUEUE_SIZE \in Nat \ {0} /\ IdxSize \in Nat /\ IdxSize > QUEUE_SIZE
  /\ MaxSizes \subseteq Nat /\ UsedIds \subseteq Nat
  /\ \A bus \in Buses : DOMAIN bus \subseteq Nat
                        /\ \A i \in DOMAIN bus : bus[i] \in SlotKinds
  /\ \A d \in Disks : d \in [DOMAIN d -> Blocks]

VARIABLES bus, driver, opened,      \* the slots, DRIVER_STATE, init's last result
          at, req, old_avail_idx, taken,   \* do_rw_sector: place, arguments, locals
          queue, frame, pending,    \* memory, and the stores not yet visible
          device, disk, ret

driverVars == <<driver, opened>>
callVars   == <<at, req, old_avail_idx, taken>>
memVars    == <<queue, frame, pending>>
vars       == <<bus, driverVars, callVars, memVars, device, disk, ret>>

outcome ==
  IF req = None \/ "chain" \in pending \/ frame.status = 255 THEN None
  ELSE IF frame.status = 0
         THEN [error |-> None, data |-> IF req.op = "read" THEN frame.data ELSE None]
         ELSE [error |-> "IoError", data |-> None]

Store == INSTANCE BlockStore WITH call <- req, Lying <- FALSE

ASSUME NoneAssumption ==
  None \notin Blocks \cup Store!Requests \cup Store!Results

IncrNoWrap(i) == i + 1                   \* mutant: u16 does not wrap
Incr(i) == (i + 1) % IdxSize              \* wrapping_add(1)
Slot(i, size) == i % size

-----------------------------------------------------------------------------
(* QUEUE_MEMORY is zero at boot.  `frame` is what the three descriptors    *)
(* lead to: header and flags, the status byte, the data buffer.            *)
EmptyQueue ==
  [avail_idx |-> 0, avail_ring |-> [s \in 0 .. QUEUE_SIZE - 1 |-> 0],
   used_idx  |-> 0, used_ring  |-> [s \in 0 .. QUEUE_SIZE - 1 |-> 0]]

(* The device after a write of 0 to STATUS: its own indices start at 0.    *)
ResetDevice ==
  [live |-> FALSE, size |-> 0, avail_idx |-> 0, used_idx |-> 0, kicked |-> FALSE,
   phase |-> "idle", chain |-> None, last_id |-> 0, irq |-> "clear"]

Init ==
  /\ bus \in Buses
  /\ driver = [initialized |-> FALSE, queue_size |-> 0, last_used_idx |-> 0]
  /\ opened = None
  /\ at = "idle" /\ req = None /\ old_avail_idx = 0 /\ taken = 0
  /\ queue = EmptyQueue
  /\ frame = [request |-> None, status |-> 255, data |-> None]
  /\ pending = {}
  /\ device = ResetDevice
  /\ disk \in Disks
  /\ ret = None

-----------------------------------------------------------------------------
(* The first slot that holds a block device of any version.                *)
IsBlock(i) == bus[i] \in {"blk1", "blk2"}
FirstBlock(i) == IsBlock(i) /\ \A j \in DOMAIN bus : IsBlock(j) => i <= j

Open(result) == opened' = result /\ UNCHANGED <<bus, callVars, memVars, disk, ret>>

NegotiatedSize(max) ==
  LET num == max % IdxSize           \* `as u16`
  IN  IF num < QUEUE_SIZE THEN num ELSE QUEUE_SIZE

InitAgain ==
  /\ driver.initialized
  /\ Open("Ok")
  /\ UNCHANGED <<driver, device>>

InitNoDevice ==
  /\ ~driver.initialized
  /\ \/ (\A i \in DOMAIN bus : ~IsBlock(i)) /\ Open("DeviceNotFound")
     \/ (\E i \in DOMAIN bus : FirstBlock(i) /\ bus[i] # "blk2")
        /\ Open("UnsupportedVersion")
  /\ UNCHANGED <<driver, device>>

(* Mutant: init() may set up again a device that is in use.                *)
ProbingAgain == \E i \in DOMAIN bus : FirstBlock(i) /\ bus[i] = "blk2"

Probing ==
  /\ ~driver.initialized
  /\ \E i \in DOMAIN bus : FirstBlock(i) /\ bus[i] = "blk2"

(* The early returns after the reset, before the queue is set up.  The two *)
(* that read DEVICE_ID and MAGIC_VALUE a second time are left out: the     *)
(* registers do not change.                                                *)
InitRejected ==
  /\ Probing
  /\ \/ Open("FeatureNegotiationFailed")
     \/ \E max \in MaxSizes :
          \/ max % IdxSize = 0 /\ Open("QueueUnavailable")
          \/ max % IdxSize # 0 /\ NegotiatedSize(max) < 3 /\ Open("QueueTooSmall")
  /\ device' = ResetDevice
  /\ UNCHANGED driver

(* The queue is set up; DRIVER_OK reads back or it does not.               *)
InitQueue ==
  /\ Probing
  /\ \E max \in MaxSizes, accepted \in BOOLEAN :
       /\ NegotiatedSize(max) >= 3
       /\ device' = [ResetDevice EXCEPT !.live = accepted, !.size = NegotiatedSize(max)]
       /\ driver' = [initialized |-> accepted, queue_size |-> NegotiatedSize(max),
                     last_used_idx |-> queue.used_idx]
       /\ Open(IF accepted THEN "Ok" ELSE "DeviceNotReady")

init == at = "idle" /\ (InitAgain \/ InitNoDevice \/ InitRejected \/ InitQueue)

-----------------------------------------------------------------------------
Refuse ==
  /\ at = "idle" /\ ~driver.initialized
  /\ ret' = [error |-> "NotInitialized", data |-> None]
  /\ UNCHANGED <<bus, driverVars, callVars, memVars, device, disk>>

(* Header, status = 0xff and the three descriptors are plain stores.       *)
Describe(r) ==
  /\ at = "idle" /\ driver.initialized
  /\ req' = r
  /\ pending' = pending \cup {"chain"}
  /\ at' = "release"
  /\ UNCHANGED <<bus, driverVars, old_avail_idx, taken, queue, frame, device, disk, ret>>

(* Mutant: the fence is missing.                                           *)
NoReleaseFence ==
  /\ at = "release"
  /\ at' = "publish"
  /\ UNCHANGED <<bus, driverVars, req, old_avail_idx, taken, memVars, device, disk, ret>>

ReleaseFence ==
  /\ at = "release" /\ pending = {}
  /\ at' = "publish"
  /\ UNCHANGED <<bus, driverVars, req, old_avail_idx, taken, memVars, device, disk, ret>>

(* ring[old_avail_idx % queue_size] = 0 and avail.idx = old_avail_idx + 1, *)
(* with no fence in between.                                               *)
Publish ==
  /\ at = "publish"
  /\ old_avail_idx' = queue.avail_idx
  /\ pending' = pending \cup {"ring", "idx"}
  /\ at' = "notify"
  /\ UNCHANGED <<bus, driverVars, req, taken, queue, frame, device, disk, ret>>

(* A store of the driver becomes visible.                                  *)
DrainChain ==
  /\ "chain" \in pending
  /\ frame' = [frame EXCEPT !.request = req, !.status = 255,
                            !.data = IF req.op = "write" THEN req.data ELSE frame.data]
  /\ UNCHANGED queue

DrainRing ==
  /\ "ring" \in pending
  /\ queue' = [queue EXCEPT !.avail_ring[Slot(old_avail_idx, driver.queue_size)] = 0]
  /\ UNCHANGED frame

DrainIdx ==
  /\ "idx" \in pending
  /\ queue' = [queue EXCEPT !.avail_idx = Incr(old_avail_idx)]
  /\ UNCHANGED frame

Drain ==
  /\ \/ DrainChain /\ pending' = pending \ {"chain"}
     \/ DrainRing  /\ pending' = pending \ {"ring"}
     \/ DrainIdx   /\ pending' = pending \ {"idx"}
  /\ UNCHANGED <<bus, driverVars, callVars, device, disk, ret>>

(* fence(SeqCst), then QUEUE_NOTIFY.                                       *)
Notify ==
  /\ at = "notify"
  /\ FenceOrdersIo => pending = {}
  /\ device' = [device EXCEPT !.kicked = TRUE]
  /\ at' = "poll"
  /\ UNCHANGED <<bus, driverVars, req, old_avail_idx, taken, memVars, disk, ret>>

(* Mutant: the indices are compared by order.                              *)
PollOrdered ==
  /\ at = "poll" /\ pending = {}
  /\ queue.used_idx > driver.last_used_idx
  /\ at' = "take"
  /\ UNCHANGED <<bus, driverVars, req, old_avail_idx, taken, memVars, device, disk, ret>>

(* The loads of used.idx come after the fence(SeqCst) in any case.         *)
Poll ==
  /\ at = "poll" /\ pending = {}
  /\ queue.used_idx # driver.last_used_idx
  /\ at' = "take"
  /\ UNCHANGED <<bus, driverVars, req, old_avail_idx, taken, memVars, device, disk, ret>>

UsedSlotNext(new_used_idx) == Slot(new_used_idx, driver.queue_size)    \* mutant

UsedSlot(new_used_idx) == Slot((new_used_idx - 1) % IdxSize, driver.queue_size)

(* used.idx is read a second time; the address of the used element depends *)
(* on it, which orders the two loads.  Then the interrupt is acknowledged, *)
(* if it is raised already.                                                *)
Take ==
  /\ at = "take"
  /\ taken' = queue.used_ring[UsedSlot(queue.used_idx)]
  /\ driver' = [driver EXCEPT !.last_used_idx = queue.used_idx]
  /\ device' = IF device.irq = "raised" THEN [device EXCEPT !.irq = "clear"] ELSE device
  /\ at' = "finish"
  /\ UNCHANGED <<bus, opened, req, old_avail_idx, memVars, disk, ret>>

(* Mutant: the status byte is not looked at.                               *)
FinishUnchecked ==
  /\ at = "finish"
  /\ ret' = [error |-> None, data |-> IF req.op = "read" THEN frame.data ELSE None]
  /\ at' = "idle" /\ req' = None
  /\ UNCHANGED <<bus, driverVars, old_avail_idx, taken, memVars, device, disk>>

Finish ==
  /\ at = "finish"
  /\ ret' = IF taken # 0 THEN [error |-> "UsedIdMismatch", data |-> None]
            ELSE IF frame.status = 0
              THEN [error |-> None, data |-> IF req.op = "read" THEN frame.data ELSE None]
              ELSE [error |-> "IoError", data |-> None]
  /\ at' = "idle" /\ req' = None
  /\ UNCHANGED <<bus, driverVars, old_avail_idx, taken, memVars, device, disk>>

-----------------------------------------------------------------------------
(* The device.  It may look at the queue without having been notified; it  *)
(* is only sure to look after a notification.                              *)
AvailSlot == Slot(device.avail_idx, device.size)

Fetch ==
  /\ device.live /\ device.phase = "idle" /\ queue.avail_idx # device.avail_idx
  /\ device' = [device EXCEPT
       !.avail_idx = Incr(device.avail_idx), !.phase = "fetched",
       !.chain = IF queue.avail_ring[AvailSlot] = 0 THEN frame.request ELSE None]
  /\ UNCHANGED <<bus, driverVars, callVars, memVars, disk, ret>>

FetchNotified == device.kicked /\ Fetch

Sleep ==
  /\ device.kicked /\ device.phase = "idle" /\ queue.avail_idx = device.avail_idx
  /\ device' = [device EXCEPT !.kicked = FALSE]
  /\ UNCHANGED <<bus, driverVars, callVars, memVars, disk, ret>>

Answer(status, data) ==
  /\ frame' = [frame EXCEPT !.status = status, !.data = data]
  /\ device' = [device EXCEPT !.phase = "served"]
  /\ UNCHANGED <<bus, driverVars, callVars, queue, pending, ret>>

ServeRead ==
  /\ device.phase = "fetched" /\ device.chain # None /\ device.chain.op = "read"
  /\ device.chain.sector \in DOMAIN disk
  /\ Answer(0, disk[device.chain.sector])
  /\ UNCHANGED disk

ServeWrite ==
  /\ device.phase = "fetched" /\ device.chain # None /\ device.chain.op = "write"
  /\ device.chain.sector \in DOMAIN disk
  /\ Answer(0, frame.data)
  /\ disk' = [disk EXCEPT ![device.chain.sector] = frame.data]

(* A sector beyond the end, or an I/O error: a write may have happened.    *)
ServeError ==
  /\ device.phase = "fetched"
  /\ Answer(1, frame.data)
  /\ \/ disk' = disk
     \/ /\ device.chain # None /\ device.chain.op = "write"
        /\ device.chain.sector \in DOMAIN disk
        /\ disk' = [disk EXCEPT ![device.chain.sector] = frame.data]

Complete ==
  /\ device.phase = "served"
  /\ \E id \in UsedIds :
       /\ queue' = [queue EXCEPT
            !.used_ring[Slot(device.used_idx, device.size)] = id,
            !.used_idx = Incr(device.used_idx)]
       /\ device' = [device EXCEPT
            !.used_idx = Incr(device.used_idx), !.phase = "idle", !.chain = None,
            !.last_id = id, !.irq = "due"]
  /\ UNCHANGED <<bus, driverVars, callVars, frame, pending, disk, ret>>

Interrupt ==
  /\ device.irq = "due"
  /\ device' = [device EXCEPT !.irq = "raised"]
  /\ UNCHANGED <<bus, driverVars, callVars, memVars, disk, ret>>

-----------------------------------------------------------------------------
DriverStep == ReleaseFence \/ Publish \/ Notify \/ Poll \/ Take \/ Finish
DeviceStep == Fetch \/ Sleep \/ ServeRead \/ ServeWrite \/ ServeError
                \/ Complete \/ Interrupt

Next ==
  \/ init \/ Refuse \/ (\E r \in Store!Requests : Describe(r))
  \/ Drain \/ DriverStep \/ DeviceStep

Spec == Init /\ [][Next]_vars

(* The hart runs, stores drain, and the device answers what it was         *)
(* notified of; nothing obliges a caller to call.                          *)
FairSpec ==
  /\ Spec
  /\ WF_vars(DriverStep) /\ WF_vars(Drain)
  /\ WF_vars(FetchNotified) /\ WF_vars(ServeRead \/ ServeWrite \/ ServeError)
  /\ WF_vars(Complete)
=============================================================================
