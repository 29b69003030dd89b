--------------------------- MODULE VirtioBlkProofs ---------------------------
(***************************************************************************)
(* The safety of the driver and its queue for every size of the queue, any *)
(* width of the indices, every order of the stores the fences leave open,  *)
(* and whether or not a fence orders memory before MMIO; and that the two  *)
(* ends implement the block store.                                         *)
(***************************************************************************)
EXTENDS VirtioBlkProps, TLAPS

(* DRIVER_STATE and the device agree on the queue; nothing has been put in *)
(* it before init() succeeds.                                              *)
SetUp ==
  /\ at # "idle" => driver.initialized
  /\ IF driver.initialized
       THEN /\ device.live /\ device.size = driver.queue_size
            /\ driver.queue_size \in 3 .. QUEUE_SIZE
       ELSE /\ ~device.live /\ device.phase = "idle"
            /\ driver.last_used_idx = 0 /\ queue.avail_idx = 0
            /\ device.avail_idx = 0 /\ queue.used_idx = 0

(* How far the request of this call has come, by the indices.              *)
Unseen   == queue.avail_idx = driver.last_used_idx /\ device.avail_idx = driver.last_used_idx
            /\ queue.used_idx = driver.last_used_idx /\ device.phase = "idle"
Posted   == queue.avail_idx = Incr(driver.last_used_idx)
            /\ device.avail_idx = driver.last_used_idx
            /\ queue.used_idx = driver.last_used_idx /\ device.phase = "idle"
InWork   == queue.avail_idx = Incr(driver.last_used_idx)
            /\ device.avail_idx = Incr(driver.last_used_idx)
            /\ queue.used_idx = driver.last_used_idx /\ device.phase # "idle"
Answered == queue.avail_idx = Incr(driver.last_used_idx)
            /\ device.avail_idx = Incr(driver.last_used_idx)
            /\ queue.used_idx = Incr(driver.last_used_idx) /\ device.phase = "idle"

Indices ==
  /\ device.used_idx = queue.used_idx
  /\ at \in {"idle", "release", "publish", "finish"} => Unseen
  /\ at \in {"notify", "poll"} =>
       /\ old_avail_idx = driver.last_used_idx
       /\ IF "idx" \in pending THEN Unseen ELSE Posted \/ InWork \/ Answered
  /\ at = "take" => Answered

(* Which stores may be on their way, and when.                             *)
Stores ==
  /\ "chain" \in pending => at = "release"
  /\ "ring" \in pending \/ "idx" \in pending => at \in {"notify", "poll"}

(* The one ring entry that is ever written is 0, as all are from the start. *)
RingZero == \A s \in 0 .. QUEUE_SIZE - 1 : queue.avail_ring[s] = 0

(* What the descriptors lead to, and what the device has made of it.       *)
Served ==
  device.phase = "served" \/ queue.used_idx # driver.last_used_idx \/ at = "finish"

FrameOfCall ==
  /\ req = None <=> at = "idle"
  /\ req # None /\ "chain" \notin pending =>
       /\ frame.request = req
       /\ IF Served THEN frame.status \in {0, 1}
          ELSE frame.status = 255 /\ (req.op = "write" => frame.data = req.data)
  /\ device.phase # "idle" => device.chain = req

(* The used element of this call.                                          *)
UsedElem ==
  /\ at \in {"notify", "poll", "take"} /\ queue.used_idx # driver.last_used_idx =>
       queue.used_ring[Slot(driver.last_used_idx, driver.queue_size)] = device.last_id
  /\ ReadsOwnUsedElem

IInv == TypeOK /\ SetUp /\ Indices /\ Stores /\ RingZero /\ FrameOfCall /\ UsedElem

-----------------------------------------------------------------------------
LEMMA IncrFacts ==
  ASSUME NEW i \in Idx
  PROVE  /\ Incr(i) \in Idx /\ Incr(i) # i
         /\ (Incr(i) - 1) % IdxSize = i
         /\ (Incr(i) - i) % IdxSize = 1 /\ (i - i) % IdxSize = 0
<1>1. IdxSize \in Nat /\ IdxSize > 1
  BY VirtioAssumption
<1>2. CASE i + 1 < IdxSize
  <2>1. Incr(i) = i + 1
    BY <1>1, <1>2 DEF Incr, Idx
  <2> QED
    BY <1>1, <1>2, <2>1 DEF Idx
<1>3. CASE i + 1 = IdxSize
  <2>1. Incr(i) = 0
    BY <1>1, <1>3 DEF Incr, Idx
  <2> QED
    BY <1>1, <1>3, <2>1 DEF Idx
<1> QED
  BY <1>1, <1>2, <1>3 DEF Idx

LEMMA SlotInQueue ==
  ASSUME NEW i \in Nat, NEW size \in 3 .. QUEUE_SIZE
  PROVE  Slot(i, size) \in 0 .. QUEUE_SIZE - 1
BY VirtioAssumption DEF Slot

LEMMA RequestFacts ==
  ASSUME NEW r \in Store!Requests
  PROVE  /\ r # None /\ r.op \in {"read", "write"}
         /\ r.op = "read" => r.data = None
         /\ r.op = "write" => r.data \in Blocks
BY NoneAssumption DEF Store!Requests

LEMMA NegotiatedFacts ==
  ASSUME NEW max \in MaxSizes
  PROVE  NegotiatedSize(max) \in 0 .. QUEUE_SIZE
BY VirtioAssumption DEF NegotiatedSize

LEMMA InitIInv == Init => IInv
<1> SUFFICES ASSUME Init PROVE IInv
  OBVIOUS
<1> USE VirtioAssumption DEF Init
<1>1. TypeOK
  BY DEF TypeOK, Drivers, Queues, Frames, Devices, EmptyQueue, ResetDevice, Idx, Rings, Block
<1> QED
  BY <1>1 DEF IInv, SetUp, Indices, Unseen, Stores, RingZero, FrameOfCall, UsedElem,
     ReadsOwnUsedElem, EmptyQueue, ResetDevice, Served

-----------------------------------------------------------------------------
(* One step at a time.  First the types, action by action.                 *)
LEMMA InitCallType ==
  ASSUME IInv, init
  PROVE  TypeOK'
<1> USE VirtioAssumption DEF IInv, TypeOK, Drivers, Queues, Frames, Devices, init, Open, callVars, memVars
<1>1. CASE InitAgain
  BY <1>1 DEF InitAgain
<1>2. CASE InitNoDevice
  BY <1>2 DEF InitNoDevice
<1>3. CASE InitRejected
  BY <1>3 DEF InitRejected, ResetDevice, Idx
<1>4. CASE InitQueue
  <2>1. PICK max \in MaxSizes, accepted \in BOOLEAN :
          /\ device' = [ResetDevice EXCEPT !.live = accepted, !.size = NegotiatedSize(max)]
          /\ driver' = [initialized |-> accepted, queue_size |-> NegotiatedSize(max),
                        last_used_idx |-> queue.used_idx]
          /\ Open(IF accepted THEN "Ok" ELSE "DeviceNotReady")
    <3> HIDE DEF IInv, TypeOK, init, Open
    <3> QED
      BY <1>4 DEF InitQueue
  <2>2. NegotiatedSize(max) \in 0 .. QUEUE_SIZE
    BY NegotiatedFacts
  <2>3. driver' \in Drivers
    BY <2>1, <2>2
  <2>4. device' \in Devices
    <3>1. device' = [live |-> accepted, size |-> NegotiatedSize(max), avail_idx |-> 0,
                     used_idx |-> 0, kicked |-> FALSE, phase |-> "idle", chain |-> None,
                     last_id |-> 0, irq |-> "clear"]
      BY <2>1 DEF ResetDevice
    <3> HIDE DEF IInv, TypeOK, init, Open, NegotiatedSize
    <3> QED
      BY <2>2, <3>1 DEF Idx
  <2> QED
    BY <2>1, <2>3, <2>4
<1> QED
  BY <1>1, <1>2, <1>3, <1>4

LEMMA DrainType ==
  ASSUME IInv, Drain
  PROVE  TypeOK'
<1> USE DEF IInv, TypeOK, Drivers, Queues, Frames, Devices, Drain, driverVars, callVars
<1>1. CASE DrainChain /\ pending' = pending \ {"chain"}
  <2>1. req \in Store!Requests
    BY <1>1 DEF DrainChain, Stores, FrameOfCall
  <2>2. (IF req.op = "write" THEN req.data ELSE frame.data) \in Block
    BY <2>1, RequestFacts DEF Block
  <2>3. frame' \in Frames
    <3> DEFINE data == IF req.op = "write" THEN req.data ELSE frame.data
    <3>1. frame' = [frame EXCEPT !.request = req, !.status = 255, !.data = data]
      BY <1>1 DEF DrainChain
    <3>2. data \in Block
      BY <2>2
    <3> HIDE DEF Drain, data
    <3> QED
      BY <2>1, <3>1, <3>2, ZenonT(30)
  <2> QED
    BY <1>1, <2>3 DEF DrainChain
<1>2. CASE DrainRing /\ pending' = pending \ {"ring"}
  <2> DEFINE slot == Slot(old_avail_idx, driver.queue_size)
  <2>1. [queue.avail_ring EXCEPT ![slot] = 0] \in Rings
    BY DEF Rings
  <2>2. queue' \in Queues
    <3> HIDE DEF slot
    <3> QED
      BY <1>2, <2>1 DEF DrainRing, slot
  <2> QED
    BY <1>2, <2>2 DEF DrainRing
<1>3. CASE DrainIdx /\ pending' = pending \ {"idx"}
  BY <1>3, IncrFacts DEF DrainIdx
<1> QED
  BY <1>1, <1>2, <1>3

LEMMA DriverType ==
  ASSUME IInv, Refuse \/ DriverStep \/ \E r \in Store!Requests : Describe(r)
  PROVE  TypeOK'
<1> USE DEF IInv, TypeOK, Drivers, Queues, Frames, Devices, driverVars, callVars, memVars
<1>1. CASE Refuse
  BY <1>1 DEF Refuse
<1>2. ASSUME NEW r \in Store!Requests, Describe(r) PROVE TypeOK'
  BY <1>2 DEF Describe
<1>3. CASE ReleaseFence
  BY <1>3 DEF ReleaseFence
<1>4. CASE Publish
  BY <1>4 DEF Publish
<1>5. CASE Notify
  BY <1>5 DEF Notify
<1>6. CASE Poll
  BY <1>6 DEF Poll
<1>7. CASE Take
  <2>1. UsedSlot(queue.used_idx) \in 0 .. QUEUE_SIZE - 1
    <3>1. queue.used_idx = Incr(driver.last_used_idx) /\ driver.queue_size \in 3 .. QUEUE_SIZE
      BY <1>7 DEF Take, Indices, Answered, SetUp
    <3>2. (queue.used_idx - 1) % IdxSize = driver.last_used_idx
      BY <3>1, IncrFacts
    <3> QED
      BY <3>1, <3>2, SlotInQueue DEF UsedSlot, Idx
  <2>2. queue.used_ring[UsedSlot(queue.used_idx)] \in Nat
    <3>1. queue.used_ring \in [0 .. QUEUE_SIZE - 1 -> Nat]
      BY DEF Rings
    <3> QED
      BY <2>1, <3>1
  <2> QED
    BY <1>7, <2>2 DEF Take
<1>8. CASE Finish
  BY <1>8 DEF Finish
<1> QED
  BY <1>1, <1>2, <1>3, <1>4, <1>5, <1>6, <1>7, <1>8 DEF DriverStep

LEMMA DeviceType ==
  ASSUME IInv, DeviceStep
  PROVE  TypeOK'
<1> USE DEF IInv, TypeOK, Drivers, Queues, Frames, Devices, driverVars, callVars, memVars
<1>1. CASE Fetch
  BY <1>1, IncrFacts, ZenonT(30) DEF Fetch
<1>2. CASE Sleep
  BY <1>2 DEF Sleep
<1>3. CASE ServeRead
  BY <1>3, ZenonT(30) DEF ServeRead, Answer, Block
<1>4. CASE ServeWrite
  <2>1. frame.data \in Blocks
    BY <1>4, RequestFacts DEF ServeWrite, FrameOfCall, Served, Indices, Unseen, Posted,
       InWork, Answered, Stores
  <2> QED
    BY <1>4, <2>1 DEF ServeWrite, Answer
<1>5. CASE ServeError
  <2>1. device.chain.op = "write" /\ device.chain # None => frame.data \in Blocks
    BY <1>5, RequestFacts DEF ServeError, FrameOfCall, Served, Indices, Unseen, Posted,
       InWork, Answered, Stores
  <2>2. disk' \in [DOMAIN disk' -> Blocks]
    BY <1>5, <2>1 DEF ServeError
  <2> QED
    BY <1>5, <2>2 DEF ServeError, Answer
<1>6. CASE Complete
  <2>1. PICK id \in UsedIds :
          /\ queue' = [queue EXCEPT
               !.used_ring[Slot(device.used_idx, device.size)] = id,
               !.used_idx = Incr(device.used_idx)]
          /\ device' = [device EXCEPT
               !.used_idx = Incr(device.used_idx), !.phase = "idle", !.chain = None,
               !.last_id = id, !.irq = "due"]
    BY <1>6 DEF Complete
  <2>2. id \in Nat /\ Incr(device.used_idx) \in Idx
    BY IncrFacts, VirtioAssumption
  <2>3. [queue.used_ring EXCEPT ![Slot(device.used_idx, device.size)] = id] \in Rings
    BY <2>2 DEF Rings
  <2>4. queue' \in Queues
    BY <2>1, <2>2, <2>3
  <2>5. device' \in Devices
    BY <2>1, <2>2
  <2> QED
    BY <1>6, <2>4, <2>5 DEF Complete
<1>7. CASE Interrupt
  BY <1>7 DEF Interrupt
<1> QED
  BY <1>1, <1>2, <1>3, <1>4, <1>5, <1>6, <1>7 DEF DeviceStep

LEMMA NextType ==
  ASSUME IInv, [Next]_vars
  PROVE  TypeOK'
<1>1. CASE UNCHANGED vars
  BY <1>1 DEF vars, driverVars, callVars, memVars, IInv, TypeOK
<1> QED
  BY <1>1, InitCallType, DrainType, DriverType, DeviceType DEF Next

-----------------------------------------------------------------------------
(* Then the rest of the invariant.                                         *)
Agreement == SetUp /\ Indices /\ Stores /\ RingZero /\ FrameOfCall /\ UsedElem

LEMMA InitCallAgreement ==
  ASSUME IInv, init
  PROVE  Agreement'
<1> USE DEF init, Open, callVars, memVars
<1>0. at = "idle" /\ req = None /\ pending = {} /\ Unseen
  BY DEF IInv, Indices, Stores, FrameOfCall, TypeOK
<1>1. CASE UNCHANGED <<driver, device, callVars, memVars>>
  BY <1>1 DEF IInv, Agreement, SetUp, Indices, Unseen, Posted, InWork, Answered, Stores,
     RingZero, FrameOfCall, Served, UsedElem, ReadsOwnUsedElem
<1>2. CASE InitRejected
  BY <1>0, <1>2 DEF InitRejected, Probing, ResetDevice, IInv, Agreement, SetUp, Indices,
     Unseen, Stores, RingZero, FrameOfCall, Served, UsedElem, ReadsOwnUsedElem
<1>3. CASE InitQueue
  <2>1. PICK max \in MaxSizes, accepted \in BOOLEAN :
          /\ NegotiatedSize(max) >= 3
          /\ device' = [ResetDevice EXCEPT !.live = accepted, !.size = NegotiatedSize(max)]
          /\ driver' = [initialized |-> accepted, queue_size |-> NegotiatedSize(max),
                        last_used_idx |-> queue.used_idx]
          /\ UNCHANGED <<callVars, memVars>>
    BY <1>3 DEF InitQueue
  <2>2. NegotiatedSize(max) \in 3 .. QUEUE_SIZE
    BY <2>1, NegotiatedFacts, VirtioAssumption
  <2>3. ~driver.initialized
    BY <1>3 DEF InitQueue, Probing
  <2>4. /\ device'.live = accepted /\ device'.size = driver'.queue_size
        /\ device'.phase = "idle" /\ device'.avail_idx = 0 /\ device'.used_idx = 0
        /\ driver'.initialized = accepted /\ driver'.queue_size \in 3 .. QUEUE_SIZE
        /\ driver'.last_used_idx = queue.used_idx
    BY <2>1, <2>2 DEF ResetDevice
  <2> QED
    BY <1>0, <2>1, <2>3, <2>4 DEF IInv, Agreement, SetUp, Indices, Unseen, Stores, RingZero,
       FrameOfCall, Served, UsedElem, ReadsOwnUsedElem
<1> QED
  BY <1>1, <1>2, <1>3 DEF InitAgain, InitNoDevice

LEMMA CallAgreement ==
  ASSUME IInv, Refuse \/ \E r \in Store!Requests : Describe(r)
  PROVE  Agreement'
<1> USE DEF IInv, Agreement, SetUp, Indices, Unseen, Stores, RingZero, FrameOfCall, Served,
     UsedElem, ReadsOwnUsedElem, driverVars, callVars, memVars
<1>1. CASE Refuse
  BY <1>1 DEF Refuse, Posted, InWork, Answered
<1>2. ASSUME NEW r \in Store!Requests, Describe(r) PROVE Agreement'
  BY <1>2, RequestFacts DEF Describe
<1> QED
  BY <1>1, <1>2

LEMMA DrainAgreement ==
  ASSUME IInv, Drain
  PROVE  Agreement'
<1> USE DEF IInv, Agreement, driverVars, callVars, Drain
<1>1. CASE DrainChain /\ pending' = pending \ {"chain"}
  <2>1. at = "release" /\ Unseen /\ req # None
    BY <1>1 DEF DrainChain, Stores, Indices, FrameOfCall
  <2>2. frame'.request = req /\ frame'.status = 255
        /\ (req.op = "write" => frame'.data = req.data)
    BY <1>1 DEF DrainChain, TypeOK, Frames
  <2> QED
    BY <1>1, <2>1, <2>2 DEF DrainChain, SetUp, Indices, Unseen, Stores, RingZero, FrameOfCall,
       Served, UsedElem, ReadsOwnUsedElem
<1>2. CASE DrainRing /\ pending' = pending \ {"ring"}
  <2>1. /\ queue'.avail_idx = queue.avail_idx /\ queue'.used_idx = queue.used_idx
        /\ queue'.used_ring = queue.used_ring
    BY <1>2 DEF DrainRing, TypeOK, Queues
  <2>2. RingZero'
    BY <1>2 DEF DrainRing, TypeOK, Queues, Rings, RingZero
  <2> QED
    BY <1>2, <2>1, <2>2 DEF DrainRing, SetUp, Indices, Unseen, Posted, InWork, Answered,
       Stores, FrameOfCall, Served, UsedElem, ReadsOwnUsedElem
<1>3. CASE DrainIdx /\ pending' = pending \ {"idx"}
  <2>1. at \in {"notify", "poll"} /\ Unseen /\ old_avail_idx = driver.last_used_idx
    BY <1>3 DEF DrainIdx, Stores, Indices
  <2>2. /\ queue'.avail_idx = Incr(driver.last_used_idx) /\ queue'.used_idx = queue.used_idx
        /\ queue'.used_ring = queue.used_ring /\ queue'.avail_ring = queue.avail_ring
    BY <1>3, <2>1 DEF DrainIdx, TypeOK, Queues
  <2> QED
    BY <1>3, <2>1, <2>2 DEF DrainIdx, SetUp, Indices, Unseen, Posted, Stores, RingZero,
       FrameOfCall, Served, UsedElem, ReadsOwnUsedElem
<1> QED
  BY <1>1, <1>2, <1>3

LEMMA DriverAgreement ==
  ASSUME IInv, DriverStep
  PROVE  Agreement'
<1> USE DEF IInv, Agreement, SetUp, Indices, Unseen, Posted, InWork, Answered, Stores, RingZero,
     FrameOfCall, Served, UsedElem, ReadsOwnUsedElem, driverVars, callVars, memVars
<1>1. CASE ReleaseFence
  BY <1>1 DEF ReleaseFence
<1>2. CASE Publish
  BY <1>2 DEF Publish
<1>3. CASE Notify
  BY <1>3 DEF Notify, TypeOK, Devices
<1>4. CASE Poll
  BY <1>4 DEF Poll
<1>5. CASE Take
  <2>1. Answered /\ driver.last_used_idx \in Idx
    BY <1>5 DEF Take, TypeOK, Drivers
  <2>2. queue.used_idx # driver.last_used_idx
        /\ (queue.used_idx - 1) % IdxSize = driver.last_used_idx
    BY <2>1, IncrFacts
  <2>3. taken' = device.last_id
    BY <1>5, <2>2 DEF Take, UsedSlot
  <2>4. /\ driver'.last_used_idx = queue.used_idx
        /\ driver'.initialized = driver.initialized /\ driver'.queue_size = driver.queue_size
    BY <1>5 DEF Take, TypeOK, Drivers
  <2>5. /\ device'.live = device.live /\ device'.size = device.size
        /\ device'.avail_idx = device.avail_idx /\ device'.used_idx = device.used_idx
        /\ device'.phase = device.phase /\ device'.last_id = device.last_id
        /\ device'.chain = device.chain
    BY <1>5 DEF Take, TypeOK, Devices
  <2>6. pending = {} /\ req # None
    BY <1>5 DEF Take, TypeOK
  <2> QED
    BY <1>5, <2>1, <2>2, <2>3, <2>4, <2>5, <2>6 DEF Take
<1>6. CASE Finish
  BY <1>6 DEF Finish
<1> QED
  BY <1>1, <1>2, <1>3, <1>4, <1>5, <1>6 DEF DriverStep

LEMMA DeviceAgreement ==
  ASSUME IInv, DeviceStep
  PROVE  Agreement'
<1> USE DEF IInv, Agreement, driverVars, callVars, memVars
<1>1. CASE Fetch
  <2>1. /\ at \in {"notify", "poll"} /\ Posted /\ pending \cap {"chain", "idx"} = {}
        /\ req # None /\ driver.initialized
    BY <1>1 DEF Fetch, SetUp, Indices, Unseen, Posted, InWork, Answered, Stores, FrameOfCall,
       TypeOK
  <2>2. queue.avail_ring[AvailSlot] = 0
    <3>1. AvailSlot \in 0 .. QUEUE_SIZE - 1
      BY <2>1, SlotInQueue DEF AvailSlot, SetUp, TypeOK, Devices, Idx
    <3> QED
      BY <3>1 DEF RingZero
  <2>3. /\ device'.avail_idx = Incr(driver.last_used_idx) /\ device'.phase = "fetched"
        /\ device'.chain = req /\ device'.used_idx = device.used_idx
        /\ device'.live = device.live /\ device'.size = device.size
        /\ device'.last_id = device.last_id
    BY <1>1, <2>1, <2>2 DEF Fetch, Posted, TypeOK, Devices, FrameOfCall
  <2> QED
    BY <1>1, <2>1, <2>3 DEF Fetch, SetUp, Indices, Unseen, Posted, InWork, Stores, RingZero,
       FrameOfCall, Served, UsedElem, ReadsOwnUsedElem
<1>2. CASE Sleep \/ Interrupt
  <2>1. /\ device'.avail_idx = device.avail_idx /\ device'.phase = device.phase
        /\ device'.chain = device.chain /\ device'.used_idx = device.used_idx
        /\ device'.live = device.live /\ device'.size = device.size
        /\ device'.last_id = device.last_id
    BY <1>2 DEF Sleep, Interrupt, TypeOK, Devices
  <2> QED
    BY <1>2, <2>1 DEF Sleep, Interrupt, SetUp, Indices, Unseen, Posted, InWork, Answered,
       Stores, RingZero, FrameOfCall, Served, UsedElem, ReadsOwnUsedElem
<1>3. CASE ServeRead \/ ServeWrite \/ ServeError
  <2>1. /\ device.phase = "fetched"
        /\ \E status \in {0, 1} : \E data : Answer(status, data)
    BY <1>3 DEF ServeRead, ServeWrite, ServeError
  <2>2. /\ device'.avail_idx = device.avail_idx /\ device'.phase = "served"
        /\ device'.chain = device.chain /\ device'.used_idx = device.used_idx
        /\ device'.live = device.live /\ device'.size = device.size
        /\ device'.last_id = device.last_id
        /\ frame'.request = frame.request /\ frame'.status \in {0, 1}
        /\ UNCHANGED <<bus, driver, opened, at, req, old_avail_idx, taken, queue, pending, ret>>
    BY <2>1 DEF Answer, TypeOK, Devices, Frames
  <2> QED
    BY <2>1, <2>2 DEF SetUp, Indices, Unseen, Posted, InWork, Answered,
       Stores, RingZero, FrameOfCall, Served, UsedElem, ReadsOwnUsedElem
<1>4. CASE Complete
  <2>1. PICK id \in UsedIds :
          /\ queue' = [queue EXCEPT
               !.used_ring[Slot(device.used_idx, device.size)] = id,
               !.used_idx = Incr(device.used_idx)]
          /\ device' = [device EXCEPT
               !.used_idx = Incr(device.used_idx), !.phase = "idle", !.chain = None,
               !.last_id = id, !.irq = "due"]
    BY <1>4 DEF Complete
  <2>2. /\ at \in {"notify", "poll"} /\ InWork /\ "idx" \notin pending /\ driver.initialized
        /\ device.phase = "served" /\ device.used_idx = driver.last_used_idx
        /\ device.size = driver.queue_size
    BY <1>4 DEF Complete, SetUp, Indices, Unseen, Posted, InWork, Answered, TypeOK
  <2>3. /\ device'.avail_idx = device.avail_idx /\ device'.phase = "idle"
        /\ device'.used_idx = Incr(device.used_idx)
        /\ device'.live = device.live /\ device'.size = device.size
        /\ device'.last_id = id
    BY <2>1 DEF TypeOK, Devices
  <2>4. /\ queue'.avail_idx = queue.avail_idx /\ queue'.used_idx = Incr(device.used_idx)
        /\ queue'.avail_ring = queue.avail_ring
        /\ queue'.used_ring[Slot(device.used_idx, device.size)] = id
    <3>1. Slot(device.used_idx, device.size) \in 0 .. QUEUE_SIZE - 1
      BY <2>2, SlotInQueue DEF SetUp, TypeOK, Devices, Idx
    <3> DEFINE slot == Slot(device.used_idx, device.size)
               idx  == Incr(device.used_idx)
    <3>2. queue' = [queue EXCEPT !.used_ring[slot] = id, !.used_idx = idx]
      BY <2>1
    <3>3. slot \in DOMAIN queue.used_ring
      BY <3>1 DEF TypeOK, Queues, Rings
    <3> HIDE DEF slot, idx
    <3> QED
      BY <3>2, <3>3 DEF TypeOK, Queues, slot, idx
  <2>5. queue'.used_idx # driver.last_used_idx
    BY <2>2, <2>4, IncrFacts DEF TypeOK, Drivers
  <2> QED
    BY <1>4, <2>2, <2>3, <2>4, <2>5 DEF Complete, SetUp, Indices, Unseen, InWork, Answered,
       Stores, RingZero, FrameOfCall, Served, UsedElem, ReadsOwnUsedElem
<1> QED
  BY <1>1, <1>2, <1>3, <1>4 DEF DeviceStep

LEMMA NextIInv == IInv /\ [Next]_vars => IInv'
<1> SUFFICES ASSUME IInv, [Next]_vars PROVE IInv'
  OBVIOUS
<1>1. TypeOK'
  BY NextType
<1>2. Agreement'
  <2>1. CASE UNCHANGED vars
    BY <2>1 DEF vars, driverVars, callVars, memVars, IInv, Agreement, SetUp, Indices, Unseen,
       Posted, InWork, Answered, Stores, RingZero, FrameOfCall, Served, UsedElem,
       ReadsOwnUsedElem
  <2> QED
    BY <2>1, InitCallAgreement, CallAgreement, DrainAgreement, DriverAgreement,
       DeviceAgreement DEF Next
<1> QED
  BY <1>1, <1>2 DEF IInv, Agreement

THEOREM Invariance == Spec => []IInv
BY InitIInv, NextIInv, PTL DEF Spec
-----------------------------------------------------------------------------
(* The types hold, and the indices stay within u16, for every queue.       *)
THEOREM TypeCorrect == Spec => []TypeOK
<1>1. IInv => TypeOK
  BY DEF IInv
<1> QED
  BY <1>1, Invariance, PTL

(* The indices of the driver and of the device never part by more than the *)
(* one request of the call in progress, whatever the width of the indices. *)
THEOREM Agree == Spec => []IndicesAgree
<1>1. ASSUME IInv PROVE IndicesAgree
  <2> DEFINE last == driver.last_used_idx
  <2>1. last \in Idx
    BY <1>1 DEF IInv, TypeOK, Drivers
  <2>2. Ahead(last) = 0 /\ Ahead(Incr(last)) = 1
    BY <2>1, IncrFacts DEF Ahead
  <2>3. device.used_idx = queue.used_idx
    BY <1>1 DEF IInv, Indices
  <2>4. CASE Unseen
    BY <2>2, <2>3, <2>4 DEF Unseen, IndicesAgree
  <2>5. CASE Waiting /\ (Posted \/ InWork \/ Answered)
    BY <2>2, <2>3, <2>5 DEF Posted, InWork, Answered, IndicesAgree
  <2> QED
    BY <1>1, <2>4, <2>5 DEF IInv, TypeOK, Indices, Waiting
<1> QED
  BY <1>1, Invariance, PTL

(* The device never works on anything but the request of the call that     *)
(* waits in do_rw_sector, as described before the release fence.           *)
THEOREM ServesCall == Spec => []ServesTheCallInProgress
<1>1. IInv => ServesTheCallInProgress
  BY DEF IInv, TypeOK, Indices, Unseen, Answered, FrameOfCall, ServesTheCallInProgress
<1> QED
  BY <1>1, Invariance, PTL

(* The used element the driver takes is its own, for every size of the     *)
(* queue, those that do not divide the range of the indices included.      *)
THEOREM OwnUsedElem == Spec => []ReadsOwnUsedElem
<1>1. IInv => ReadsOwnUsedElem
  BY DEF IInv, UsedElem
<1> QED
  BY <1>1, Invariance, PTL

-----------------------------------------------------------------------------
(* Refinement.  Most steps are silent; the steps of the device that write  *)
(* the status byte are those at which the store changes.                   *)
storeVars == <<disk, req, outcome, ret>>

LEMMA OutcomeFacts ==
  ASSUME IInv
  PROVE  /\ at = "idle" => outcome = None
         /\ device.phase = "fetched" =>
              /\ req # None /\ req \in Store!Requests /\ device.chain = req
              /\ "chain" \notin pending /\ outcome = None
              /\ (req.op = "write" => frame.data = req.data)
BY RequestFacts DEF IInv, TypeOK, Indices, Unseen, Posted, InWork, Answered, Stores, FrameOfCall,
   Served, outcome

LEMMA SilentSteps ==
  ASSUME IInv, init \/ Drain \/ DriverStep \/ DeviceStep, UNCHANGED <<disk, req, ret>>,
         ~(ServeRead \/ ServeWrite \/ ServeError)
  PROVE  UNCHANGED storeVars
<1> USE DEF outcome, storeVars, callVars, memVars, driverVars
<1>1. CASE init
  BY <1>1 DEF init, InitAgain, InitNoDevice, InitRejected, InitQueue, Open
<1>2. CASE Drain
  <2>1. CASE DrainChain
    <3>1. frame'.status = 255
      BY <2>1 DEF DrainChain, IInv, TypeOK, Frames
    <3> QED
      BY <1>2, <2>1, <3>1 DEF Drain, DrainChain
  <2>2. CASE UNCHANGED frame /\ ("chain" \in pending <=> "chain" \in pending')
    BY <2>2
  <2> QED
    BY <1>2, <2>1, <2>2 DEF Drain, DrainRing, DrainIdx
<1>3. CASE DriverStep
  BY <1>3 DEF DriverStep, ReleaseFence, Publish, Notify, Poll, Take, Finish, IInv, FrameOfCall
<1>4. CASE DeviceStep
  BY <1>4, ZenonT(30) DEF DeviceStep, Fetch, Sleep, Complete, Interrupt
<1> QED
  BY <1>1, <1>2, <1>3, <1>4

LEMMA CallSteps ==
  ASSUME IInv
  PROVE  /\ Refuse => Store!Refuse
         /\ \A r \in Store!Requests : Describe(r) => Store!Begin(r)
         /\ Finish => Store!Return
<1>1. ASSUME Refuse PROVE Store!Refuse
  <2>1. req = None
    BY <1>1 DEF Refuse, IInv, FrameOfCall
  <2> QED
    BY <1>1, <2>1 DEF Refuse, Store!Refuse, Store!Err, outcome, callVars, memVars
<1>2. ASSUME NEW r \in Store!Requests, Describe(r) PROVE Store!Begin(r)
  <2>1. req = None /\ outcome = None
    BY <1>2, OutcomeFacts DEF Describe, IInv, FrameOfCall
  <2>2. outcome' = None
    BY <1>2 DEF Describe, outcome
  <2> QED
    BY <1>2, <2>1, <2>2 DEF Describe, Store!Begin
<1>3. ASSUME Finish PROVE Store!Return
  <2>1. req # None /\ "chain" \notin pending /\ frame.status \in {0, 1}
    BY <1>3 DEF Finish, IInv, TypeOK, FrameOfCall, Served, Stores
  <2>2. outcome # None
    <3> DEFINE data == IF req.op = "read" THEN frame.data ELSE None
    <3>1. data \in Blocks \cup {None}
      BY <1>3 DEF IInv, TypeOK, Frames, Block
    <3>2. /\ [error |-> None, data |-> data] \in Store!Results
          /\ [error |-> "IoError", data |-> None] \in Store!Results
      <4> HIDE DEF data
      <4> QED
        BY <3>1 DEF Store!Results, Store!Ok, Store!Err, Store!Errors
    <3>3. outcome = IF frame.status = 0 THEN [error |-> None, data |-> data]
                    ELSE [error |-> "IoError", data |-> None]
      BY <2>1 DEF outcome
    <3> HIDE DEF data
    <3> QED
      BY <3>2, <3>3, NoneAssumption
  <2>3. ret' \in {outcome, Store!Err("UsedIdMismatch")}
    BY <1>3, <2>1 DEF Finish, outcome, Store!Err
  <2>4. outcome' = None
    BY <1>3 DEF Finish, outcome
  <2> QED
    BY <1>3, <2>1, <2>2, <2>3, <2>4 DEF Finish, Store!Return
<1> QED
  BY <1>1, <1>2, <1>3

LEMMA ServeSteps ==
  ASSUME IInv, ServeRead \/ ServeWrite \/ ServeError
  PROVE  Store!Serve
<1>1. /\ req # None /\ req \in Store!Requests /\ device.chain = req
      /\ "chain" \notin pending /\ outcome = None
      /\ (req.op = "write" => frame.data = req.data)
      /\ UNCHANGED <<req, pending, ret>>
  BY OutcomeFacts DEF ServeRead, ServeWrite, ServeError, Answer, callVars
<1>2. frame \in Frames
  BY DEF IInv, TypeOK
<1>3. ASSUME ServeRead PROVE Store!ReadBlock
  <2>1. frame'.status = 0 /\ frame'.data = disk[req.sector]
    BY <1>1, <1>2, <1>3 DEF ServeRead, Answer, Frames
  <2>2. outcome' = [error |-> None, data |-> disk[req.sector]]
    BY <1>1, <1>3, <2>1 DEF ServeRead, outcome
  <2> QED
    BY <1>1, <1>3, <2>2 DEF ServeRead, Store!ReadBlock, Store!Awaited, Store!Ok
<1>4. ASSUME ServeWrite PROVE Store!WriteBlock
  <2>1. frame'.status = 0
    BY <1>2, <1>4 DEF ServeWrite, Answer, Frames
  <2>2. outcome' = [error |-> None, data |-> None]
    BY <1>1, <1>4, <2>1 DEF ServeWrite, outcome
  <2>3. disk' = [disk EXCEPT ![req.sector] = req.data]
    BY <1>1, <1>4 DEF ServeWrite
  <2> QED
    BY <1>1, <1>4, <2>2, <2>3 DEF ServeWrite, Store!WriteBlock, Store!Awaited, Store!Ok
<1>5. ASSUME ServeError PROVE Store!FailRequest
  <2>1. frame'.status = 1
    BY <1>2, <1>5 DEF ServeError, Answer, Frames
  <2>2. outcome' = [error |-> "IoError", data |-> None]
    BY <1>1, <2>1 DEF outcome
  <2>3. \/ disk' = disk
        \/ /\ req.op = "write" /\ req.sector \in DOMAIN disk
           /\ disk' = [disk EXCEPT ![req.sector] = req.data]
    BY <1>1, <1>5 DEF ServeError
  <2> QED
    BY <1>1, <2>2, <2>3 DEF Store!FailRequest, Store!Awaited, Store!Err
<1> QED
  BY <1>3, <1>4, <1>5 DEF Store!Serve

LEMMA NextStore == IInv /\ [Next]_vars => [Store!StoreNext]_storeVars
<1> SUFFICES ASSUME IInv, [Next]_vars PROVE [Store!StoreNext]_storeVars
  OBVIOUS
<1>1. CASE UNCHANGED vars
  BY <1>1 DEF vars, storeVars, outcome, driverVars, callVars, memVars
<1>2. CASE Refuse \/ (\E r \in Store!Requests : Describe(r)) \/ Finish
  BY <1>2, CallSteps DEF Store!StoreNext
<1>3. CASE ServeRead \/ ServeWrite \/ ServeError
  BY <1>3, ServeSteps DEF Store!StoreNext
<1>4. CASE init \/ Drain \/ (DriverStep /\ ~Finish)
           \/ (DeviceStep /\ ~(ServeRead \/ ServeWrite \/ ServeError))
  <2>1. UNCHANGED <<disk, req, ret>>
    BY <1>4 DEF init, InitAgain, InitNoDevice, InitRejected, InitQueue, Open, Drain, DriverStep,
       ReleaseFence, Publish, Notify, Poll, Take, DeviceStep, Fetch, Sleep, Complete, Interrupt,
       callVars, memVars
  <2>2. CASE ServeRead \/ ServeWrite \/ ServeError
    BY <2>2, <1>3
  <2> QED
    BY <1>4, <2>1, <2>2, SilentSteps
<1> QED
  BY <1>1, <1>2, <1>3, <1>4 DEF Next

(* The driver, its queue and the device together are the block store that  *)
(* read_sector and write_sector promise: every request takes effect once,  *)
(* between its call and its return, and the caller is told what happened.  *)
THEOREM Refinement == Spec => ImplementsStore
<1>1. Init => Store!StoreInit
  BY DEF Init, Store!StoreInit, outcome
<1>2. IInv /\ [Next]_vars => [Store!StoreNext]_(Store!storeVars)
  BY NextStore DEF storeVars, Store!storeVars
<1> QED
  BY <1>1, <1>2, Invariance, PTL DEF Spec, ImplementsStore, Store!StoreSpec
=============================================================================
