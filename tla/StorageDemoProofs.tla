-------------------------- MODULE StorageDemoProofs --------------------------
(***************************************************************************)
(* What the demo kernel does to the disk, for every disk, every contents   *)
(* and a device that may lie about its writes.                             *)
(***************************************************************************)
EXTENDS StorageDemo, TLAPS

Transfers == {"read", "write", "verify", "restore"}

(* At most the request of the current step is under way; the buffers hold  *)
(* blocks once they have been read.                                        *)
CallOfStep ==
  /\ step \in {"off", "failed", "passed", "init"} \cup Transfers
  /\ undisturbed \in BOOLEAN
  /\ first \in [DOMAIN first -> Blocks] /\ disk \in [DOMAIN first -> Blocks]
  /\ step \in Transfers => target_sector \in DOMAIN disk
  /\ step \in {"write", "verify", "restore"} => original \in Blocks
  /\ call # None => step \in Transfers /\ call = Request
  /\ outcome # None => call # None

(* What an Ok that is on its way to the kernel means.                      *)
Told ==
  outcome # None /\ outcome.error = None =>
    /\ step \in {"read", "verify"} => outcome.data = disk[target_sector]
    /\ step = "restore" /\ undisturbed => disk[target_sector] = original

(* While nothing has gone wrong, the disk is the first one up to the       *)
(* sector in use, whose contents are in `original`.                        *)
Kept ==
  undisturbed =>
    /\ step # "failed"
    /\ step \in {"off", "passed", "init", "read"} => disk = first
    /\ step \in {"write", "verify", "restore"} =>
         /\ original = first[target_sector]
         /\ \A s \in DOMAIN first : s # target_sector => disk[s] = first[s]

IInv == CallOfStep /\ Told /\ Kept /\ PassMeansStored

-----------------------------------------------------------------------------
LEMMA ResultFacts ==
  /\ \A b \in Blocks \cup {None} : Ok(b) # None /\ Ok(b).error = None /\ Ok(b).data = b
  /\ \A e \in Errors : Err(e) # None /\ Err(e).error # None
BY DemoAssumption DEF Results, Ok, Err

LEMMA RequestFacts ==
  /\ Request.sector = target_sector
  /\ step \in {"read", "verify"} => Request.op = "read"
  /\ step = "write" => Request.op = "write" /\ Request.data = Pattern
  /\ step = "restore" => Request.op = "write" /\ Request.data = original
BY DEF Request

LEMMA InitIInv == Init => IInv
BY DemoAssumption DEF Init, StoreInit, IInv, CallOfStep, Told, Kept, PassMeansStored, Transfers

(* The kernel is outside a call, or the machine stops.                     *)
LEMMA KernelStep ==
  ASSUME IInv, Boot \/ InitDriver \/ Ask \/ PowerOff
  PROVE  IInv'
<1> USE DEF IInv, CallOfStep, Told, Kept, PassMeansStored, Transfers, target_sector
<1>1. CASE Boot
  BY <1>1 DEF Boot
<1>2. CASE InitDriver
  <2>1. step = "init" /\ call = None /\ UNCHANGED <<disk, call, outcome, original, first>>
    BY <1>2 DEF InitDriver, storeVars
  <2>2. \/ step' = "failed" /\ ~undisturbed' /\ undisturbed' \in BOOLEAN
        \/ step' = "read" /\ undisturbed' = undisturbed /\ target_sector \in DOMAIN disk
    BY <1>2 DEF InitDriver, Shutdown
  <2> QED
    BY <2>1, <2>2
<1>3. CASE Ask
  BY <1>3 DEF Ask, Begin, Request
<1>4. CASE PowerOff
  BY <1>4 DEF PowerOff
<1> QED
  BY <1>1, <1>2, <1>3, <1>4

(* The request is served: only the sector in use may change, and only by a *)
(* write.                                                                  *)
LEMMA DeviceStep ==
  ASSUME IInv, Device
  PROVE  IInv'
<1> USE DEF target_sector
<1>1. /\ call # None /\ call = Request /\ step \in Transfers /\ target_sector \in DOMAIN disk
      /\ outcome = None
      /\ UNCHANGED <<step, original, first, call>>
      /\ undisturbed' \in BOOLEAN /\ (undisturbed' => undisturbed)
      /\ undisturbed' /\ outcome' = Ok(None) => disk'[call.sector] = call.data
  BY DEF Device, Serve, ReadBlock, WriteBlock, FailRequest, Awaited, IInv, CallOfStep
<1>2. CASE ReadBlock
  <2>1. /\ step \in {"read", "verify"} /\ disk' = disk
        /\ outcome' = Ok(disk[target_sector]) /\ disk[target_sector] \in Blocks
    <3>1. call.op = "read" /\ call.sector = target_sector
      BY <1>1, <1>2, RequestFacts DEF ReadBlock
    <3>2. step \in {"read", "verify"}
      BY <1>1, <3>1, RequestFacts DEF Transfers
    <3> QED
      BY <1>1, <1>2, <3>1, <3>2 DEF ReadBlock, IInv, CallOfStep
  <2>2. /\ outcome' # None /\ outcome'.error = None
        /\ outcome'.data = disk[target_sector]
    BY <2>1, ResultFacts
  <2> QED
    BY <1>1, <2>1, <2>2 DEF IInv, CallOfStep, Told, Kept, PassMeansStored, Transfers, Request
<1>3. CASE WriteBlock \/ FailRequest
  <2>1. /\ step \in {"read", "verify"} => disk' = disk
        /\ \/ disk' = disk
           \/ \E b \in Blocks : disk' = [disk EXCEPT ![target_sector] = b]
    BY <1>1, <1>3, RequestFacts, DemoAssumption DEF WriteBlock, FailRequest, Transfers, IInv,
       CallOfStep
  <2>2. /\ disk' \in [DOMAIN first -> Blocks]
        /\ \A s \in DOMAIN first : s # target_sector => disk'[s] = disk[s]
    BY <1>1, <2>1 DEF IInv, CallOfStep
  <2>3. outcome' # None
        /\ (outcome'.error = None => WriteBlock /\ outcome' = Ok(None))
    BY <1>3, ResultFacts DEF WriteBlock, FailRequest, Errors
  <2>4. WriteBlock => step \in {"write", "restore"}
    BY <1>1, RequestFacts DEF WriteBlock, Transfers
  <2>5. step = "restore" /\ undisturbed' /\ outcome'.error = None =>
          disk'[target_sector] = original
    BY <1>1, <2>3, RequestFacts
  <2>6. CallOfStep'
    BY <1>1, <2>2 DEF IInv, CallOfStep, Transfers, Request
  <2>7. Told' /\ PassMeansStored'
    BY <1>1, <2>3, <2>4, <2>5 DEF Told, PassMeansStored
  <2>8. Kept'
    BY <1>1, <2>1, <2>2 DEF IInv, Kept, Transfers
  <2> QED
    BY <2>6, <2>7, <2>8 DEF IInv
<1> QED
  BY <1>2, <1>3 DEF Device, Serve

(* A call returns: an Ok is the store's own.                               *)
LEMMA ReturnStep ==
  ASSUME IInv, Fails \/ HasRead \/ HasWritten \/ Verified \/ Restored
  PROVE  IInv'
<1> USE DEF target_sector
<1>1. /\ Return /\ call' = None /\ outcome' = None /\ disk' = disk /\ first' = first
      /\ outcome # None
      /\ step \in Transfers /\ target_sector \in DOMAIN disk
  BY DEF Fails, HasRead, HasWritten, Verified, Restored, GoesOn, Return, IInv, CallOfStep
<1>2. ret'.error = None => ret' = outcome
  BY <1>1, ResultFacts DEF Return, Errors
<1> USE DEF IInv, CallOfStep, Told, Kept, PassMeansStored, Transfers
<1>3. CASE Fails
  BY <1>1, <1>3 DEF Fails, Shutdown
<1>4. CASE HasRead
  BY <1>1, <1>2, <1>4 DEF HasRead, GoesOn
<1>5. CASE HasWritten
  BY <1>1, <1>5 DEF HasWritten, GoesOn
<1>6. CASE Verified
  BY <1>1, <1>2, <1>6 DEF Verified, GoesOn, first_mismatch
<1>7. CASE Restored
  <2>1. step' = "passed" /\ undisturbed' = undisturbed /\ original' = original
    BY <1>7 DEF Restored, Shutdown
  <2>2. undisturbed => disk = first
    BY <1>1, <1>2, <1>7 DEF Restored
  <2> QED
    BY <1>1, <2>1, <2>2
<1> QED
  BY <1>3, <1>4, <1>5, <1>6, <1>7

THEOREM Invariance == Spec => []IInv
<1>1. IInv /\ [Next]_vars => IInv'
  <2> SUFFICES ASSUME IInv, [Next]_vars PROVE IInv'
    OBVIOUS
  <2>1. CASE UNCHANGED vars
    BY <2>1 DEF vars, storeVars, IInv, CallOfStep, Told, Kept, PassMeansStored, Request
  <2> QED
    BY <2>1, KernelStep, DeviceStep, ReturnStep DEF Next
<1> QED
  BY InitIInv, <1>1, PTL DEF Spec

(* After any number of runs that all passed, on any disk, the disk is what *)
(* it was before the first.                                                *)
THEOREM DiskKept == Spec => []KeepsTheDisk
<1>1. IInv => KeepsTheDisk
  BY DEF IInv, Kept, KeepsTheDisk
<1> QED
  BY <1>1, Invariance, PTL

(* "verify: pass" is never printed of a write that was lost.               *)
THEOREM PassIsStored == Spec => []PassMeansStored
<1>1. IInv => PassMeansStored
  BY DEF IInv
<1> QED
  BY <1>1, Invariance, PTL
=============================================================================
