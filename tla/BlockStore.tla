----------------------------- MODULE BlockStore -----------------------------
(***************************************************************************)
(* What the storage crate promises the caller of read_sector and           *)
(* write_sector: one request at a time; Ok only after the device served    *)
(* it, and then a read brings the block that was stored and a write has    *)
(* replaced it; a failed write has replaced it or not; no other sector     *)
(* ever changes.                                                           *)
(***************************************************************************)
EXTENDS Integers

CONSTANTS Sectors,      \* the sector numbers callers pass
          Blocks,       \* the contents of a sector
          Disks,        \* what the disk may hold at first: maps of sectors to blocks
          Lying,        \* whether a write may report Ok and store something else
          None

VARIABLES disk, call, outcome, ret

storeVars == <<disk, call, outcome, ret>>

Requests ==
  [op : {"read"}, sector : Sectors, data : {None}] \cup
  [op : {"write"}, sector : Sectors, data : Blocks]

(* Result<(), StorageError>, with the block a read leaves in the buffer.   *)
Ok(b)  == [error |-> None, data |-> b]
Err(e) == [error |-> e, data |-> None]

Errors  == {"NotInitialized", "IoError", "UsedIdMismatch"}
Results == {Ok(b) : b \in Blocks \cup {None}} \cup {Err(e) : e \in Errors}

StoreInit == disk \in Disks /\ call = None /\ outcome = None /\ ret = None

Refuse ==
  /\ call = None
  /\ ret' = Err("NotInitialized")
  /\ UNCHANGED <<disk, call, outcome>>

Begin(r) ==
  /\ call = None
  /\ call' = r
  /\ UNCHANGED <<disk, outcome, ret>>

Awaited == call # None /\ outcome = None

ReadBlock ==
  /\ Awaited /\ call.op = "read" /\ call.sector \in DOMAIN disk
  /\ outcome' = Ok(disk[call.sector])
  /\ UNCHANGED <<disk, call, ret>>

WriteBlock ==
  /\ Awaited /\ call.op = "write" /\ call.sector \in DOMAIN disk
  /\ \E b \in IF Lying THEN Blocks ELSE {call.data} :
       disk' = [disk EXCEPT ![call.sector] = b]
  /\ outcome' = Ok(None)
  /\ UNCHANGED <<call, ret>>

FailRequest ==
  /\ Awaited
  /\ outcome' = Err("IoError")
  /\ \/ disk' = disk
     \/ /\ call.op = "write" /\ call.sector \in DOMAIN disk
        /\ disk' = [disk EXCEPT ![call.sector] = call.data]
  /\ UNCHANGED <<call, ret>>

(* The driver may report an error of its own for a request that was served. *)
Return ==
  /\ call # None /\ outcome # None
  /\ ret' \in {outcome, Err("UsedIdMismatch")}
  /\ call' = None /\ outcome' = None
  /\ UNCHANGED disk

Serve == ReadBlock \/ WriteBlock \/ FailRequest

StoreNext == Refuse \/ (\E r \in Requests : Begin(r)) \/ Serve \/ Return

StoreSpec == StoreInit /\ [][StoreNext]_storeVars
=============================================================================
