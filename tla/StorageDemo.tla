----------------------------- MODULE StorageDemo -----------------------------
(***************************************************************************)
(* The demo kernel of ch1-storage over the store the storage crate         *)
(* promises: read sector 1, overwrite it with a pattern, read it back,     *)
(* compare, restore.  The machine may lose power at any step and is booted *)
(* again after a shutdown; only the disk survives.                         *)
(***************************************************************************)
EXTENDS BlockStore

CONSTANT Pattern        \* build_pattern(&mut write_buf, target_sector)

ASSUME DemoAssumption ==
  /\ Pattern \in Blocks /\ 1 \in Sectors
  /\ \A d \in Disks : d \in [DOMAIN d -> Blocks]
  /\ None \notin Blocks \cup Errors \cup Requests \cup Results

VARIABLES step, original,
          first, undisturbed     \* history: the first disk, whether all went well

vars == <<storeVars, step, original, first, undisturbed>>

target_sector == 1

Init ==
  /\ StoreInit
  /\ step = "off" /\ original = None
  /\ first = disk /\ undisturbed = TRUE

(* shutdown(failure)                                                       *)
Shutdown(failure) ==
  /\ step' = IF failure THEN "failed" ELSE "passed"
  /\ undisturbed' = (undisturbed /\ ~failure)

Boot ==
  /\ step \in {"off", "failed", "passed"}
  /\ step' = "init" /\ original' = None /\ ret' = None
  /\ UNCHANGED <<disk, call, outcome, first, undisturbed>>

(* init() fails, or brings the capacity of the disk.                       *)
InitDriver ==
  /\ step = "init"
  /\ \/ Shutdown(TRUE)
     \/ target_sector \notin DOMAIN disk /\ Shutdown(TRUE)
     \/ /\ target_sector \in DOMAIN disk
        /\ step' = "read" /\ UNCHANGED undisturbed
  /\ UNCHANGED <<storeVars, original, first>>

(* Mutant: the wrong buffer is written back.                               *)
RequestPattern ==
  [op     |-> IF step \in {"read", "verify"} THEN "read" ELSE "write",
   sector |-> target_sector,
   data   |-> IF step \in {"write", "restore"} THEN Pattern ELSE None]

Request ==
  [op     |-> IF step \in {"read", "verify"} THEN "read" ELSE "write",
   sector |-> target_sector,
   data   |-> IF step = "write" THEN Pattern
              ELSE IF step = "restore" THEN original ELSE None]

Ask ==
  /\ step \in {"read", "write", "verify", "restore"}
  /\ Begin(Request)
  /\ UNCHANGED <<step, original, first, undisturbed>>

(* The store serves the request; `undisturbed` remembers if it lied.       *)
Device ==
  /\ Serve
  /\ undisturbed' = (undisturbed /\ (outcome' = Ok(None) => disk'[call.sector] = call.data))
  /\ UNCHANGED <<step, original, first>>

SameAsOriginal(verify) == verify = original     \* mutant: compares the wrong buffers

first_mismatch(verify) == verify # Pattern

(* A call returns; fail(...) on an error, else on to the next step.        *)
Fails ==
  /\ Return
  /\ \/ ret'.error # None
     \/ step = "verify" /\ first_mismatch(ret'.data)
  /\ Shutdown(TRUE)
  /\ UNCHANGED <<original, first>>

GoesOn(from, to) ==
  /\ step = from /\ Return /\ ret'.error = None
  /\ step' = to
  /\ UNCHANGED <<first, undisturbed>>

HasRead    == GoesOn("read", "write") /\ original' = ret'.data
HasWritten == GoesOn("write", "verify") /\ UNCHANGED original
Verified   ==
  GoesOn("verify", "restore") /\ ~first_mismatch(ret'.data) /\ UNCHANGED original

Restored ==
  /\ step = "restore" /\ Return /\ ret'.error = None
  /\ Shutdown(FALSE)
  /\ UNCHANGED <<original, first>>

(* The machine stops anywhere; what the device has done by then is done.   *)
PowerOff ==
  /\ step \notin {"off", "failed", "passed"}
  /\ step' = "off" /\ original' = None
  /\ call' = None /\ outcome' = None /\ ret' = None
  /\ undisturbed' = FALSE
  /\ UNCHANGED <<disk, first>>

Next == Boot \/ InitDriver \/ Ask \/ Device \/ Fails \/ HasRead \/ HasWritten
          \/ Verified \/ Restored \/ PowerOff

Spec == Init /\ [][Next]_vars

-----------------------------------------------------------------------------
(* As long as every boot ended in shutdown(false) and the device kept its  *)
(* word, the disk is at rest what it was before the first boot: the        *)
(* pattern stays on it only after a failed, cut-off or cheated run.        *)
KeepsTheDisk == step \in {"off", "passed"} /\ undisturbed => disk = first

(* Once the kernel has printed "verify: pass", the pattern is on the disk  *)
(* until the restoring write is served, even if a device lied when it was  *)
(* written.                                                                *)
PassMeansStored ==
  step = "restore" /\ outcome = None => disk[target_sector] = Pattern
=============================================================================
