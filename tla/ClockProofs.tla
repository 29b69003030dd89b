---------------------------- MODULE ClockProofs -----------------------------
(***************************************************************************)
(* The clock kernel, however the stage before leaves the timer and         *)
(* wherever ra points when the handler returns.                            *)
(***************************************************************************)
EXTENDS ClockKernel, TLAPS

(* An interrupt that is on has not been taken yet.                         *)
OnUntilTaken ==
  /\ ticks \in {0, 1}
  /\ sie => ticks = 0

(* The handler runs with interrupts off, for the first interrupt since     *)
(* SIE was set or for an exception.                                        *)
InHandler ==
  pc = "handler" => /\ sie = FALSE
                    /\ cause = "timer" => ticks = 0

(* Nothing can trap before stvec is written: interrupts are off and the    *)
(* places that read the time are not reached.                              *)
VectorSet ==
  /\ pc # "lost"
  /\ pc \in {"start", "stvec"} \/ stvec = "trap_handler"
  /\ sie => stvec = "trap_handler"

(* Where rdtime works, only timer interrupts come.                         *)
NoException == rdtime = "works" => pc # "halt" /\ (pc = "handler" => cause = "timer")

(* ra is what it was when the handler's frame was laid out.                *)
ReturnKnown == ra \in ReturnsTo

ClockInv == OnUntilTaken /\ InHandler /\ VectorSet /\ NoException /\ ReturnKnown

LEMMA InitClock == Init => ClockInv
BY DEF Init, ClockInv, OnUntilTaken, InHandler, VectorSet, NoException, ReturnKnown

LEMMA TrapClock ==
  ASSUME ClockInv, NEW why, Trap(why), stvec = "trap_handler",
         why = "timer" => sie, why # "timer" => rdtime # "works"
  PROVE  ClockInv'
<1>1. /\ pc' = "handler" /\ sie' = FALSE /\ cause' = why
      /\ UNCHANGED <<ra, rdtime, stvec, ticks>>
  BY DEF Trap, hart
<1> QED
  BY <1>1 DEF ClockInv, OnUntilTaken, InHandler, VectorSet, NoException, ReturnKnown

(* The steps from one place to the next that change neither the hart nor   *)
(* what the handler was called for.                                        *)
LEMMA GotoClock ==
  ASSUME ClockInv, ra' = ra, rdtime' = rdtime, cause' = cause,
         pc' \notin {"handler", "halt", "lost", "start"},
         stvec' = "trap_handler" \/ (pc' = "stvec" /\ stvec' = stvec),
         \/ sie' = sie /\ ticks' = ticks
         \/ ticks' = 0 /\ stvec' = "trap_handler"
         \/ sie' = FALSE /\ ticks' = 1
  PROVE  ClockInv'
<1>1. OnUntilTaken'
  BY DEF ClockInv, OnUntilTaken
<1>2. VectorSet'
  BY DEF ClockInv, VectorSet
<1> QED
  BY <1>1, <1>2 DEF ClockInv, InHandler, NoException, ReturnKnown

LEMMA NextClock == ClockInv /\ [Next]_vars => ClockInv'
<1> SUFFICES ASSUME ClockInv, [Next]_vars
             PROVE  ClockInv'
  OBVIOUS
<1> USE DEF Goto, hart, csrs
<1>1. CASE PrintStart
  BY <1>1, GotoClock DEF PrintStart
<1>2. CASE WriteStvec \/ SetStimer
  <2>1. stvec' = "trap_handler"
    BY <1>2 DEF WriteStvec, SetStimer, ClockInv, VectorSet
  <2> QED
    BY <1>2, <2>1, GotoClock DEF WriteStvec, SetStimer
<1>10. CASE SetSie
  <2>1. stvec' = "trap_handler" /\ ticks' = 0 /\ sie' = TRUE
    BY <1>10 DEF SetSie, ClockInv, VectorSet
  <2>2. pc' = "arm" /\ ra' = ra /\ rdtime' = rdtime /\ cause' = cause
    BY <1>10 DEF SetSie
  <2> QED
    BY <2>1, <2>2, GotoClock
<1>3. CASE SetNextTimer("arm", "wfi") \/ SetNextTimer("rearm", "ret")
  <2>1. stvec' = "trap_handler"
    BY <1>3 DEF SetNextTimer, ClockInv, VectorSet
  <2> QED
    BY <1>3, <2>1, GotoClock DEF SetNextTimer
<1>4. CASE IllegalRdtime
  <2>1. stvec = "trap_handler"
    BY <1>4 DEF IllegalRdtime, ClockInv, VectorSet
  <2> QED
    BY <1>4, <2>1, TrapClock DEF IllegalRdtime
<1>5. CASE TimerInterrupt
  <2>1. stvec = "trap_handler"
    BY <1>5 DEF TimerInterrupt, ClockInv, VectorSet
  <2> QED
    BY <1>5, <2>1, TrapClock DEF TimerInterrupt
<1>6. CASE Tick
  <2>1. ticks = 0 /\ sie' = FALSE /\ ticks' = 1 /\ stvec' = "trap_handler"
    BY <1>6 DEF Tick, ClockInv, InHandler, VectorSet
  <2>2. pc' = "rearm" /\ ra' = ra /\ rdtime' = rdtime /\ cause' = cause
    BY <1>6 DEF Tick
  <2> QED
    BY <2>1, <2>2, GotoClock
<1>7. CASE Exception
  BY <1>7 DEF Exception, ClockInv, OnUntilTaken, InHandler, VectorSet, NoException,
     ReturnKnown
<1>8. CASE ReturnFromHandler
  <2>1. /\ pc = "ret" /\ pc' = ra /\ ra \in {"wfi", "stvec", "spin"}
        /\ UNCHANGED <<hart, csrs, ticks>>
    BY <1>8, ClockAssumption DEF ReturnFromHandler, ClockInv, ReturnKnown
  <2>2. stvec' = "trap_handler"
    BY <2>1 DEF ClockInv, VectorSet
  <2> QED
    BY <2>1, <2>2, GotoClock
<1>9. CASE Expire \/ UNCHANGED vars
  BY <1>9 DEF Expire, vars, ClockInv, OnUntilTaken, InHandler, VectorSet, NoException,
     ReturnKnown
<1> QED
  BY <1>1, <1>2, <1>3, <1>4, <1>5, <1>6, <1>7, <1>8, <1>9, <1>10 DEF Next, Hart

(* After kernel_main has set SIE the handler prints at most one "T",       *)
(* wherever its `ret` leads and whatever the timer does.                   *)
THEOREM OneTick == Spec => []OneTickPerEnable
<1>1. ClockInv => OneTickPerEnable
  BY DEF ClockInv, OnUntilTaken, OneTickPerEnable
<1> QED
  BY <1>1, InitClock, NextClock, PTL DEF Spec

(* No trap finds stvec unwritten, and where rdtime works no exception      *)
(* halts the kernel: a timer left pending by the stage before is harmless. *)
AlwaysHandled == pc # "lost" /\ (rdtime = "works" => pc # "halt")

THEOREM TrapsHandled == Spec => []AlwaysHandled
<1>1. ClockInv => AlwaysHandled
  BY DEF ClockInv, VectorSet, NoException, AlwaysHandled
<1> QED
  BY <1>1, InitClock, NextClock, PTL DEF Spec
=============================================================================
