----------------------------- MODULE ClockKernel -----------------------------
(***************************************************************************)
(* The clock kernel on one hart: kernel_main, init_timer and the trap      *)
(* vector, which is an ordinary function: it returns with `ret` to what ra *)
(* holds, and neither sepc nor sstatus is restored.  Time is the timer     *)
(* alone: off, armed, or due until it is armed again.                      *)
(***************************************************************************)
EXTENDS Integers

CONSTANTS EarlyTimers,    \* how the stage before may leave the timer
          ReturnsTo       \* where ra may point, by what the compiler inlines

(* "wfi": the loop of kernel_main.  "stvec": the call of put_char before   *)
(* an inlined init_timer.  "spin": the loop of boot.s behind kernel_main.  *)
ASSUME ClockAssumption ==
  EarlyTimers \subseteq {"off", "due"} /\ ReturnsTo \subseteq {"wfi", "stvec", "spin"}

VARIABLES pc, ra, stvec, stimer, sie,     \* the hart; sie is sstatus.SIE
          cause, rdtime,                  \* scause; whether rdtime traps
          timer, printed,                 \* the timer; what the UART has shown
          ticks                           \* history: "T"s since SIE was set last

hart == <<ra, rdtime>>
csrs == <<stvec, stimer, sie, cause>>
vars == <<pc, hart, csrs, timer, printed, ticks>>

(* _start clears sie and sstatus.                                          *)
Init ==
  /\ pc = "start" /\ ra \in ReturnsTo
  /\ stvec = "unset" /\ stimer = FALSE /\ sie = FALSE
  /\ cause = "none" /\ rdtime \in {"works", "traps"}
  /\ timer \in EarlyTimers
  /\ printed = {} /\ ticks = 0

Goto(from, to) == pc = from /\ pc' = to

PrintStart ==
  /\ Goto("start", "stvec")
  /\ printed' = printed \cup {"Start"}
  /\ UNCHANGED <<hart, csrs, timer, ticks>>

WriteStvec ==
  /\ Goto("stvec", "stimer")
  /\ stvec' = "trap_handler"
  /\ UNCHANGED <<hart, stimer, sie, cause, timer, printed, ticks>>

SetStimer ==
  /\ Goto("stimer", "sie")
  /\ stimer' = TRUE
  /\ UNCHANGED <<hart, stvec, sie, cause, timer, printed, ticks>>

SetSie ==
  /\ Goto("sie", "arm")
  /\ sie' = TRUE /\ ticks' = 0
  /\ UNCHANGED <<hart, stvec, stimer, cause, timer, printed>>

(* Mutant: nothing is programmed.                                          *)
SetNoTimer(from, to) ==
  /\ Goto(from, to) /\ rdtime = "works"
  /\ UNCHANGED <<hart, csrs, timer, printed, ticks>>

(* set_next_timer: rdtime, then the ecall that programs the timer and      *)
(* takes back an interrupt that is pending.                                *)
SetNextTimer(from, to) ==
  /\ Goto(from, to) /\ rdtime = "works"
  /\ timer' = "armed"
  /\ UNCHANGED <<hart, csrs, printed, ticks>>

Trap(why) ==
  /\ pc' = IF stvec = "trap_handler" THEN "handler" ELSE "lost"
  /\ cause' = why /\ sie' = FALSE
  /\ UNCHANGED <<hart, stvec, stimer, timer, printed, ticks>>

(* The interrupt may come before any instruction, once it is enabled.      *)
TimerInterrupt == sie /\ stimer /\ timer = "due" /\ Trap("timer")

IllegalRdtime == pc \in {"arm", "rearm"} /\ rdtime = "traps" /\ Trap("exception")

Tick ==
  /\ Goto("handler", "rearm") /\ cause = "timer"
  /\ printed' = printed \cup {"T"} /\ ticks' = ticks + 1
  /\ UNCHANGED <<hart, csrs, timer>>

Exception ==
  /\ Goto("handler", "halt") /\ cause # "timer"
  /\ printed' = printed \cup {"E"}
  /\ UNCHANGED <<hart, csrs, timer, ticks>>

(* Mutant: sret, which enables interrupts again.                           *)
ReturnWithSret ==
  /\ Goto("ret", ra) /\ sie' = TRUE
  /\ UNCHANGED <<hart, stvec, stimer, cause, timer, printed, ticks>>

ReturnFromHandler ==
  /\ Goto("ret", ra)
  /\ UNCHANGED <<hart, csrs, timer, printed, ticks>>

Expire ==
  /\ timer = "armed" /\ timer' = "due"
  /\ UNCHANGED <<pc, hart, csrs, printed, ticks>>

Hart ==
  PrintStart \/ WriteStvec \/ SetStimer \/ SetSie \/ SetNextTimer("arm", "wfi")
    \/ IllegalRdtime \/ Tick \/ Exception \/ SetNextTimer("rearm", "ret")
    \/ ReturnFromHandler

Next == Hart \/ TimerInterrupt \/ Expire

Spec == Init /\ [][Next]_vars
FairSpec == Spec /\ WF_vars(Hart) /\ WF_vars(TimerInterrupt) /\ WF_vars(Expire)

-----------------------------------------------------------------------------
(* The trap handler leaves interrupts off for good: after kernel_main has  *)
(* set SIE there is at most one "T", however often the timer expires, and  *)
(* a second one only where ra happens to lead back into init_timer.        *)
OneTickPerEnable == ticks <= 1

(* The clock ticks, though, as long as rdtime works: the first interrupt   *)
(* comes whatever the stage before left in the timer, and the kernel is    *)
(* ready for it.                                                           *)
FirstTick == rdtime = "works" => <>("T" \in printed)
=============================================================================
