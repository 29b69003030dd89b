-------------------------------- MODULE Uart --------------------------------
(***************************************************************************)
(* The polling UART driver and its demo kernel.  The transmitter takes a   *)
(* byte from the holding register into its shift register and puts it on   *)
(* the line, at any speed; a byte written into a full holding register     *)
(* replaces the one that waits there.                                      *)
(***************************************************************************)
EXTENDS Integers, Sequences, SequencesExt

CONSTANTS Bytes,       \* what goes over the line
          Texts,       \* the sequence of strings the kernel prints
          None         \* an empty register

VARIABLES at, printed, rest,     \* place in uart_putc, texts begun, bytes to put
          thr, shift, line       \* the holding register, the shift register, the line

vars == <<at, printed, rest, thr, shift, line>>

Newline == "\n"
Return  == "\r"

ASSUME UartAssumption ==
  Texts \in Seq(Seq(Bytes)) /\ {Newline, Return} \subseteq Bytes /\ None \notin Bytes

Init ==
  /\ at = "init" /\ printed = 0 /\ rest = <<>>
  /\ thr = None /\ shift = None /\ line = <<>>

(* uart_init, and uart_println! for each text: the text, then a newline.   *)
UartInit == at = "init" /\ at' = "puts" /\ UNCHANGED <<printed, rest, thr, shift, line>>

Println ==
  /\ at = "puts" /\ rest = <<>>
  /\ IF printed = Len(Texts)
       THEN at' = "halt" /\ UNCHANGED <<printed, rest>>
       ELSE /\ printed' = printed + 1
            /\ rest' = Append(Texts[printed + 1], Newline)
            /\ UNCHANGED at
  /\ UNCHANGED <<thr, shift, line>>

PutNext ==
  /\ at = "puts" /\ rest # <<>>
  /\ at' = "poll"
  /\ UNCHANGED <<printed, rest, thr, shift, line>>

(* LSR_TX_READY: the holding register is empty.                            *)
TxIdle  == shift = None     \* mutant: the wrong register
TxBusy  == thr # None       \* mutant: the test is inverted
TxReady == thr = None

Poll(from, to) ==
  /\ at = from /\ TxReady
  /\ at' = to
  /\ UNCHANGED <<printed, rest, thr, shift, line>>

WriteByte ==
  /\ at = "write"
  /\ thr' = Head(rest)
  /\ rest' = Tail(rest)
  /\ at' = IF Head(rest) = Newline THEN "poll_return" ELSE "puts"
  /\ UNCHANGED <<printed, shift, line>>

WriteReturn ==
  /\ at = "write_return"
  /\ thr' = Return
  /\ at' = "puts"
  /\ UNCHANGED <<printed, rest, shift, line>>

Load ==
  /\ thr # None /\ shift = None
  /\ shift' = thr /\ thr' = None
  /\ UNCHANGED <<at, printed, rest, line>>

Shift ==
  /\ shift # None
  /\ line' = Append(line, shift) /\ shift' = None
  /\ UNCHANGED <<at, printed, rest, thr>>

Driver ==
  UartInit \/ Println \/ PutNext \/ Poll("poll", "write") \/ WriteByte
    \/ Poll("poll_return", "write_return") \/ WriteReturn

Next == Driver \/ Load \/ Shift

Spec == Init /\ [][Next]_vars

(* The hart runs and the transmitter goes on sending.                      *)
FairSpec == Spec /\ WF_vars(Driver) /\ WF_vars(Load) /\ WF_vars(Shift)

-----------------------------------------------------------------------------
(* What should be seen: the texts in order, every newline, also one inside *)
(* a text, followed by a carriage return.                                  *)
OnLine(bytes) ==
  FlattenSeq([i \in DOMAIN bytes |->
                IF bytes[i] = Newline THEN <<Newline, Return>> ELSE <<bytes[i]>>])

Expected == FlattenSeq([i \in DOMAIN Texts |-> OnLine(Append(Texts[i], Newline))])

(* What the UART has got so far is the beginning of it: no byte is lost by *)
(* writing over one that has not left yet, none is doubled or overtaken.   *)
Sent(register) == IF register = None THEN <<>> ELSE <<register>>

NothingLost == IsPrefix(line \o Sent(shift) \o Sent(thr), Expected)

(* uart_putc waits without bound, yet everything gets out.                 *)
AllPrinted == <>(at = "halt" /\ line = Expected)
=============================================================================
