------------------------------ MODULE JTAGUART ------------------------------
(***************************************************************************)
(* The JTAG UART (sopc_jtag_uart_0.v) and its driver                       *)
(* (altera_avalon_jtag_uart_{init,read,write,ioctl}.c): one program that   *)
(* calls the driver, the interrupt routine, the alarm that looks for the   *)
(* host every second, and the host at the other end of the cable.          *)
(*                                                                         *)
(* The driver is compiled in one of two forms: the small one polls the     *)
(* device, the fast one keeps a ring buffer in each direction that the     *)
(* interrupt routine fills or empties.  The system's BSP selects the small *)
(* one; "small" says which one runs.                                       *)
(*                                                                         *)
(* Characters are numbered in the order in which they are sent, so that a  *)
(* lost, repeated or misplaced one shows.                                  *)
(***************************************************************************)
EXTENDS Integers, Sequences, SequencesExt

CONSTANTS
  BUF_LEN,          \* ALTERA_AVALON_JTAG_UART_BUF_LEN (2048)
  RxDepth, TxDepth, \* words of the device's FIFOs (64 both)
  Mark,             \* almost full, almost empty: that many words (8)
  INT_MAX,
  DEFAULT_TIMEOUT,  \* ALTERA_AVALON_JTAG_UART_DEFAULT_TIMEOUT (10 seconds)
  Timeouts,         \* arguments of TIOCSTIMEOUT
  Sizes,            \* lengths of the program's requests, 0 among them
  MaxIn, MaxOut     \* bounds: characters the host sends, the program writes

ASSUME UARTAssumption ==
  /\ BUF_LEN \in Nat /\ BUF_LEN > 1
  /\ RxDepth \in Nat \ {0} /\ TxDepth \in Nat \ {0}
  /\ Mark \in Nat /\ Mark < RxDepth /\ Mark < TxDepth
  /\ INT_MAX \in Nat /\ INT_MAX > 4
  /\ DEFAULT_TIMEOUT \in 2..INT_MAX-2
  /\ Timeouts \subseteq Int /\ Sizes \subseteq Nat
  /\ MaxIn \in Nat /\ MaxOut \in Nat

VARIABLES
  \* the device
  rfifo, wfifo,     \* characters on the way to and from the program
  ien,              \* the interrupts enabled in the control register
  ac,               \* the host has been active
  pause_irq,        \* the host has paused with characters in rfifo
  \* altera_avalon_jtag_uart_state
  small,            \* compiled with ALTERA_AVALON_JTAG_UART_SMALL
  timeout, irq_enable, host_inactive,
  rx_in, rx_out, tx_in, tx_out, rx_buf, tx_buf,
  in_isr,           \* the interrupt routine is running
  \* the program's call
  pc, nonblock,
  in, out,          \* the call's copies of two of the indices
  n,                \* characters being moved
  left,             \* characters still to be moved
  moved,            \* characters moved by this call
  \* what the two ends have seen
  sent,             \* characters the host has sent
  inputs,           \* characters that were copied to the program
  written,          \* characters the driver has taken from the program
  outputs           \* characters the host has taken

device == <<rfifo, wfifo, ien, ac, pause_irq>>
receiver == <<rx_in, rx_out, rx_buf>>
transmitter == <<tx_in, tx_out, tx_buf>>
clock == <<timeout, host_inactive>>
call == <<pc, nonblock, in, out, n, left, moved>>
ends == <<sent, inputs, written, outputs>>
uartVars == <<device, small, clock, irq_enable, receiver, transmitter, in_isr,
              call, ends>>

Least(a, b) == IF a < b THEN a ELSE b
Plus(i, k) == (i + k) % BUF_LEN

-----------------------------------------------------------------------------
(* The device. *)

RI == "RE" \in ien /\ (pause_irq \/ RxDepth - Len(rfifo) <= Mark)
WI == "WE" \in ien /\ Len(wfifo) <= Mark
WSPACE == TxDepth - Len(wfifo)

av_irq == RI \/ WI

HostSends ==
  /\ sent < MaxIn /\ Len(rfifo) < RxDepth
  /\ rfifo' = Append(rfifo, sent + 1)
  /\ sent' = sent + 1
  /\ ac' = TRUE
  /\ UNCHANGED <<wfifo, ien, pause_irq, small, clock, irq_enable, receiver,
                 transmitter, in_isr, call, inputs, written, outputs>>

\* The host polls the device without sending: t_pause.
HostPauses ==
  /\ ac' = TRUE
  /\ pause_irq' = (pause_irq \/ rfifo # <<>>)
  /\ UNCHANGED <<rfifo, wfifo, ien, small, clock, irq_enable, receiver,
                 transmitter, in_isr, call, ends>>

HostTakes ==
  /\ wfifo # <<>>
  /\ outputs' = Append(outputs, Head(wfifo))
  /\ wfifo' = Tail(wfifo)
  /\ UNCHANGED <<rfifo, ien, ac, pause_irq, small, clock, irq_enable,
                 receiver, transmitter, in_isr, call, sent, inputs, written>>

-----------------------------------------------------------------------------
(* The interrupt routine: each pass of its loop is a step. *)

IsrEnter ==
  /\ ~small /\ ~in_isr /\ av_irq
  /\ in_isr' = TRUE
  /\ UNCHANGED <<device, small, clock, irq_enable, receiver, transmitter, call,
                 ends>>

IsrReturn ==
  /\ in_isr /\ ~av_irq
  /\ in_isr' = FALSE
  /\ UNCHANGED <<device, small, clock, irq_enable, receiver, transmitter, call,
                 ends>>

\* Mutant: the place that tells a full buffer from an empty one is used too.
RxRoom_Whole == IF rx_in = rx_out THEN BUF_LEN ELSE (rx_out - rx_in) % BUF_LEN

RxRoom == (rx_out - rx_in - 1) % BUF_LEN

TxUsed == (tx_in - tx_out) % BUF_LEN

\* The first k characters of the FIFO go to the ring buffer; what is left of
\* the FIFO when the buffer is full turns the interrupt off.
Receive(k) ==
  /\ rx_buf' = [i \in DOMAIN rx_buf |->
                  LET d == (i - rx_in) % BUF_LEN
                  IN  IF d < k THEN rfifo[d + 1] ELSE rx_buf[i]]
  /\ rx_in' = Plus(rx_in, k)
  /\ rfifo' = SubSeq(rfifo, k + 1, Len(rfifo))
  \* a pass that reads the data register clears pause_irq
  /\ pause_irq' = (pause_irq /\ RxRoom = 0)

\* The routine begins with data saying "available", so that a buffer that was
\* full all along counts as well.
ReceiverFull(k) == RxRoom = 0 \/ (k = RxRoom /\ Len(rfifo) > k)

Send(k) ==
  /\ wfifo' = wfifo \o [i \in 1..k |-> tx_buf[Plus(tx_out, i - 1)]]
  /\ tx_out' = Plus(tx_out, k)
  /\ UNCHANGED <<tx_in, tx_buf>>

\* One pass, with the interrupts it clears in the control register.
IsrPass ==
  /\ in_isr /\ av_irq
  /\ LET rx == IF RI THEN Least(RxRoom, Len(rfifo)) ELSE 0
         tx == IF WI THEN Least(WSPACE, TxUsed) ELSE 0
         off == (IF RI /\ ReceiverFull(rx) THEN {"RE"} ELSE {})
                  \cup (IF WI /\ WSPACE > tx THEN {"WE"} ELSE {})
     IN  /\ IF RI THEN Receive(rx)
                  ELSE UNCHANGED <<receiver, rfifo, pause_irq>>
         /\ Send(tx)
         /\ irq_enable' = irq_enable \ off
         /\ ien' = irq_enable \ off
  /\ UNCHANGED <<ac, small, clock, rx_out, in_isr, call, ends>>

-----------------------------------------------------------------------------
(* The alarm, once a second. *)

HasAlarm == ~small /\ timeout # INT_MAX
HostGone == host_inactive >= timeout

Timeout ==
  /\ HasAlarm /\ ~in_isr
  /\ IF ac
     THEN /\ ac' = FALSE
          /\ ien' = irq_enable
          /\ host_inactive' = 0
     ELSE /\ host_inactive < INT_MAX - 2
          /\ host_inactive' = host_inactive + 1
          /\ UNCHANGED <<ac, ien>>
  /\ UNCHANGED <<rfifo, wfifo, pause_irq, small, timeout, irq_enable, receiver,
                 transmitter, in_isr, call, ends>>

-----------------------------------------------------------------------------
(* The program's calls.  They run when the interrupt routine does not.  *)

Begin(label, size, flag) ==
  /\ pc = "idle" /\ ~in_isr
  /\ pc' = label /\ nonblock' = flag /\ left' = size
  /\ UNCHANGED <<device, small, clock, irq_enable, receiver, transmitter,
                 in_isr, in, out, n, moved, ends>>

Running(label) == pc = label /\ ~in_isr

GoTo(label) == pc' = label /\ UNCHANGED <<nonblock, left, moved>>

Return ==
  /\ pc' = "idle"
  /\ nonblock' = FALSE /\ in' = 0 /\ out' = 0 /\ n' = 0
  /\ left' = 0 /\ moved' = 0

\* What a read or write that ends now returns: the small write always its count.
Outcome ==
  IF moved > 0 \/ pc = "SmallWrite" THEN "count"
  ELSE IF nonblock THEN "EWOULDBLOCK" ELSE "EIO"

CallWrite ==
  \E size \in Sizes, flag \in BOOLEAN :
    /\ written + size <= MaxOut
    /\ Begin(IF small THEN "SmallWrite" ELSE "WriteLoad", size, flag)

CallRead ==
  \E size \in Sizes, flag \in BOOLEAN :
    Begin(IF small THEN "SmallRead" ELSE "ReadLoad", size, flag)

CallClose == ~small /\ \E flag \in BOOLEAN : Begin("Close", 0, flag)

-----------------------------------------------------------------------------
(* altera_avalon_jtag_uart_write *)

\* What can be copied in one piece.
WriteSpace(i, o) ==
  IF i < o THEN o - 1 - i
  ELSE IF o > 0 THEN BUF_LEN - i ELSE BUF_LEN - 1 - i

WriteLoad ==
  /\ Running("WriteLoad")
  /\ IF left = 0
     THEN /\ UNCHANGED <<in, out, n>>
          /\ GoTo("Kick")
     ELSE /\ in' = tx_in /\ out' = tx_out
          /\ n' = Least(WriteSpace(tx_in, tx_out), left)
          /\ GoTo(IF n' = 0 THEN "Kick" ELSE "WriteCopy")
  /\ UNCHANGED <<device, small, clock, irq_enable, receiver, transmitter,
                 in_isr, ends>>

WriteCopy ==
  /\ Running("WriteCopy")
  /\ tx_buf' = [i \in DOMAIN tx_buf |-> IF i \in in..in+n-1
                                       THEN written + 1 + (i - in)
                                       ELSE tx_buf[i]]
  /\ left' = left - n /\ moved' = moved + n
  /\ pc' = "WriteAdvance"
  /\ UNCHANGED <<device, small, clock, irq_enable, receiver, tx_in, tx_out,
                 in_isr, nonblock, in, out, n, ends>>

WriteAdvance ==
  /\ Running("WriteAdvance")
  /\ tx_in' = Plus(in, n)
  /\ written' = written + n
  /\ GoTo("WriteLoad")
  /\ UNCHANGED <<device, small, clock, irq_enable, receiver, tx_out, tx_buf,
                 in_isr, in, out, n, sent, inputs, outputs>>

\* Mutant: the interrupt is enabled only when not everything was copied.
Kick_OnlyWhenFull ==
  /\ Running("Kick")
  /\ irq_enable' = IF left > 0 THEN irq_enable \cup {"WE"} ELSE irq_enable
  /\ ien' = irq_enable'
  /\ IF left > 0 /\ ~nonblock THEN GoTo("WriteWait") /\ UNCHANGED <<in, out, n>>
                             ELSE Return
  /\ UNCHANGED <<rfifo, wfifo, ac, pause_irq, small, clock, receiver,
                 transmitter, in_isr, ends>>

\* With interrupts disabled around it.
Kick ==
  /\ Running("Kick")
  /\ irq_enable' = irq_enable \cup {"WE"}
  /\ ien' = irq_enable'
  /\ IF left > 0 /\ ~nonblock
     THEN GoTo("WriteWait") /\ UNCHANGED <<in, out, n>>
     ELSE Return
  /\ UNCHANGED <<rfifo, wfifo, ac, pause_irq, small, clock, receiver,
                 transmitter, in_isr, ends>>

\* Mutant: the wait looks only at the buffer.
WriteWait_ForEver ==
  /\ Running("WriteWait")
  /\ out # tx_out
  /\ IF host_inactive > 0 THEN Return
                          ELSE GoTo("WriteLoad") /\ UNCHANGED <<in, out, n>>
  /\ UNCHANGED <<device, small, clock, irq_enable, receiver, transmitter,
                 in_isr, ends>>

\* Mutant: what ends the wait is an error.
WriteWait_Fail ==
  /\ Running("WriteWait")
  /\ out # tx_out \/ HostGone
  /\ Return
  /\ UNCHANGED <<device, small, clock, irq_enable, receiver, transmitter,
                 in_isr, ends>>

WriteWait ==
  /\ Running("WriteWait")
  /\ out # tx_out \/ HostGone
  /\ IF host_inactive > 0 THEN Return
                          ELSE GoTo("WriteLoad") /\ UNCHANGED <<in, out, n>>
  /\ UNCHANGED <<device, small, clock, irq_enable, receiver, transmitter,
                 in_isr, ends>>

\* The small form: one character whenever there is space.
SmallWrite ==
  /\ Running("SmallWrite")
  /\ IF left = 0
     THEN Return /\ UNCHANGED <<wfifo, written>>
     ELSE /\ WSPACE # 0
          /\ wfifo' = Append(wfifo, written + 1)
          /\ written' = written + 1
          /\ left' = left - 1 /\ moved' = moved + 1
          /\ UNCHANGED <<pc, nonblock, in, out, n>>
  /\ UNCHANGED <<rfifo, ien, ac, pause_irq, small, clock, irq_enable, receiver,
                 transmitter, in_isr, sent, inputs, outputs>>

-----------------------------------------------------------------------------
(* altera_avalon_jtag_uart_read *)

ReadAvailable(i, o) == IF i >= o THEN i - o ELSE BUF_LEN - o

\* A read of nothing is over before it looks.
ReadLoad ==
  /\ Running("ReadLoad")
  /\ IF left = 0
     THEN /\ UNCHANGED <<in, out, n>>
          /\ GoTo("ReadEnd")
     ELSE /\ in' = rx_in /\ out' = rx_out
          /\ n' = Least(ReadAvailable(rx_in, rx_out), left)
          /\ GoTo(IF n' > 0 THEN "ReadCopy"
                  ELSE IF moved > 0 \/ nonblock THEN "ReadEnd" ELSE "ReadWait")
  /\ UNCHANGED <<device, small, clock, irq_enable, receiver, transmitter,
                 in_isr, ends>>

ReadCopy ==
  /\ Running("ReadCopy")
  /\ inputs' = inputs \o [i \in 1..n |-> rx_buf[out + i - 1]]
  /\ left' = left - n /\ moved' = moved + n
  /\ pc' = "ReadAdvance"
  /\ UNCHANGED <<device, small, clock, irq_enable, receiver, transmitter,
                 in_isr, nonblock, in, out, n, sent, written, outputs>>

ReadAdvance ==
  /\ Running("ReadAdvance")
  /\ rx_out' = Plus(out, n)
  /\ GoTo(IF left > 0 THEN "ReadLoad" ELSE "ReadEnd")
  /\ UNCHANGED <<device, small, clock, irq_enable, rx_in, rx_buf, transmitter,
                 in_isr, in, out, n, ends>>

ReadWait ==
  /\ Running("ReadWait")
  /\ \/ in # rx_in /\ GoTo("ReadLoad") /\ UNCHANGED <<in, out, n>>
     \/ in = rx_in /\ HostGone /\ Return
  /\ UNCHANGED <<device, small, clock, irq_enable, receiver, transmitter,
                 in_isr, ends>>

\* What was read has made room: the interrupt is enabled again.
ReadEnd ==
  /\ Running("ReadEnd")
  /\ irq_enable' = IF moved > 0 THEN irq_enable \cup {"RE"} ELSE irq_enable
  /\ ien' = IF moved > 0 THEN irq_enable' ELSE ien
  /\ Return
  /\ UNCHANGED <<rfifo, wfifo, ac, pause_irq, small, clock, receiver,
                 transmitter, in_isr, ends>>

SmallRead ==
  /\ Running("SmallRead")
  /\ \/ /\ left > 0 /\ rfifo # <<>>
        /\ inputs' = Append(inputs, Head(rfifo))
        /\ rfifo' = Tail(rfifo) /\ pause_irq' = FALSE
        /\ left' = left - 1 /\ moved' = moved + 1
        /\ UNCHANGED <<pc, nonblock, in, out, n>>
     \/ /\ left = 0 \/ (rfifo = <<>> /\ (moved > 0 \/ nonblock))
        /\ Return
        /\ UNCHANGED <<inputs, rfifo, pause_irq>>
  /\ UNCHANGED <<wfifo, ien, ac, small, clock, irq_enable, receiver,
                 transmitter, in_isr, sent, written, outputs>>

-----------------------------------------------------------------------------
(* altera_avalon_jtag_uart_close and _ioctl *)

\* Waits for the interrupt routine to empty the buffer, or for the host to be
\* given up.
Close ==
  /\ Running("Close")
  /\ \/ (tx_out = tx_in \/ HostGone) /\ Return
     \/ tx_out # tx_in /\ ~HostGone /\ nonblock /\ Return
  /\ UNCHANGED <<device, small, clock, irq_enable, receiver, transmitter,
                 in_isr, ends>>

\* TIOCSTIMEOUT; TIOCGCONNECTED only reports ~HostGone.
SetTimeout ==
  /\ pc = "idle" /\ ~in_isr /\ HasAlarm
  /\ \E t \in Timeouts :
       timeout' = IF t \in 2..INT_MAX-1 THEN t ELSE INT_MAX - 1
  /\ UNCHANGED <<device, small, host_inactive, irq_enable, receiver,
                 transmitter, in_isr, call, ends>>

-----------------------------------------------------------------------------
\* After altera_avalon_jtag_uart_init; alt_alarm_start fails when the system
\* has no clock.
UARTInit ==
  /\ rfifo = <<>> /\ wfifo = <<>> /\ ac = FALSE /\ pause_irq = FALSE
  /\ small \in BOOLEAN
  /\ timeout \in {DEFAULT_TIMEOUT, INT_MAX}
  /\ irq_enable = IF small THEN {} ELSE {"RE"}
  /\ ien = irq_enable
  /\ host_inactive = 0
  /\ rx_in = 0 /\ rx_out = 0 /\ tx_in = 0 /\ tx_out = 0
  /\ rx_buf = [i \in 0..BUF_LEN-1 |-> 0]
  /\ tx_buf = [i \in 0..BUF_LEN-1 |-> 0]
  /\ in_isr = FALSE
  /\ pc = "idle" /\ nonblock = FALSE
  /\ in = 0 /\ out = 0 /\ n = 0 /\ left = 0 /\ moved = 0
  /\ sent = 0 /\ inputs = <<>> /\ written = 0 /\ outputs = <<>>

Host == HostSends \/ HostPauses \/ HostTakes
Isr == IsrEnter \/ IsrPass \/ IsrReturn
Begins == CallWrite \/ CallRead \/ CallClose \/ SetTimeout
Writing == WriteLoad \/ WriteCopy \/ WriteAdvance \/ Kick \/ WriteWait
Reading == ReadLoad \/ ReadCopy \/ ReadAdvance \/ ReadWait \/ ReadEnd
Proceeds == Writing \/ Reading \/ Close \/ SmallWrite \/ SmallRead

UARTNext == Host \/ Isr \/ Timeout \/ Begins \/ Proceeds

UARTSpec == UARTInit /\ [][UARTNext]_uartVars

\* The processor takes the interrupt, goes on with the program after it, and
\* the timer goes on ticking; of the host nothing is assumed.
UARTFairness ==
  /\ WF_uartVars(Isr)
  /\ WF_uartVars(Timeout)
  /\ WF_uartVars(Proceeds)

FairUARTSpec == UARTSpec /\ UARTFairness

-----------------------------------------------------------------------------
(* Properties. *)

Labels == {"idle", "WriteLoad", "WriteCopy", "WriteAdvance", "Kick",
           "WriteWait", "SmallWrite", "ReadLoad", "ReadCopy", "ReadAdvance",
           "ReadWait", "ReadEnd", "SmallRead", "Close"}

\* The indices stay in the buffers, the counts within their bounds and the
\* FIFOs within their depth.
UARTTypeOK ==
  /\ Len(rfifo) <= RxDepth /\ Len(wfifo) <= TxDepth
  /\ ien \subseteq {"RE", "WE"} /\ irq_enable \subseteq {"RE", "WE"}
  /\ ac \in BOOLEAN /\ pause_irq \in BOOLEAN /\ small \in BOOLEAN
  /\ in_isr \in BOOLEAN /\ nonblock \in BOOLEAN
  /\ timeout \in 2..INT_MAX /\ host_inactive \in 0..INT_MAX-2
  /\ rx_in \in 0..BUF_LEN-1 /\ rx_out \in 0..BUF_LEN-1
  /\ tx_in \in 0..BUF_LEN-1 /\ tx_out \in 0..BUF_LEN-1
  /\ in \in 0..BUF_LEN-1 /\ out \in 0..BUF_LEN-1 /\ n \in 0..BUF_LEN-1
  /\ left \in Nat /\ moved \in Nat
  /\ pc \in Labels

UpTo(k) == [i \in 1..k |-> i]

\* Every character the host sends reaches the program once and in order,
\* whatever the interrupt routine does between two accesses of read().
InputIntact ==
  LET copied == IF pc = "ReadAdvance" THEN n ELSE 0
      buffered == [i \in 1..((rx_in - rx_out) % BUF_LEN) - copied |->
                     rx_buf[Plus(rx_out, copied + i - 1)]]
  IN  inputs \o buffered \o rfifo = UpTo(sent)

\* Every character the driver takes from the program reaches the host once and
\* in order; one that write() has not counted is never sent.
OutputIntact ==
  LET buffered == [i \in 1..TxUsed |-> tx_buf[Plus(tx_out, i - 1)]]
  IN  outputs \o wfifo \o buffered = UpTo(written)

\* No character is lost, repeated or overtaken in either direction, in the
\* driver's rings and in the device.
CharactersIntact == UARTTypeOK /\ InputIntact /\ OutputIntact

\* The receive interrupt is off only while the buffer is full or a read that
\* has made room is on its way to enable it.
ReceiverAwake ==
  \/ small \/ "RE" \in ien \/ RxRoom = 0
  \/ pc \in {"ReadLoad", "ReadCopy", "ReadAdvance", "ReadEnd"} /\ moved > 0

\* While the transmit buffer holds a character the transmit interrupt is on,
\* or the write that put it there is on its way to enable it.
TransmitterAwake ==
  \/ tx_in = tx_out \/ "WE" \in ien
  \/ pc \in {"WriteLoad", "WriteCopy", "WriteAdvance", "Kick"}

\* No wake-up is lost: both sides look at a ring and then write the same copy of
\* the enable bits.
WakeUpsKept == ReceiverAwake /\ TransmitterAwake

\* What has been moved and what is left are what was asked for.
AskedForNothing == left + moved = 0

\* A call that may block and asked for something reports an error only when the
\* host has been silent for a second at least.  (Not: for the timeout.  write()
\* gives up with EIO at the first look that finds host_inactive set, even if the
\* host has just made room; the comment beside it says "Host not connected".)
\* A call that asked for nothing says nothing of the host: both reads and the
\* fast write answer it with EIO as well, whoever listens.
ErrorsMeanSilence ==
  [][pc \notin {"idle", "Close"} /\ pc' = "idle" /\ Outcome = "EIO"
       => host_inactive > 0 \/ AskedForNothing]_uartVars

\* Once the host is silent for good every call of the fast driver ends, by its
\* timeout, unless the timeout was set to never.
SilentHostGivenUp ==
  <>[](~small /\ ~ac /\ timeout < INT_MAX - 1) => []<>(pc = "idle")

\* A program that waits is served as soon as the device can: a reader when the
\* host pauses after sending, a writer when the host has emptied the device.
WaitersServed ==
  /\ (pc = "ReadWait" /\ pause_irq) ~> (pc # "ReadWait")
  /\ (pc = "WriteWait" /\ wfifo = <<>>) ~> (pc # "WriteWait")

\* Nobody waits for what has happened or can no longer happen.
CallsEnd == SilentHostGivenUp /\ WaitersServed
=============================================================================
