-------------------------------- MODULE Logging --------------------------------
(***************************************************************************)
(* The HAL's log (alt_log_printf.c), which prints straight into the JTAG   *)
(* UART by polling its space: the program logs, and so do the UART's       *)
(* interrupt, its alarm and the clock's tick.  A message of an interrupt   *)
(* comes between two instructions of the program and waits for space by    *)
(* itself.  Also the digits alt_printf makes of a number.                  *)
(*                                                                         *)
(* A character is a string of one character; %X's capitals, and the words  *)
(* of the messages, are left out.                                          *)
(***************************************************************************)
EXTENDS Integers, Sequences, SequencesExt, FiniteSetsExt

CONSTANTS
  LongMod, LongBits,        \* values and bits of an unsigned long (2^32, 32)
  LongNibbles,              \* hexadecimal digits of one (8)
  Values, Conversions,      \* what is printed, and with which conversions
  Texts,                    \* what is written to a file
  ALT_LOG_FLAGS,
  ALT_LOG_WRITE_ECHO_LEN,   \* 15
  ALT_LOG_SYS_CLK_INTERVAL, \* in ticks
  WSpace,                   \* characters the UART holds
  LogInterrupts             \* bound: messages of interrupts beside one of the
                            \* program

ASSUME LoggingAssumption ==
  /\ LongBits \in Nat \ {0} /\ LongMod = 2^LongBits
  /\ LongNibbles \in Nat /\ LongBits = 4 * LongNibbles /\ LongMod = 16^LongNibbles
  /\ Values \subseteq 0..LongMod-1
  /\ Conversions \subseteq [zero : BOOLEAN, width : Int, base : {8, 10, 16},
                            signed : BOOLEAN]
  /\ Texts \subseteq Seq(STRING)
  /\ ALT_LOG_WRITE_ECHO_LEN \in Nat /\ ALT_LOG_SYS_CLK_INTERVAL \in Nat
  /\ WSpace \in Nat \ {0} /\ LogInterrupts \in Nat

\* What the powers of the bases are, as far as there are digits.
ASSUME PowersAssumption ==
  \A base \in {8, 10, 16} :
    /\ base^0 = 1 /\ base^(LongBits \div 3 + 1) >= LongMod
    /\ \A n \in 0..LongBits \div 3 : base^(n + 1) = base * base^n

VARIABLES
  message,                  \* what the program prints
  rest,                     \* the characters of it that are still to go
  ready,                    \* it has seen the UART ready
  handler,                  \* the rest of an interrupt's message
  uart,                     \* what the UART holds
  alt_log_sys_clk_count,
  received,                 \* history: what the host has got
  interrupts                \* history: since the program's message began

logVars == <<message, rest, ready, handler, uart, alt_log_sys_clk_count,
             received, interrupts>>

-----------------------------------------------------------------------------
(* Which messages there are. *)

Flags(level) ==
  [boot |-> level # -1, sys_clk |-> level \in 1..3, startup_info |-> level \in 1..3,
   write |-> level \in 2..3, alarm |-> level \in 2..3, isr |-> level = 3]

-----------------------------------------------------------------------------
(* Text. *)

Digit == <<"0", "1", "2", "3", "4", "5", "6", "7", "8", "9",
           "a", "b", "c", "d", "e", "f">>

alt_log_repchar(c, r) == [i \in 1..(IF r > 0 THEN r ELSE 0) |-> c]

\* By the biggest power of the base that is not more than v; octal has most digits.
Digits(v, base) ==
  LET digitCount == CHOOSE n \in 1..LongBits \div 3 + 1 :
                      v < base^n /\ (n = 1 \/ base^(n - 1) <= v)
  IN  [i \in 1..digitCount |-> Digit[1 + ((v \div base^(digitCount - i)) % base)]]

\* Mutant: the sign is not counted when the number is padded.
Integer_LongSign(c, v) ==
  LET negative == c.signed /\ v >= LongMod \div 2
      digits == Digits(IF negative THEN LongMod - v ELSE v, c.base)
      sign == IF negative THEN <<"-">> ELSE <<>>
      room == c.width - Len(digits)
  IN  IF c.zero THEN sign \o alt_log_repchar("0", room) \o digits
                ELSE alt_log_repchar(" ", room) \o sign \o digits

\* Conversions d, i, u, o and x.
Integer(c, v) ==
  LET negative == c.signed /\ v >= LongMod \div 2
      digits == Digits(IF negative THEN LongMod - v ELSE v, c.base)
      sign == IF negative THEN <<"-">> ELSE <<>>
      room == c.width - Len(digits) - Len(sign)
  IN  IF c.zero THEN sign \o alt_log_repchar("0", room) \o digits
                ELSE alt_log_repchar(" ", room) \o sign \o digits

\* alt_printf's %x, from the first nibble that is not zero.
Hexadecimal(v) ==
  LET Nibble(n) == (v \div 16^n) % 16
      first == Max({n \in 0..LongNibbles-1 : Nibble(n) # 0})
  IN  IF v = 0 THEN <<"0">>
      ELSE [i \in 1..first+1 |-> Digit[1 + Nibble(first + 1 - i)]]

\* alt_log_write: the last character makes place for a new line, and an
\* end-of-transmission is replaced.
Echo(text) ==
  LET length == IF ALT_LOG_WRITE_ECHO_LEN > Len(text) THEN Len(text)
                                                      ELSE ALT_LOG_WRITE_ECHO_LEN
  IN  IF length < 2 THEN <<>>
      ELSE [i \in 1..length-1 |-> IF text[i] = "EOT" THEN "D" ELSE text[i]]
             \o <<"LF", "CR">>

-----------------------------------------------------------------------------
(* The program. *)

NoMessage == [kind |-> "none"]

LoggingInit ==
  /\ message = NoMessage /\ rest = <<>> /\ ready = FALSE
  /\ handler = <<>> /\ uart = <<>>
  /\ alt_log_sys_clk_count = 0
  /\ received = <<>> /\ interrupts = 0

Text(m) == CASE m.kind = "number" -> Integer(m.conversion, m.value)
             [] m.kind = "write" -> IF Flags(ALT_LOG_FLAGS).write THEN Echo(m.text)
                                                                  ELSE <<>>
             [] OTHER -> <<>>

\* alt_log_private_printf or alt_log_write.
Log ==
  /\ rest = <<>> /\ handler = <<>> /\ uart = <<>>
  /\ message' \in
       [kind : {"number"}, conversion : Conversions, value : Values]
         \cup [kind : {"write"}, text : Texts]
  /\ rest' = Text(message')
  /\ received' = <<>> /\ interrupts' = 0
  /\ UNCHANGED <<ready, handler, uart, alt_log_sys_clk_count>>

\* alt_log_txchar waits until there is space,
SeeReady ==
  /\ rest # <<>> /\ handler = <<>> /\ ~ready
  /\ Len(uart) < WSpace
  /\ ready' = TRUE
  /\ UNCHANGED <<message, rest, handler, uart, alt_log_sys_clk_count, received, interrupts>>

\* and then writes.  The UART drops what it has no space for.
WriteChar ==
  /\ rest # <<>> /\ handler = <<>> /\ ready
  /\ uart' = IF Len(uart) < WSpace
             THEN Append(uart, [who |-> "program", c |-> Head(rest)]) ELSE uart
  /\ rest' = Tail(rest) /\ ready' = FALSE
  /\ UNCHANGED <<message, handler, alt_log_sys_clk_count, received, interrupts>>

-----------------------------------------------------------------------------
(* Interrupts and the host. *)

\* The control register's report, numbered characters standing for its text.
Report == <<1, 2, 3>>

Interrupted(text) ==
  /\ handler = <<>> /\ interrupts < LogInterrupts
  /\ handler' = text
  /\ interrupts' = interrupts + 1
  /\ UNCHANGED <<message, rest, ready, uart, received>>

\* alt_log_jtag_uart_isr_proc, or the alarm altera_avalon_jtag_uart_report_log.
UartReports ==
  /\ Flags(ALT_LOG_FLAGS).isr \/ Flags(ALT_LOG_FLAGS).alarm
  /\ Interrupted(Report)
  /\ UNCHANGED alt_log_sys_clk_count

alt_log_system_clock ==
  /\ Flags(ALT_LOG_FLAGS).sys_clk
  /\ IF alt_log_sys_clk_count + 1 > ALT_LOG_SYS_CLK_INTERVAL
     THEN /\ alt_log_sys_clk_count' = 0
          /\ Interrupted(Report)
     ELSE /\ handler = <<>>
          /\ alt_log_sys_clk_count' = alt_log_sys_clk_count + 1
          /\ UNCHANGED <<message, rest, ready, handler, uart, received, interrupts>>

\* Waiting and writing are one step: nothing interrupts the handler.
HandlerWrites ==
  /\ handler # <<>> /\ Len(uart) < WSpace
  /\ uart' = Append(uart, [who |-> "handler", c |-> Head(handler)])
  /\ handler' = Tail(handler)
  /\ UNCHANGED <<message, rest, ready, alt_log_sys_clk_count, received, interrupts>>

HostReads ==
  /\ uart # <<>>
  /\ received' = Append(received, Head(uart))
  /\ uart' = Tail(uart)
  /\ UNCHANGED <<message, rest, ready, handler, alt_log_sys_clk_count, interrupts>>

LoggingNext ==
  \/ Log \/ SeeReady \/ WriteChar
  \/ UartReports \/ alt_log_system_clock \/ HandlerWrites \/ HostReads

LoggingSpec == LoggingInit /\ [][LoggingNext]_logVars

-----------------------------------------------------------------------------
(* Properties. *)

Sent == received \o uart

\* By the digits from the left.
Value(digits, base) ==
  LET Worth(d) == CHOOSE n \in 0..15 : Digit[n + 1] = d
      value[i \in 0..Len(digits)] ==
        IF i = 0 THEN 0 ELSE value[i - 1] * base + Worth(digits[i])
  IN  value[Len(digits)]

\* A number is printed as what it is: one minus at most, before zeros and after
\* blanks; no wider than asked for unless its digits are; no zero in front
\* without being asked for.  alt_printf agrees with the log.
NumberReads ==
  message.kind = "number" =>
    LET c == message.conversion
        text == Integer(c, message.value)
        minus == c.signed /\ message.value >= LongMod \div 2
        size == IF minus THEN LongMod - message.value ELSE message.value
        least == Len(Digits(size, c.base)) + IF minus THEN 1 ELSE 0
        first == Min({i \in DOMAIN text : text[i] \notin {" ", "-"}})
        digits == SubSeq(text, first, Len(text))
    IN  /\ ToSet(digits) \subseteq ToSet(Digit) /\ Value(digits, c.base) = size
        /\ Len(text) = IF c.width > least THEN c.width ELSE least
        /\ \A i \in 1..first - 1 : text[i] = "-" <=> minus /\ i = first - 1
        /\ ~c.zero /\ Len(digits) > 1 => digits[1] # "0"
        /\ Value(Hexadecimal(message.value), 16) = message.value
        /\ message.value > 0 => Hexadecimal(message.value)[1] # "0"

By(who) == {i \in DOMAIN Sent : Sent[i].who = who}

\* The characters of s at some places are those of t at others, in this order.
InOrder(s, places, t, others) ==
  LET Rank(set, i) == Cardinality({k \in set : k <= i})
  IN  /\ Cardinality(places) = Cardinality(others)
      /\ \A i \in places, j \in others :
           Rank(places, i) = Rank(others, j) => s[i].c = t[j]

\* What the host reads is what was logged: messages of interrupts whole and in
\* one piece, the program's characters in their order, of which each message
\* that came in between has cost one at most (the one the UART was seen ready
\* for before the interrupt filled it).
LogReads ==
  LET written == SubSeq(Text(message), 1, Len(Text(message)) - Len(rest))
  IN  /\ \E lost \in SUBSET DOMAIN written :
           /\ Cardinality(lost) <= interrupts
           /\ InOrder(Sent, By("program"), written, DOMAIN written \ lost)
      /\ \A i \in By("handler") :
           Sent[i].c < Len(Report) =>
             i = Len(Sent) \/ /\ Sent[i + 1].who = "handler"
                              /\ Sent[i + 1].c = Sent[i].c + 1
      /\ Cardinality(By("handler")) + Len(handler) = interrupts * Len(Report)

\* The echo of a write fits its buffer and never ends the host's session.
EchoSafe ==
  message.kind = "write" =>
    /\ Len(Echo(message.text)) <= ALT_LOG_WRITE_ECHO_LEN + 1
    /\ "EOT" \notin {Echo(message.text)[i] : i \in DOMAIN Echo(message.text)}

\* A log that can be read.
LogKept == NumberReads /\ LogReads /\ EchoSafe
=============================================================================
