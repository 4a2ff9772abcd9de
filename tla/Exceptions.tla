------------------------------ MODULE Exceptions ------------------------------
(***************************************************************************)
(* The exceptions that instructions cause, in among the interrupts: the    *)
(* common entry that saves what was interrupted, the test for an           *)
(* interrupt, the emulation of missing instructions, the handler that the  *)
(* program registered, and the way back.  The interrupt's routine and the  *)
(* handler are code themselves and may divide, which is emulated.          *)
(*                                                                         *)
(* The builds differ in the stack that the entry saves to (this system's   *)
(* is the exception stack, whose top every exception begins at) and in     *)
(* whether divisions are emulated (they aren't in this system).            *)
(***************************************************************************)
EXTENDS Integers, Sequences

CONSTANT
  Program             \* of "plain", "divide", "illegal" and "misaligned"

ASSUME ExceptionsAssumption ==
  Program \in Seq({"plain", "divide", "illegal", "misaligned"}) /\ Program # <<>>

VARIABLES
  build,              \* [ALT_EXCEPTION_STACK, emulates, divides]
  cpu,                \* [pos, PIE, ea, EXCEPTION, BADADDR, irq], pos = [code, pc]
  frames,             \* what 68(sp), 72(sp) and 76(sp) have, at every depth
  depth,              \* of the stack pointer
  program,            \* [handler, repaired]
  told,               \* the handler's arguments
  past                \* history: [waiting, done, lost]

exceptionsVars == <<build, cpu, frames, depth, program, told, past>>

\* alt_exception_cause, for the causes that occur here.
NIOS2_EXCEPTION_INTERRUPT == 2
Cause == [divide |-> 4, illegal |-> 5, misaligned |-> 6]

\* Mutant: it takes the first cause after them for one of them.
alt_exception_cause_generated_bad_addr_Illegal(cause) ==
  cause \in {5, 6, 7, 11, 14, 15, 17, 21}

alt_exception_cause_generated_bad_addr(cause) ==
  cause \in {6, 7, 11, 14, 15, 17, 21}

Pos(code, pc) == [code |-> code, pc |-> pc]
NextPos(pos) == [pos EXCEPT !.pc = @ + 1]
PreviousPos(pos) == [pos EXCEPT !.pc = @ - 1]

\* The routine and the handler are two instructions each.
Length(code) == IF code = "program" THEN Len(Program) ELSE 2
Kind(pos) ==
  CASE pos.code = "program" ->
         IF pos.pc \in program.repaired THEN "plain" ELSE Program[pos.pc]
    [] pos.code \in {"isr", "handler"} ->
         IF pos.pc = 1 /\ pos.code \in build.divides THEN "divide" ELSE "plain"

InCode == cpu.pos.code \in {"program", "isr", "handler"}
Running == InCode /\ cpu.pos.pc <= Length(cpu.pos.code)
Ended(code) == cpu.pos = Pos(code, Length(code) + 1)

Victim == past.waiting[Len(past.waiting)]
Finish(pos) ==
  IF pos.code = "program" THEN [past EXCEPT !.done[pos.pc] = @ + 1] ELSE past

-----------------------------------------------------------------------------
(* Into the exception and out of it. *)

\* Where the frame of a depth is.
Slot(d) == IF build.ALT_EXCEPTION_STACK THEN 1 ELSE d
Saved == frames[Slot(depth)]
Leaves(pos) == [Saved EXCEPT !.ea = pos]

\* The processor keeps the next instruction in ea and shuts interrupts out; the
\* entry saves the instruction itself, as it would be issued again.
alt_exception_entry ==
  /\ Running
  /\ \E cause \in (IF cpu.PIE /\ cpu.irq THEN {NIOS2_EXCEPTION_INTERRUPT} ELSE {})
                  \cup (IF Kind(cpu.pos) = "plain" THEN {} ELSE {Cause[Kind(cpu.pos)]}) :
       cpu' = [cpu EXCEPT !.pos = Pos("irqtest", 0), !.PIE = FALSE,
                          !.ea = NextPos(cpu.pos), !.EXCEPTION = cause,
                          !.BADADDR = IF cause = Cause.misaligned THEN cpu.pos.pc ELSE @]
  /\ depth' = depth + 1
  /\ frames' = [frames EXCEPT ![Slot(depth + 1)] =
                  [ea |-> cpu.pos, estatus |-> cpu.PIE, sp |-> depth]]
  /\ past' = [past EXCEPT !.waiting = Append(@, [pos |-> cpu.pos, PIE |-> cpu.PIE])]
  /\ UNCHANGED <<build, program, told>>

\* Mutant: the saved status isn't looked at.
irqtest_Always(frame) == cpu.irq

irqtest(frame) == frame.estatus /\ cpu.irq

TakeInterrupt ==
  /\ cpu.pos.code = "irqtest" /\ irqtest(Saved)
  /\ cpu' = [cpu EXCEPT !.pos = Pos("isr", 1)]
  /\ UNCHANGED <<build, frames, depth, program, told, past>>

\* Unlike an interrupt, anything else goes on after the instruction.  What was
\* interrupted by a request that is gone also comes here.
NotIrq ==
  LET pos == PreviousPos(cpu.ea)
  IN  /\ cpu.pos.code = "irqtest" /\ ~irqtest(Saved)
      /\ frames' = [frames EXCEPT ![Slot(depth)] = Leaves(cpu.ea)]
      /\ IF build.emulates /\ Kind(pos) = "divide"
         THEN /\ cpu' = [cpu EXCEPT !.pos = Pos("exit", 0)]
              /\ past' = Finish(pos)
         ELSE /\ cpu' = [cpu EXCEPT !.pos = Pos("unknown", 0)]
              /\ UNCHANGED past
      /\ UNCHANGED <<build, depth, program, told>>

\* Without a handler there is the debugger's break, and the instruction is
\* reissued if the debugger goes on.
alt_instruction_exception_entry ==
  /\ cpu.pos.code = "unknown"
  /\ IF program.handler
     THEN /\ cpu' = [cpu EXCEPT !.pos = Pos("handler", 1)]
          /\ told' = [cause |-> cpu.EXCEPTION, exception_pc |-> PreviousPos(cpu.ea),
                      bad_addr |-> cpu.BADADDR]
          /\ UNCHANGED frames
     ELSE /\ cpu' = [cpu EXCEPT !.pos = Pos("exit", 0)]
          /\ frames' = [frames EXCEPT ![Slot(depth)] = Leaves(PreviousPos(cpu.ea))]
          /\ UNCHANGED told
  /\ UNCHANGED <<build, depth, program, past>>

\* What the handler's result does to the frame; ea is read after the call.
\* Mutant: the frame is left as it is.
Reissue_Not == Saved.ea
Reissue == PreviousPos(cpu.ea)

\* A handler skips the instruction or repairs what was wrong with it; what an
\* interrupt brought here is none of its business.
HandlerReturns ==
  /\ Ended("handler")
  /\ cpu' = [cpu EXCEPT !.pos = Pos("exit", 0)]
  /\ \/ /\ told.cause # NIOS2_EXCEPTION_INTERRUPT
        /\ past' = Finish(told.exception_pc)
        /\ UNCHANGED <<frames, program>>
     \/ /\ program' = [program EXCEPT !.repaired = @ \cup {told.exception_pc.pc}]
        /\ frames' = [frames EXCEPT ![Slot(depth)] = Leaves(Reissue)]
        /\ UNCHANGED past
  /\ UNCHANGED <<build, depth, told>>

IsrReturns ==
  /\ Ended("isr")
  /\ cpu' = [cpu EXCEPT !.pos = IF cpu.irq THEN Pos("isr", 1) ELSE Pos("exit", 0)]
  /\ UNCHANGED <<build, frames, depth, program, told, past>>

\* Did the way back lead to the instruction that was interrupted, or to the next?
GoesBack ==
  /\ Saved.sp = depth - 1 /\ Saved.estatus = Victim.PIE
  /\ Saved.ea \in {Victim.pos, NextPos(Victim.pos)}

\* The run ends where the way back is lost.
eret ==
  /\ cpu.pos.code = "exit"
  /\ depth' = depth - 1
  /\ cpu' = [cpu EXCEPT !.PIE = Saved.estatus, !.ea = Saved.ea,
               !.pos = IF GoesBack THEN Saved.ea ELSE Pos("lost", 0)]
  /\ past' = [past EXCEPT !.waiting = SubSeq(@, 1, Len(@) - 1), !.lost = ~GoesBack]
  /\ UNCHANGED <<build, frames, program, told>>

-----------------------------------------------------------------------------
(* The code and the device. *)

\* The routine's second instruction serves the device.
Execute ==
  /\ Running /\ Kind(cpu.pos) = "plain"
  /\ cpu' = [cpu EXCEPT !.pos = NextPos(@), !.irq = @ /\ cpu.pos # Pos("isr", 2)]
  /\ past' = Finish(cpu.pos)
  /\ UNCHANGED <<build, frames, depth, program, told>>

alt_instruction_exception_register ==
  /\ cpu.pos.code = "program"
  /\ program' = [program EXCEPT !.handler = ~@]
  /\ UNCHANGED <<build, cpu, frames, depth, told, past>>

\* A request is made, or withdrawn before it was served.
Irq ==
  /\ cpu' = [cpu EXCEPT !.irq = ~@]
  /\ UNCHANGED <<build, frames, depth, program, told, past>>

Begin ==
  [cpu |-> [pos |-> Pos("program", 1), PIE |-> TRUE, ea |-> Pos("program", 1),
            EXCEPTION |-> 0, BADADDR |-> 0, irq |-> FALSE],
   program |-> [handler |-> FALSE, repaired |-> {}],
   told |-> [cause |-> 0, exception_pc |-> Pos("program", 1), bad_addr |-> 0],
   past |-> [waiting |-> <<>>, done |-> [i \in 1..Len(Program) |-> 0], lost |-> FALSE]]

\* A program that has ended or is lost is started again.
Reset ==
  /\ cpu.pos.code = "lost" \/ Ended("program")
  /\ cpu' = Begin.cpu /\ depth' = 0
  /\ program' = Begin.program /\ told' = Begin.told /\ past' = Begin.past
  /\ UNCHANGED <<build, frames>>

ExceptionsInit ==
  /\ \E own, emulates \in BOOLEAN, divides \in SUBSET {"isr", "handler"} :
       /\ divides # {} => emulates
       /\ build = [ALT_EXCEPTION_STACK |-> own, emulates |-> emulates,
                   divides |-> divides]
  /\ cpu = Begin.cpu /\ depth = 0
  /\ frames = [d \in 1..3 |-> [ea |-> Pos("program", 1), estatus |-> FALSE, sp |-> 0]]
  /\ program = Begin.program /\ told = Begin.told /\ past = Begin.past

ExceptionsNext ==
  \/ alt_exception_entry \/ TakeInterrupt \/ NotIrq \/ alt_instruction_exception_entry
  \/ HandlerReturns \/ IsrReturns \/ eret
  \/ Execute \/ alt_instruction_exception_register \/ Irq \/ Reset

ExceptionsSpec == ExceptionsInit /\ [][ExceptionsNext]_exceptionsVars

-----------------------------------------------------------------------------
(* Properties. *)

\* Where the way back gets lost: the exception stack has room for one frame, and
\* reissuing trusts ea, which an exception in the handler has changed.
Endangered ==
  \/ build.ALT_EXCEPTION_STACK /\ build.divides # {}
  \/ "handler" \in build.divides

\* Every instruction of the program is executed, emulated or skipped once and in
\* the program's order, whatever interrupts it; and an interrupt's routine runs
\* only where interrupts were enabled.  The handler is told of the instruction
\* that failed, and of an address only what belongs to it.
ExceptionsPrecise ==
  /\ past.lost => Endangered
  /\ ~past.lost /\ past.waiting = <<>> =>
       \A i \in 1..Len(Program) : past.done[i] = IF i < cpu.pos.pc THEN 1 ELSE 0
  /\ cpu.pos.code = "isr" => Victim.PIE
  /\ cpu.pos = Pos("handler", 1) =>
       /\ told.exception_pc = Victim.pos
       /\ alt_exception_cause_generated_bad_addr(told.cause) =>
            told.bad_addr = Victim.pos.pc
=============================================================================
