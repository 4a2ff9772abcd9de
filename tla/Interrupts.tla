------------------------------ MODULE Interrupts ------------------------------
(***************************************************************************)
(* The HAL's interrupts on the processor's internal controller: the        *)
(* exception entry and alt_irq_handler, the registration of handlers, the  *)
(* enabling and disabling of single interrupts, and handlers that let more *)
(* urgent ones in (alt_irq_interruptible).  The program and the handlers   *)
(* may both call the functions; what was interrupted waits on a stack, and *)
(* its top is what runs.                                                   *)
(*                                                                         *)
(* A device requests an interrupt until its handler has served it.         *)
(*                                                                         *)
(* This is the build that saves a frame on the stack it interrupted.  With *)
(* ALT_EXCEPTION_STACK, which this BSP defines (linker.h), every exception *)
(* saves its frame at the same top of a stack of its own, so a handler     *)
(* must not let itself be interrupted: Exceptions says what would happen.  *)
(***************************************************************************)
EXTENDS Integers, Sequences, FiniteSets, FiniteSetsExt

CONSTANTS
  NIRQ,             \* NIOS2_NIRQ (32): 0 is the most urgent interrupt
  Handlers,         \* functions; a context is named like its handler
  NULL,
  MaxCalls,         \* bound: calls of one handler's run
  MaxDepth          \* bound: of the stack, which bypassed masks let grow

ASSUME InterruptsAssumption ==
  /\ NIRQ \in Nat \ {0} /\ NULL \notin Handlers /\ MaxCalls \in Nat
  /\ MaxDepth \in Nat /\ MaxDepth > NIRQ

Ids == 0..NIRQ-1
All == Ids          \* alt_priority_mask = (alt_u32) -1

VARIABLES
  requests,         \* what the devices ask for
  PIE,              \* the status register's interrupt enable
  ienable,
  alt_irq_active, alt_priority_mask,
  alt_irq,          \* the table: [handler, context] of every interrupt
  stack,            \* the program and the handlers that interrupted it
  bypassed          \* history: ienable was written without the mask

irqVars == <<requests, PIE, ienable, alt_irq_active, alt_priority_mask,
             alt_irq, stack, bypassed>>

\* id: the interrupt being served, -1 for the program.  at: where it stands.
\* status, arg, new: what alt_irq_disable_all returned and the call's arguments.
\* mask: what alt_irq_interruptible returned, while the handler is "open".
Frame(id, at) ==
  [id |-> id, at |-> at, handler |-> NULL, context |-> NULL, served |-> FALSE,
   status |-> TRUE, arg |-> 0, new |-> NULL,
   mask |-> All, open |-> FALSE, calls |-> 0]

Top == stack[Len(stack)]
Below == SubSeq(stack, 1, Len(stack) - 1)

\* The running code goes on with its record changed.
Becomes(frame) == stack' = Append(Below, frame)

ipending == requests \cap ienable

-----------------------------------------------------------------------------
(* Devices and the exception. *)

Request ==
  \E id \in Ids \ requests :
    /\ requests' = requests \cup {id}
    /\ UNCHANGED <<PIE, ienable, alt_irq_active, alt_priority_mask, alt_irq,
                   stack, bypassed>>

\* alt_exception: what is interrupted stays on the stack.
alt_exception ==
  /\ PIE /\ ipending # {} /\ Len(stack) < MaxDepth
  /\ PIE' = FALSE
  /\ stack' = Append(stack, Frame(-1, "alt_irq_handler"))
  /\ UNCHANGED <<requests, ienable, alt_irq_active, alt_priority_mask, alt_irq,
                 bypassed>>

MostUrgent == Min(ipending)

\* Calls the handler of the most urgent interrupt.  The search for a bit has no
\* other end: without one that is set it would never return.
alt_irq_handler ==
  /\ Top.at = "alt_irq_handler" /\ ipending # {}
  /\ Becomes([Frame(MostUrgent, "isr") EXCEPT
                !.handler = alt_irq[MostUrgent].handler,
                !.context = alt_irq[MostUrgent].context])
  /\ UNCHANGED <<requests, PIE, ienable, alt_irq_active, alt_priority_mask,
                 alt_irq, bypassed>>

\* eret, when no interrupt was pending after the last handler.
ExceptionReturn ==
  /\ Top.at = "loaded" /\ ipending = {}
  /\ stack' = Below
  /\ PIE' = TRUE
  /\ bypassed' = (bypassed /\ Len(Below) > 1)
  /\ UNCHANGED <<requests, ienable, alt_irq_active, alt_priority_mask, alt_irq>>

NextPass ==
  /\ Top.at = "loaded" /\ ipending # {}
  /\ Becomes([Top EXCEPT !.at = "alt_irq_handler"])
  /\ UNCHANGED <<requests, PIE, ienable, alt_irq_active, alt_priority_mask,
                 alt_irq, bypassed>>

-----------------------------------------------------------------------------
(* What a handler does: it serves its device, may make itself interruptible *)
(* in between, and returns.                                                 *)

\* Free to call something: the program, or a handler.
Calling == Top.at \in {"program", "isr"}

Serve ==
  /\ Top.at = "isr" /\ ~Top.served
  /\ requests' = requests \ {Top.id}
  /\ Becomes([Top EXCEPT !.served = TRUE])
  /\ UNCHANGED <<PIE, ienable, alt_irq_active, alt_priority_mask, alt_irq,
                 bypassed>>

Urgent(id) == 0..id-1

alt_irq_interruptible ==
  /\ Top.at = "isr" /\ ~Top.open /\ Top.calls < MaxCalls
  /\ Becomes([Top EXCEPT !.open = TRUE, !.mask = alt_priority_mask,
                         !.calls = @ + 1])
  /\ alt_priority_mask' = Urgent(Top.id)
  /\ ienable' = alt_irq_active \cap Urgent(Top.id)
  /\ PIE' = TRUE
  /\ UNCHANGED <<requests, alt_irq_active, alt_irq, bypassed>>

alt_irq_non_interruptible ==
  /\ Top.at = "isr" /\ Top.open
  /\ Becomes([Top EXCEPT !.open = FALSE])
  /\ alt_priority_mask' = Top.mask
  /\ ienable' = alt_irq_active \cap Top.mask
  /\ PIE' = FALSE
  /\ UNCHANGED <<requests, alt_irq_active, alt_irq, bypassed>>

IsrReturn ==
  /\ Top.at = "isr" /\ Top.served /\ ~Top.open
  /\ Becomes(Frame(-1, "loaded"))
  /\ UNCHANGED <<requests, PIE, ienable, alt_irq_active, alt_priority_mask,
                 alt_irq, bypassed>>

-----------------------------------------------------------------------------
(* alt_ic_isr_register, alt_ic_irq_enable and alt_ic_irq_disable, with      *)
(* interrupts disabled.                                                     *)

DisableAll == PIE' = FALSE

Valid(id) == id < NIRQ

\* Of a handler that is not running; any other id is refused.
alt_ic_isr_register ==
  /\ Calling /\ Top.calls < MaxCalls
  /\ \E id \in (0..NIRQ) \ {stack[i].id : i \in DOMAIN stack},
        new \in Handlers \cup {NULL} :
       /\ Valid(id)
       /\ Becomes([Top EXCEPT !.at = "handler", !.arg = id, !.new = new,
                              !.status = PIE])
  /\ DisableAll
  /\ UNCHANGED <<requests, ienable, alt_irq_active, alt_priority_mask, alt_irq,
                 bypassed>>

WriteHandler ==
  /\ Top.at = "handler"
  /\ alt_irq' = [alt_irq EXCEPT ![Top.arg].handler = Top.new]
  /\ Becomes([Top EXCEPT !.at = "context"])
  /\ UNCHANGED <<requests, PIE, ienable, alt_irq_active, alt_priority_mask,
                 bypassed>>

WriteContext ==
  /\ Top.at = "context"
  /\ alt_irq' = [alt_irq EXCEPT ![Top.arg].context = Top.new]
  /\ Becomes([Top EXCEPT !.at = IF Top.new = NULL THEN "off" ELSE "on"])
  /\ UNCHANGED <<requests, PIE, ienable, alt_irq_active, alt_priority_mask,
                 bypassed>>

\* An interrupt that has a handler; of the program's calls and the handlers'.
SetOne ==
  /\ Calling /\ Top.calls < MaxCalls
  /\ \E id \in Ids, at \in {"on", "off"} :
       /\ at = "on" => alt_irq[id].handler # NULL
       /\ Becomes([Top EXCEPT !.at = at, !.arg = id, !.status = PIE])
  /\ PIE' = FALSE
  /\ UNCHANGED <<requests, ienable, alt_irq_active, alt_priority_mask, alt_irq,
                 bypassed>>

Set(at, active) ==
  /\ Top.at = at
  /\ alt_irq_active' = active
  /\ Becomes([Top EXCEPT !.at = "write"])
  /\ UNCHANGED <<requests, PIE, ienable, alt_priority_mask, alt_irq, bypassed>>

alt_irq_enable  == Set("on", alt_irq_active \cup {Top.arg})
alt_irq_disable == Set("off", alt_irq_active \ {Top.arg})

\* Neither function looks at the mask.
WriteIenable ==
  /\ Top.at = "write"
  /\ ienable' = alt_irq_active
  /\ bypassed' = (bypassed \/ alt_priority_mask # All)
  /\ Becomes([Top EXCEPT !.at = "restore"])
  /\ UNCHANGED <<requests, PIE, alt_irq_active, alt_priority_mask, alt_irq>>

\* Mutant: interrupts are enabled whatever they were before.
Restored_Always == TRUE

Restored == Top.status

\* alt_irq_enable_all(status)
EnableAll ==
  /\ Top.at = "restore"
  /\ PIE' = Restored
  /\ Becomes([Top EXCEPT !.at = IF Len(stack) = 1 THEN "program" ELSE "isr",
                         !.arg = 0, !.new = NULL, !.status = TRUE,
                         !.calls = IF Len(stack) = 1 THEN 0 ELSE @ + 1])
  /\ UNCHANGED <<requests, ienable, alt_irq_active, alt_priority_mask, alt_irq,
                 bypassed>>

-----------------------------------------------------------------------------
\* After alt_irq_init and alt_irq_cpu_enable_interrupts.
IrqInit ==
  /\ requests = {} /\ PIE = TRUE /\ ienable = {}
  /\ alt_irq_active = {} /\ alt_priority_mask = All
  /\ alt_irq = [id \in Ids |-> [handler |-> NULL, context |-> NULL]]
  /\ stack = <<Frame(-1, "program")>>
  /\ bypassed = FALSE

Exception == alt_exception \/ alt_irq_handler \/ NextPass \/ ExceptionReturn
Handling == Serve \/ alt_irq_non_interruptible \/ IsrReturn
Register == WriteHandler \/ WriteContext
Change == alt_irq_enable \/ alt_irq_disable \/ WriteIenable \/ EnableAll
Begins == alt_ic_isr_register \/ SetOne \/ alt_irq_interruptible

IrqNext == Request \/ Exception \/ Handling \/ Register \/ Change \/ Begins

IrqSpec == IrqInit /\ [][IrqNext]_irqVars

\* The processor finishes what it has begun and looks for an interrupt at every
\* instruction, also at those between two critical sections.
IrqFairness ==
  /\ WF_irqVars(Exception \/ Handling \/ Register \/ Change)
  /\ SF_irqVars(alt_exception)

FairIrqSpec == IrqSpec /\ IrqFairness

-----------------------------------------------------------------------------
(* Properties. *)

Places == {"program", "isr", "alt_irq_handler", "loaded", "handler", "context",
           "on", "off", "write", "restore"}

\* Registers and table keep their types; only the program is at the bottom.
IrqTypeOK ==
  /\ requests \subseteq Ids /\ PIE \in BOOLEAN /\ bypassed \in BOOLEAN
  /\ ienable \subseteq Ids /\ alt_irq_active \subseteq Ids
  /\ alt_priority_mask \subseteq Ids
  /\ alt_irq \in [Ids -> [handler : Handlers \cup {NULL},
                          context : Handlers \cup {NULL}]]
  /\ Len(stack) \in 1..MaxDepth
  /\ \A i \in DOMAIN stack : stack[i].at \in Places

\* Every handler that runs was registered, and gets the context it was
\* registered with, although the table is written in two steps while its
\* interrupt may be enabled and requested.
HandlerWhole ==
  \A i \in DOMAIN stack : stack[i].id >= 0 =>
    stack[i].handler # NULL /\ stack[i].context = stack[i].handler

\* alt_irq_handler is entered, and comes back for another pass, only while a
\* bit is set: its search has no other end.
SearchEnds == Top.at = "alt_irq_handler" => ipending # {}

\* Nothing is interrupted but the program and handlers that have made themselves
\* interruptible, outside the critical sections, even if a critical section in
\* a handler has ended before.
NothingElseInterrupted ==
  \A i \in 1..Len(stack)-1 :
    stack[i].at = "program" \/ (stack[i].at = "isr" /\ stack[i].open)

\* A handler is interrupted by more urgent ones only, and never by itself,
\* unless alt_irq_enable or alt_irq_disable has been called meanwhile: neither
\* applies alt_priority_mask to what it writes into ienable.
OnlyMoreUrgent ==
  ~bypassed =>
    \A i \in 2..Len(stack)-1 : stack[i+1].id < stack[i].id

\* As long as that has not happened the controller admits what is enabled and
\* as urgent as the running handler allows, no more and no less.
MaskInForce ==
  ~bypassed /\ Top.at # "write" =>
    ienable = alt_irq_active \cap alt_priority_mask

\* Which handler is called, and who may interrupt whom, through every nesting of
\* handlers, masks and critical sections; a search begun for an interrupt finds
\* one.
InterruptsNested ==
  /\ IrqTypeOK /\ SearchEnds /\ HandlerWhole
  /\ NothingElseInterrupted /\ OnlyMoreUrgent /\ MaskInForce

\* The most urgent interrupt is served, or disabled, however often the others
\* are requested and whatever their handlers do.
MostUrgentServed ==
  (0 \in requests \cap ienable) ~> (0 \notin requests \cap alt_irq_active)
=============================================================================
