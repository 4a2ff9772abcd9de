-------------------------- MODULE Processor_proofs --------------------------
(***************************************************************************)
(* Theorems about what the HAL does for the processor: its interrupts, for *)
(* any number of interrupts and handlers, and stacks and calls of any      *)
(* length; its exceptions, for any program; and its caches, for lines,     *)
(* caches and regions of any size.                                         *)
(***************************************************************************)
EXTENDS Interrupts, Exceptions, Caches, SequenceTheorems, WellFoundedInduction, TLAPS

-----------------------------------------------------------------------------
(***************************************************************************)
(* The interrupts.  The inductive invariant: what is on the stack, and     *)
(* what the code on its top has done to the masks, the table and the       *)
(* registers.                                                              *)
(***************************************************************************)

\* The labels between the disabling of interrupts and EnableAll.
Critical == {"handler", "context", "on", "off", "write", "restore"}

Whole == Handlers \cup {NULL}

Frames ==
  [id : -1..NIRQ-1, at : Places, handler : Whole, context : Whole,
   served : BOOLEAN, status : BOOLEAN, arg : Ids, new : Whole,
   mask : SUBSET Ids, open : BOOLEAN, calls : Nat]

RegistersOK ==
  /\ requests \subseteq Ids /\ PIE \in BOOLEAN /\ bypassed \in BOOLEAN
  /\ ienable \subseteq Ids /\ alt_irq_active \subseteq Ids
  /\ alt_priority_mask \subseteq Ids
  /\ alt_irq \in [Ids -> [handler : Whole, context : Whole]]

StackOK == stack \in Seq(Frames) /\ Len(stack) \in 1..MaxDepth

\* What the frame at the place i may be: the program's, one of alt_irq_handler
\* or one of a handler that is registered whole.
Fits(f, i) ==
  IF i = 1
  THEN f.id = -1 /\ ~f.open /\ f.at \in Critical \cup {"program"}
  ELSE \/ f.id = -1 /\ f.at \in {"alt_irq_handler", "loaded"} /\ ~f.open
       \/ /\ f.id >= 0 /\ f.handler # NULL /\ f.context = f.handler
          /\ f.at \in Critical \cup {"isr"}

StackInv ==
  /\ \A i \in 1..Len(stack) : Fits(stack[i], i)
  /\ NothingElseInterrupted

\* Interrupts are enabled only in the program and in interruptible handlers, and
\* a critical section enables them again only there.
Interruptible == Len(stack) = 1 \/ Top.open

EnabledInv ==
  /\ PIE => Top.at \in {"program", "isr"} /\ Interruptible
  /\ Top.at \in Critical /\ Top.status => Interruptible

\* The mask in force where the frame i was put on the stack.
MaskUnder(i) == IF i <= 2 THEN All ELSE Urgent(stack[i-1].id)

PriorityInv ==
  /\ alt_priority_mask =
       IF Top.open THEN Urgent(Top.id) ELSE MaskUnder(Len(stack))
  /\ \A i \in 2..Len(stack) : stack[i].open => stack[i].mask = MaskUnder(i)

ControllerInv ==
  (~bypassed \/ alt_priority_mask = All) /\ Top.at # "write" =>
    ienable = alt_irq_active \cap alt_priority_mask

\* The running code is at one of the labels of a call about id.
Busy(id, labels) == Top.at \in labels /\ Top.arg = id

TableInv ==
  /\ \A id \in Ids :
       /\ ~Busy(id, {"context"}) => alt_irq[id].context = alt_irq[id].handler
       /\ Busy(id, {"context"}) => alt_irq[id].handler = Top.new
       /\ Busy(id, {"on"}) => alt_irq[id].handler # NULL
  /\ \A id \in alt_irq_active :
       alt_irq[id].handler # NULL \/ Busy(id, {"context", "off"})
  /\ \A id \in ienable :
       alt_irq[id].handler # NULL \/ Busy(id, {"context", "off", "write"})

\* The parts together.
IrqInv ==
  /\ RegistersOK /\ StackOK /\ StackInv /\ EnabledInv /\ PriorityInv
  /\ ControllerInv /\ TableInv /\ SearchEnds /\ OnlyMoreUrgent

-----------------------------------------------------------------------------
(* The stack. *)

LEMMA IrqConstants ==
  NIRQ \in Nat /\ NIRQ > 0 /\ NULL \notin Handlers /\ MaxDepth \in Nat
BY InterruptsAssumption DEF InterruptsAssumption

LEMMA AtLeastTwo ==
  ASSUME NEW n \in Nat, n >= 1, n # 1
  PROVE  n >= 2 /\ n \in 2..n
  OBVIOUS

LEMMA TopFrame ==
  ASSUME StackOK
  PROVE  Len(stack) \in Nat /\ Len(stack) >= 1 /\ Top \in Frames
  BY DEF StackOK, Top

LEMMA BelowTop ==
  ASSUME StackOK
  PROVE  /\ Below \in Seq(Frames) /\ Len(Below) = Len(stack) - 1
         /\ \A i \in 1..Len(stack)-1 : Below[i] = stack[i]
<1> DEFINE n == Len(stack)
<1>1. n \in Nat /\ n >= 1 /\ \A i \in 1..n-1 : stack[i] \in Frames
  BY DEF StackOK
<1>2. n - 1 \in Int /\ 1 \in Int
  BY <1>1
<1> DEFINE k == n - 1
<1>3. k \in Int /\ \A i \in 1..k : stack[i] \in Frames
  BY <1>1, <1>2
<1> HIDE DEF k
<1>4. /\ SubSeq(stack, 1, k) \in Seq(Frames)
      /\ Len(SubSeq(stack, 1, k)) = IF 1 <= k THEN k - 1 + 1 ELSE 0
      /\ \A i \in 1..k-1+1 : SubSeq(stack, 1, k)[i] = stack[1+i-1]
  BY <1>2, <1>3, SubSeqProperties
<1>5. k - 1 + 1 = k /\ (~(1 <= k) => k = 0)
  <2>1. n \in Nat /\ n >= 1 /\ k = n - 1
    BY <1>1 DEF k
  <2> HIDE DEF n
  <2> QED
    BY <2>1
<1>6. Len(SubSeq(stack, 1, k)) = k
  BY <1>4, <1>5
<1>7. ASSUME NEW i \in 1..k PROVE SubSeq(stack, 1, k)[i] = stack[i]
  <2>1. 1 + i - 1 = i /\ i \in 1..k-1+1
    BY <1>5
  <2> QED
    BY <1>4, <2>1
<1>8. Below = SubSeq(stack, 1, k)
  BY DEF Below, k
<1> QED
  BY <1>4, <1>6, <1>7, <1>8 DEF k

\* What runs goes on with its frame changed.
LEMMA TopReplaced ==
  ASSUME StackOK, NEW f \in Frames, Becomes(f)
  PROVE  /\ StackOK'
         /\ Len(stack') = Len(stack) /\ Top' = f
         /\ stack'[Len(stack)] = f
         /\ \A i \in 1..Len(stack)-1 : stack'[i] = stack[i]
<1> DEFINE n == Len(stack)
<1>1. n \in Nat /\ n >= 1 /\ stack \in Seq(Frames) /\ n <= MaxDepth
  BY DEF StackOK
<1>2. /\ Below \in Seq(Frames) /\ Len(Below) = n - 1
      /\ \A i \in 1..n-1 : Below[i] = stack[i]
  BY BelowTop
<1>3. /\ stack' \in Seq(Frames) /\ Len(stack') = n /\ stack'[n] = f
      /\ \A i \in 1..n-1 : stack'[i] = Below[i]
  BY <1>1, <1>2 DEF Becomes
<1> QED
  BY <1>1, <1>2, <1>3, IrqConstants DEF StackOK, Top

\* An exception puts a frame on the stack.
LEMMA FramePushed ==
  ASSUME StackOK, Len(stack) < MaxDepth, NEW f \in Frames,
         stack' = Append(stack, f)
  PROVE  /\ StackOK'
         /\ Len(stack') = Len(stack) + 1 /\ Top' = f
         /\ stack'[Len(stack) + 1] = f
         /\ \A i \in 1..Len(stack) : stack'[i] = stack[i]
  BY IrqConstants DEF StackOK, Top

LEMMA FramePopped ==
  ASSUME StackOK, Len(stack) > 1, stack' = Below
  PROVE  /\ StackOK'
         /\ Len(stack') = Len(stack) - 1 /\ Top' = stack[Len(stack) - 1]
         /\ \A i \in 1..Len(stack)-1 : stack'[i] = stack[i]
<1> DEFINE n == Len(stack)
<1>1. n \in Nat /\ n > 1 /\ stack \in Seq(Frames) /\ n <= MaxDepth
  BY DEF StackOK
<1>2. /\ Below \in Seq(Frames) /\ Len(Below) = n - 1
      /\ \A i \in 1..n-1 : Below[i] = stack[i]
  BY BelowTop
<1> QED
  BY <1>1, <1>2, IrqConstants DEF StackOK, Top

LEMMA NewFrame ==
  ASSUME NEW id \in -1..NIRQ-1, NEW at \in Places
  PROVE  /\ Frame(id, at) \in Frames
         /\ Frame(id, at).id = id /\ Frame(id, at).at = at
         /\ ~Frame(id, at).open
  BY IrqConstants DEF Frame, Frames, Whole, Ids, All

-----------------------------------------------------------------------------
(* Which steps leave what alone. *)

\* The frame of the code that runs changes: what must be true of the new one.
LEMMA TopChanged ==
  ASSUME StackOK, StackInv, PriorityInv, OnlyMoreUrgent,
         NEW f \in Frames, Becomes(f), Fits(f, Len(stack)),
         bypassed => bypassed',
         ~bypassed' /\ Len(stack) > 2 => f.id < stack[Len(stack)-1].id,
         alt_priority_mask' =
           IF f.open THEN Urgent(f.id) ELSE MaskUnder(Len(stack)),
         f.open => f.mask = MaskUnder(Len(stack))
  PROVE  /\ StackOK' /\ StackInv' /\ PriorityInv' /\ OnlyMoreUrgent'
         /\ Top' = f /\ Len(stack') = Len(stack)
<1> DEFINE n == Len(stack)
<1>1. n \in Nat /\ n >= 1
  BY TopFrame
<1>2. /\ StackOK' /\ Len(stack') = n /\ Top' = f /\ stack'[n] = f
      /\ \A i \in 1..n-1 : stack'[i] = stack[i]
  BY TopReplaced
<1> HIDE DEF n
<1>3. StackInv'
  <2>1. ASSUME NEW i \in 1..n PROVE Fits(stack'[i], i)
    BY <1>1, <1>2 DEF StackInv, n
  <2>2. NothingElseInterrupted'
    BY <1>1, <1>2 DEF StackInv, NothingElseInterrupted, n
  <2> QED
    BY <1>2, <2>1, <2>2 DEF StackInv
<1>4. \A i \in 1..n : MaskUnder(i)' = MaskUnder(i)
  BY <1>1, <1>2 DEF MaskUnder
<1>5. PriorityInv'
  <2>1. (MaskUnder(Len(stack)))' = MaskUnder(n)
    BY <1>1, <1>2 DEF MaskUnder
  <2>2. ASSUME NEW i \in 2..n, stack'[i].open
        PROVE  stack'[i].mask = MaskUnder(i)
    BY <1>1, <1>2, <2>2 DEF PriorityInv, n
  <2> QED
    BY <1>1, <1>2, <1>4, <2>1, <2>2 DEF PriorityInv, n
<1>6. OnlyMoreUrgent'
  <2> SUFFICES ASSUME ~bypassed', NEW i \in 2..n-1
               PROVE  stack'[i+1].id < stack'[i].id
    BY <1>2 DEF OnlyMoreUrgent
  <2>1. stack[i+1].id < stack[i].id
    BY DEF OnlyMoreUrgent, n
  <2>2. i + 1 \in 1..n /\ i \in 1..n-1
    BY <1>1
  <2>3. CASE i + 1 = n
    BY <1>1, <1>2, <2>2, <2>3 DEF n
  <2>4. CASE i + 1 # n
    <3>1. i + 1 \in 1..n-1
      BY <1>1, <2>2, <2>4
    <3> QED
      BY <1>2, <2>1, <2>2, <3>1
  <2> QED
    BY <2>3, <2>4
<1> QED
  BY <1>1, <1>2, <1>3, <1>5, <1>6 DEF n

\* The code that runs goes on in the same handler and as interruptible as
\* before: the steps of the calls that change the table and the masks.
LEMMA SameHandler ==
  ASSUME StackOK, StackInv, PriorityInv, OnlyMoreUrgent,
         NEW f \in Frames, Becomes(f),
         f.id = Top.id, f.handler = Top.handler, f.context = Top.context,
         f.open = Top.open, f.mask = Top.mask,
         Top.at \in Critical \cup {"program", "isr"},
         f.at \in Critical \cup {IF Len(stack) = 1 THEN "program" ELSE "isr"},
         alt_priority_mask' = alt_priority_mask, bypassed => bypassed'
  PROVE  /\ StackOK' /\ StackInv' /\ PriorityInv' /\ OnlyMoreUrgent'
         /\ Top' = f /\ Interruptible' = Interruptible
<1> DEFINE n == Len(stack)
<1>1. n \in Nat /\ n >= 1 /\ Top = stack[n]
  BY TopFrame DEF Top
<1>2. Fits(Top, n)
  BY <1>1 DEF StackInv
<1>3. Fits(f, n)
  <2>1. CASE n = 1
    BY <1>2, <2>1 DEF Fits
  <2>2. CASE n # 1
    BY <1>2, <2>2 DEF Fits, Critical
  <2> QED
    BY <2>1, <2>2
<1>4. ~bypassed' /\ n > 2 => f.id < stack[n-1].id
  <2> SUFFICES ASSUME ~bypassed, n > 2 PROVE stack[n].id < stack[n-1].id
    BY <1>1
  <2>1. n - 1 \in 2..n-1 /\ (n - 1) + 1 = n
    BY <1>1
  <2> QED
    BY <1>1, <2>1 DEF OnlyMoreUrgent
<1>5. f.open => f.mask = MaskUnder(n)
  <2> SUFFICES ASSUME f.open PROVE stack[n].mask = MaskUnder(n)
    BY <1>1
  <2>1. n # 1
    BY <1>3 DEF Fits
  <2>2. n \in 2..n
    BY <1>1, <2>1, AtLeastTwo
  <2>3. stack[n].open
    BY <1>1
  <2> QED
    BY <2>2, <2>3 DEF PriorityInv
<1>6. alt_priority_mask' = IF f.open THEN Urgent(f.id) ELSE MaskUnder(n)
  BY DEF PriorityInv
<1>7. /\ StackOK' /\ StackInv' /\ PriorityInv' /\ OnlyMoreUrgent'
      /\ Top' = f /\ Len(stack') = Len(stack)
  BY <1>3, <1>4, <1>5, <1>6, TopChanged
<1> QED
  BY <1>7 DEF Interruptible

-----------------------------------------------------------------------------
(* Calls that change the table and the masks. *)

LEMMA RegisterStep ==
  ASSUME IrqInv, alt_ic_isr_register
  PROVE  IrqInv'
<1>1. PICK id \in (0..NIRQ) \ {stack[i].id : i \in DOMAIN stack},
           new \in Handlers \cup {NULL} :
        /\ Valid(id)
        /\ Becomes([Top EXCEPT !.at = "handler", !.arg = id, !.new = new,
                               !.status = PIE])
  BY DEF alt_ic_isr_register
<1>2. /\ Top.at \in {"program", "isr"} /\ PIE' = FALSE
      /\ requests' = requests /\ ienable' = ienable /\ bypassed' = bypassed
      /\ alt_irq_active' = alt_irq_active /\ alt_irq' = alt_irq
      /\ alt_priority_mask' = alt_priority_mask
  BY DEF alt_ic_isr_register, Calling, DisableAll
<1> DEFINE f == [Top EXCEPT !.at = "handler", !.arg = id, !.new = new,
                            !.status = PIE]
<1>3. StackOK /\ StackInv /\ PriorityInv /\ OnlyMoreUrgent /\ RegistersOK
  BY DEF IrqInv
<1>4. id \in Ids
  BY <1>1, IrqConstants DEF Valid, Ids
<1>5. /\ f \in Frames /\ f.id = Top.id /\ f.handler = Top.handler
      /\ f.context = Top.context /\ f.open = Top.open /\ f.mask = Top.mask
      /\ f.at = "handler" /\ f.status = PIE
  BY <1>1, <1>3, <1>4, TopFrame DEF Frames, Places, Whole, RegistersOK
<1>6. Becomes(f)
  BY <1>1
<1> HIDE DEF f
<1>7. /\ StackOK' /\ StackInv' /\ PriorityInv' /\ OnlyMoreUrgent'
      /\ Top' = f /\ Interruptible' = Interruptible
  BY <1>2, <1>3, <1>5, <1>6, SameHandler DEF Critical
<1>8. EnabledInv'
  BY <1>2, <1>5, <1>7 DEF IrqInv, EnabledInv
<1>9. ControllerInv' /\ TableInv' /\ SearchEnds' /\ RegistersOK'
  BY <1>2, <1>5, <1>7
     DEF IrqInv, ControllerInv, TableInv, Busy, SearchEnds, RegistersOK
<1> QED
  BY <1>7, <1>8, <1>9 DEF IrqInv

LEMMA SetOneStep ==
  ASSUME IrqInv, SetOne
  PROVE  IrqInv'
<1>1. PICK id \in Ids, at \in {"on", "off"} :
        /\ at = "on" => alt_irq[id].handler # NULL
        /\ Becomes([Top EXCEPT !.at = at, !.arg = id, !.status = PIE])
  BY DEF SetOne
<1>2. /\ Top.at \in {"program", "isr"} /\ PIE' = FALSE
      /\ requests' = requests /\ ienable' = ienable /\ bypassed' = bypassed
      /\ alt_irq_active' = alt_irq_active /\ alt_irq' = alt_irq
      /\ alt_priority_mask' = alt_priority_mask
  BY DEF SetOne, Calling
<1> DEFINE f == [Top EXCEPT !.at = at, !.arg = id, !.status = PIE]
<1>3. StackOK /\ StackInv /\ PriorityInv /\ OnlyMoreUrgent /\ RegistersOK
  BY DEF IrqInv
<1>4. /\ f \in Frames /\ f.id = Top.id /\ f.handler = Top.handler
      /\ f.context = Top.context /\ f.open = Top.open /\ f.mask = Top.mask
      /\ f.at = at /\ f.arg = id /\ f.status = PIE
  BY <1>1, <1>3, TopFrame DEF Frames, Places, Whole, RegistersOK
<1>5. Becomes(f)
  BY <1>1
<1> HIDE DEF f
<1>6. /\ StackOK' /\ StackInv' /\ PriorityInv' /\ OnlyMoreUrgent'
      /\ Top' = f /\ Interruptible' = Interruptible
  BY <1>2, <1>3, <1>4, <1>5, SameHandler DEF Critical
<1>7. EnabledInv'
  BY <1>2, <1>4, <1>6 DEF IrqInv, EnabledInv
<1>8. ControllerInv' /\ TableInv' /\ SearchEnds' /\ RegistersOK'
  BY <1>1, <1>2, <1>4, <1>6
     DEF IrqInv, ControllerInv, TableInv, Busy, SearchEnds, RegistersOK
<1> QED
  BY <1>6, <1>7, <1>8 DEF IrqInv

LEMMA WriteHandlerStep ==
  ASSUME IrqInv, WriteHandler
  PROVE  IrqInv'
<1> DEFINE f == [Top EXCEPT !.at = "context"]
<1>1. /\ Top.at = "handler" /\ Becomes(f)
      /\ alt_irq' = [alt_irq EXCEPT ![Top.arg].handler = Top.new]
      /\ UNCHANGED <<requests, PIE, ienable, alt_irq_active, alt_priority_mask,
                     bypassed>>
  BY DEF WriteHandler
<1>2. StackOK /\ StackInv /\ PriorityInv /\ OnlyMoreUrgent /\ RegistersOK
  BY DEF IrqInv
<1>3. Top \in Frames /\ Top.arg \in Ids /\ Top.new \in Whole
  BY <1>2, TopFrame DEF Frames
<1>4. /\ f \in Frames /\ f.id = Top.id /\ f.handler = Top.handler
      /\ f.context = Top.context /\ f.open = Top.open /\ f.mask = Top.mask
      /\ f.at = "context" /\ f.arg = Top.arg /\ f.new = Top.new
      /\ f.status = Top.status
  BY <1>3 DEF Frames, Places
<1> HIDE DEF f
<1>5. /\ StackOK' /\ StackInv' /\ PriorityInv' /\ OnlyMoreUrgent'
      /\ Top' = f /\ Interruptible' = Interruptible
  BY <1>1, <1>2, <1>4, SameHandler DEF Critical
<1>6. EnabledInv'
  BY <1>1, <1>4, <1>5 DEF IrqInv, EnabledInv, Critical
<1>7. /\ alt_irq'[Top.arg].handler = Top.new
      /\ \A id \in Ids : id # Top.arg => alt_irq'[id] = alt_irq[id]
      /\ alt_irq' \in [Ids -> [handler : Whole, context : Whole]]
  BY <1>1, <1>2, <1>3 DEF RegistersOK
<1>8. TableInv'
  <2>1. \A id \in Ids :
          /\ alt_irq[id].context = alt_irq[id].handler
          /\ id \in alt_irq_active \cup ienable => alt_irq[id].handler # NULL
    BY <1>1 DEF IrqInv, TableInv, Busy
  <2> QED
    BY <1>1, <1>2, <1>4, <1>5, <1>7, <2>1 DEF TableInv, Busy, RegistersOK
<1>9. ControllerInv' /\ SearchEnds' /\ RegistersOK'
  BY <1>1, <1>4, <1>5, <1>7 DEF IrqInv, ControllerInv, SearchEnds, RegistersOK
<1> QED
  BY <1>5, <1>6, <1>8, <1>9 DEF IrqInv

LEMMA WriteContextStep ==
  ASSUME IrqInv, WriteContext
  PROVE  IrqInv'
<1> DEFINE next == IF Top.new = NULL THEN "off" ELSE "on"
           f == [Top EXCEPT !.at = next]
<1>1. /\ Top.at = "context" /\ Becomes(f)
      /\ alt_irq' = [alt_irq EXCEPT ![Top.arg].context = Top.new]
      /\ UNCHANGED <<requests, PIE, ienable, alt_irq_active, alt_priority_mask,
                     bypassed>>
  BY DEF WriteContext
<1>2. StackOK /\ StackInv /\ PriorityInv /\ OnlyMoreUrgent /\ RegistersOK
  BY DEF IrqInv
<1>3. Top \in Frames /\ Top.arg \in Ids /\ Top.new \in Whole
  BY <1>2, TopFrame DEF Frames
<1>4. /\ f \in Frames /\ f.id = Top.id /\ f.handler = Top.handler
      /\ f.context = Top.context /\ f.open = Top.open /\ f.mask = Top.mask
      /\ f.at = next /\ f.arg = Top.arg /\ f.status = Top.status
  BY <1>3 DEF Frames, Places
<1> HIDE DEF f
<1>5. /\ StackOK' /\ StackInv' /\ PriorityInv' /\ OnlyMoreUrgent'
      /\ Top' = f /\ Interruptible' = Interruptible
  BY <1>1, <1>2, <1>4, SameHandler DEF Critical
<1>6. EnabledInv'
  BY <1>1, <1>4, <1>5 DEF IrqInv, EnabledInv, Critical
<1>7. /\ alt_irq'[Top.arg].context = Top.new
      /\ \A id \in Ids : /\ id # Top.arg => alt_irq'[id] = alt_irq[id]
                         /\ alt_irq'[id].handler = alt_irq[id].handler
      /\ alt_irq' \in [Ids -> [handler : Whole, context : Whole]]
  BY <1>1, <1>2, <1>3 DEF RegistersOK
<1>8. TableInv'
  <2>1. /\ alt_irq[Top.arg].handler = Top.new
        /\ \A id \in Ids : id # Top.arg =>
             /\ alt_irq[id].context = alt_irq[id].handler
             /\ id \in alt_irq_active \cup ienable => alt_irq[id].handler # NULL
    BY <1>1, <1>3 DEF IrqInv, TableInv, Busy
  <2>2. CASE Top.new = NULL
    BY <1>1, <1>2, <1>3, <1>4, <1>5, <1>7, <2>1, <2>2
       DEF TableInv, Busy, RegistersOK
  <2>3. CASE Top.new # NULL
    BY <1>1, <1>2, <1>3, <1>4, <1>5, <1>7, <2>1, <2>3
       DEF TableInv, Busy, RegistersOK
  <2> QED
    BY <2>2, <2>3
<1>9. ControllerInv' /\ SearchEnds' /\ RegistersOK'
  BY <1>1, <1>4, <1>5, <1>7 DEF IrqInv, ControllerInv, SearchEnds, RegistersOK
<1> QED
  BY <1>5, <1>6, <1>8, <1>9 DEF IrqInv

LEMMA SetStep ==
  ASSUME IrqInv, alt_irq_enable \/ alt_irq_disable
  PROVE  IrqInv'
<1> DEFINE f == [Top EXCEPT !.at = "write"]
<1>1. /\ Top.at \in {"on", "off"} /\ Becomes(f)
      /\ Top.at = "on" => alt_irq_active' = alt_irq_active \cup {Top.arg}
      /\ Top.at = "off" => alt_irq_active' = alt_irq_active \ {Top.arg}
      /\ UNCHANGED <<requests, PIE, ienable, alt_priority_mask, alt_irq,
                     bypassed>>
  BY DEF alt_irq_enable, alt_irq_disable, Set
<1>2. StackOK /\ StackInv /\ PriorityInv /\ OnlyMoreUrgent /\ RegistersOK
  BY DEF IrqInv
<1>3. Top \in Frames /\ Top.arg \in Ids
  BY <1>2, TopFrame DEF Frames
<1>4. /\ f \in Frames /\ f.id = Top.id /\ f.handler = Top.handler
      /\ f.context = Top.context /\ f.open = Top.open /\ f.mask = Top.mask
      /\ f.at = "write" /\ f.arg = Top.arg /\ f.status = Top.status
  BY <1>3 DEF Frames, Places
<1> HIDE DEF f
<1>5. /\ StackOK' /\ StackInv' /\ PriorityInv' /\ OnlyMoreUrgent'
      /\ Top' = f /\ Interruptible' = Interruptible
  BY <1>1, <1>2, <1>4, SameHandler DEF Critical
<1>6. EnabledInv'
  BY <1>1, <1>4, <1>5 DEF IrqInv, EnabledInv, Critical
<1>7. TableInv'
  <2>1. TableInv
    BY DEF IrqInv
  <2>2. CASE Top.at = "on"
    BY <1>1, <1>3, <1>4, <1>5, <2>1, <2>2 DEF TableInv, Busy
  <2>3. CASE Top.at = "off"
    BY <1>1, <1>3, <1>4, <1>5, <2>1, <2>3 DEF TableInv, Busy
  <2> QED
    BY <1>1, <2>2, <2>3
<1>8. ControllerInv' /\ SearchEnds' /\ RegistersOK'
  BY <1>1, <1>2, <1>3, <1>4, <1>5 DEF ControllerInv, SearchEnds, RegistersOK
<1> QED
  BY <1>5, <1>6, <1>7, <1>8 DEF IrqInv

LEMMA WriteIenableStep ==
  ASSUME IrqInv, WriteIenable
  PROVE  IrqInv'
<1> DEFINE f == [Top EXCEPT !.at = "restore"]
<1>1. /\ Top.at = "write" /\ Becomes(f) /\ ienable' = alt_irq_active
      /\ bypassed' = (bypassed \/ alt_priority_mask # All)
      /\ UNCHANGED <<requests, PIE, alt_irq_active, alt_priority_mask, alt_irq>>
  BY DEF WriteIenable
<1>2. StackOK /\ StackInv /\ PriorityInv /\ OnlyMoreUrgent /\ RegistersOK
  BY DEF IrqInv
<1>3. Top \in Frames
  BY <1>2, TopFrame
<1>4. /\ f \in Frames /\ f.id = Top.id /\ f.handler = Top.handler
      /\ f.context = Top.context /\ f.open = Top.open /\ f.mask = Top.mask
      /\ f.at = "restore" /\ f.status = Top.status
  BY <1>3 DEF Frames, Places
<1> HIDE DEF f
<1>5. /\ StackOK' /\ StackInv' /\ PriorityInv' /\ OnlyMoreUrgent'
      /\ Top' = f /\ Interruptible' = Interruptible
  <2>1. bypassed => bypassed'
    BY <1>1
  <2> QED
    BY <1>1, <1>2, <1>4, <2>1, SameHandler DEF Critical
<1>6. EnabledInv'
  BY <1>1, <1>4, <1>5 DEF IrqInv, EnabledInv, Critical
<1>7. TableInv'
  BY <1>1, <1>2, <1>4, <1>5 DEF IrqInv, TableInv, Busy, RegistersOK
<1>8. ControllerInv'
  BY <1>1, <1>2 DEF ControllerInv, RegistersOK, All
<1>9. SearchEnds' /\ RegistersOK'
  BY <1>1, <1>2, <1>4, <1>5 DEF SearchEnds, RegistersOK
<1> QED
  BY <1>5, <1>6, <1>7, <1>8, <1>9 DEF IrqInv

\* The end of a critical section: interrupts are enabled again only where the
\* code that began it may be interrupted.
LEMMA EnableAllStep ==
  ASSUME IrqInv, EnableAll
  PROVE  IrqInv'
<1> DEFINE last == Len(stack) = 1
           f == [Top EXCEPT !.at = IF last THEN "program" ELSE "isr",
                            !.arg = 0, !.new = NULL, !.status = TRUE,
                            !.calls = IF last THEN 0 ELSE @ + 1]
<1>1. /\ Top.at = "restore" /\ Becomes(f) /\ PIE' = Top.status
      /\ UNCHANGED <<requests, ienable, alt_irq_active, alt_priority_mask,
                     alt_irq, bypassed>>
  BY DEF EnableAll, Restored
<1>2. StackOK /\ StackInv /\ PriorityInv /\ OnlyMoreUrgent /\ RegistersOK
  BY DEF IrqInv
<1>3. Top \in Frames /\ Top.status \in BOOLEAN
  BY <1>2, TopFrame DEF Frames
<1>4. /\ f.id = Top.id /\ f.handler = Top.handler
      /\ f.context = Top.context /\ f.open = Top.open /\ f.mask = Top.mask
      /\ f.at = IF last THEN "program" ELSE "isr"
  BY <1>3 DEF Frames
<1>5. f \in Frames
  <2>1. /\ 0 \in Ids /\ NULL \in Whole /\ Top.calls + 1 \in Nat /\ 0 \in Nat
        /\ (IF last THEN "program" ELSE "isr") \in Places
    BY <1>3, IrqConstants DEF Frames, Ids, Whole, Places
  <2> DEFINE at == IF last THEN "program" ELSE "isr"
             calls == IF last THEN 0 ELSE Top.calls + 1
  <2>2. at \in Places /\ calls \in Nat
    BY <2>1
  <2>3. f = [Top EXCEPT !.at = at, !.arg = 0, !.new = NULL, !.status = TRUE,
                        !.calls = calls]
    OBVIOUS
  <2> HIDE DEF at, calls
  <2> QED
    BY <1>3, <2>1, <2>2, <2>3 DEF Frames
<1> HIDE DEF f
<1>6. /\ StackOK' /\ StackInv' /\ PriorityInv' /\ OnlyMoreUrgent'
      /\ Top' = f /\ Interruptible' = Interruptible
  BY <1>1, <1>2, <1>4, <1>5, SameHandler DEF Critical
<1>7. EnabledInv'
  BY <1>1, <1>4, <1>6 DEF IrqInv, EnabledInv, Critical
<1>8. TableInv'
  BY <1>1, <1>2, <1>4, <1>6 DEF IrqInv, TableInv, Busy, RegistersOK
<1>9. ControllerInv' /\ SearchEnds' /\ RegistersOK'
  BY <1>1, <1>2, <1>3, <1>4, <1>6 DEF IrqInv, ControllerInv, SearchEnds, RegistersOK
<1> QED
  BY <1>6, <1>7, <1>8, <1>9 DEF IrqInv

LEMMA ServeStep ==
  ASSUME IrqInv, Serve
  PROVE  IrqInv'
<1> DEFINE f == [Top EXCEPT !.served = TRUE]
<1>1. /\ Top.at = "isr" /\ Becomes(f) /\ requests' = requests \ {Top.id}
      /\ UNCHANGED <<PIE, ienable, alt_irq_active, alt_priority_mask, alt_irq,
                     bypassed>>
  BY DEF Serve
<1>2. StackOK /\ StackInv /\ PriorityInv /\ OnlyMoreUrgent /\ RegistersOK
  BY DEF IrqInv
<1>3. Top \in Frames
  BY <1>2, TopFrame
<1>4. /\ f \in Frames /\ f.id = Top.id /\ f.handler = Top.handler
      /\ f.context = Top.context /\ f.open = Top.open /\ f.mask = Top.mask
      /\ f.at = "isr"
  BY <1>1, <1>3 DEF Frames, Places
<1> HIDE DEF f
<1>5. Len(stack) # 1
  BY <1>1, <1>2, TopFrame DEF StackInv, Fits, Top, Critical
<1>6. /\ StackOK' /\ StackInv' /\ PriorityInv' /\ OnlyMoreUrgent'
      /\ Top' = f /\ Interruptible' = Interruptible
  BY <1>1, <1>2, <1>4, <1>5, SameHandler
<1>7. EnabledInv'
  BY <1>1, <1>4, <1>6 DEF IrqInv, EnabledInv, Critical
<1>8. TableInv'
  BY <1>1, <1>2, <1>4, <1>6 DEF IrqInv, TableInv, Busy, RegistersOK
<1>9. ControllerInv' /\ SearchEnds' /\ RegistersOK'
  BY <1>1, <1>2, <1>4, <1>6 DEF IrqInv, ControllerInv, SearchEnds, RegistersOK
<1> QED
  BY <1>6, <1>7, <1>8, <1>9 DEF IrqInv

-----------------------------------------------------------------------------
(* Exceptions, and handlers that let others in. *)

\* A handler has a handler's place on the stack.
LEMMA RunningHandler ==
  ASSUME StackOK, StackInv, Top.at = "isr"
  PROVE  /\ Len(stack) >= 2 /\ Len(stack) # 1 /\ Top.id \in Ids
         /\ Top.id >= 0 /\ Top.handler # NULL /\ Top.context = Top.handler
<1>1. /\ Len(stack) \in Nat /\ Len(stack) >= 1 /\ Top \in Frames
      /\ Top = stack[Len(stack)]
  BY TopFrame DEF Top
<1>2. Fits(Top, Len(stack))
  BY <1>1 DEF StackInv
<1>3. Top.id \in -1..NIRQ-1
  BY <1>1 DEF Frames
<1>4. Len(stack) # 1
  BY <1>2 DEF Fits, Critical
<1>5. Top.id >= 0 /\ Top.handler # NULL /\ Top.context = Top.handler
  BY <1>2, <1>4 DEF Fits
<1>6. Top.id \in Ids
  BY <1>3, <1>5, IrqConstants DEF Ids
<1>7. Len(stack) >= 2
  BY <1>1, <1>4, AtLeastTwo
<1> QED
  BY <1>4, <1>5, <1>6, <1>7

\* With nobody's mask bypassed the running handler is more urgent than the one
\* it has interrupted.
LEMMA MoreUrgentThanBelow ==
  ASSUME StackOK, OnlyMoreUrgent, ~bypassed, Len(stack) > 2
  PROVE  Top.id < stack[Len(stack)-1].id
<1>1. Len(stack) - 1 \in 2..Len(stack)-1 /\ (Len(stack) - 1) + 1 = Len(stack)
  BY TopFrame
<1>2. stack[(Len(stack) - 1) + 1].id < stack[Len(stack)-1].id
  BY <1>1 DEF OnlyMoreUrgent
<1> QED
  BY <1>1, <1>2 DEF Top

LEMMA InterruptibleStep ==
  ASSUME IrqInv, alt_irq_interruptible
  PROVE  IrqInv'
<1> DEFINE f == [Top EXCEPT !.open = TRUE, !.mask = alt_priority_mask,
                            !.calls = @ + 1]
<1>1. /\ Top.at = "isr" /\ ~Top.open /\ Becomes(f)
      /\ alt_priority_mask' = Urgent(Top.id)
      /\ ienable' = alt_irq_active \cap Urgent(Top.id)
      /\ PIE' = TRUE
      /\ UNCHANGED <<requests, alt_irq_active, alt_irq, bypassed>>
  BY DEF alt_irq_interruptible
<1>2. StackOK /\ StackInv /\ PriorityInv /\ OnlyMoreUrgent /\ RegistersOK
  BY DEF IrqInv
<1>3. Top \in Frames
  BY <1>2, TopFrame
<1>4. f \in Frames
  <2>1. alt_priority_mask \in SUBSET Ids /\ Top.calls + 1 \in Nat
    BY <1>2, <1>3 DEF Frames, RegistersOK
  <2> QED
    BY <1>3, <2>1 DEF Frames
<1>5. /\ f.id = Top.id /\ f.handler = Top.handler /\ f.context = Top.context
      /\ f.open /\ f.mask = alt_priority_mask /\ f.at = "isr"
  BY <1>1, <1>3 DEF Frames
<1> HIDE DEF f
<1>6. /\ Len(stack) # 1 /\ Top.id \in Ids
      /\ Top.id >= 0 /\ Top.handler # NULL /\ Top.context = Top.handler
  BY <1>1, <1>2, RunningHandler
<1>7. /\ StackOK' /\ StackInv' /\ PriorityInv' /\ OnlyMoreUrgent'
      /\ Top' = f /\ Len(stack') = Len(stack)
  <2>1. Fits(f, Len(stack))
    BY <1>5, <1>6 DEF Fits
  <2>2. ~bypassed' /\ Len(stack) > 2 => f.id < stack[Len(stack)-1].id
    BY <1>1, <1>2, <1>5, MoreUrgentThanBelow
  <2>3. f.mask = MaskUnder(Len(stack))
    BY <1>1, <1>2, <1>5 DEF PriorityInv
  <2>4. alt_priority_mask' =
          IF f.open THEN Urgent(f.id) ELSE MaskUnder(Len(stack))
    BY <1>1, <1>5
  <2> QED
    BY <1>1, <1>2, <1>4, <2>1, <2>2, <2>3, <2>4, TopChanged
<1>8. EnabledInv'
  BY <1>5, <1>7 DEF EnabledInv, Interruptible, Critical
<1>9. TableInv'
  BY <1>1, <1>2, <1>5, <1>7 DEF IrqInv, TableInv, Busy, RegistersOK
<1>10. RegistersOK'
  BY <1>1, <1>2, <1>6, IrqConstants DEF RegistersOK, Urgent, Ids
<1>11. ControllerInv' /\ SearchEnds'
  BY <1>1, <1>5, <1>7 DEF ControllerInv, SearchEnds
<1> QED
  BY <1>7, <1>8, <1>9, <1>10, <1>11 DEF IrqInv

LEMMA NonInterruptibleStep ==
  ASSUME IrqInv, alt_irq_non_interruptible
  PROVE  IrqInv'
<1> DEFINE f == [Top EXCEPT !.open = FALSE]
<1>1. /\ Top.at = "isr" /\ Top.open /\ Becomes(f)
      /\ alt_priority_mask' = Top.mask
      /\ ienable' = alt_irq_active \cap Top.mask
      /\ PIE' = FALSE
      /\ UNCHANGED <<requests, alt_irq_active, alt_irq, bypassed>>
  BY DEF alt_irq_non_interruptible
<1>2. StackOK /\ StackInv /\ PriorityInv /\ OnlyMoreUrgent /\ RegistersOK
  BY DEF IrqInv
<1>3. Top \in Frames
  BY <1>2, TopFrame
<1>4. /\ f \in Frames
      /\ f.id = Top.id /\ f.handler = Top.handler /\ f.context = Top.context
      /\ ~f.open /\ f.at = "isr"
  BY <1>1, <1>3 DEF Frames
<1> HIDE DEF f
<1>5. Len(stack) >= 2 /\ Top.mask = MaskUnder(Len(stack))
  BY <1>1, <1>2, RunningHandler, TopFrame DEF PriorityInv, Top
<1>6. /\ StackOK' /\ StackInv' /\ PriorityInv' /\ OnlyMoreUrgent'
      /\ Top' = f /\ Len(stack') = Len(stack)
  <2>1. Fits(f, Len(stack))
    BY <1>1, <1>2, <1>4, RunningHandler DEF Fits
  <2>2. ~bypassed' /\ Len(stack) > 2 => f.id < stack[Len(stack)-1].id
    BY <1>1, <1>2, <1>4, MoreUrgentThanBelow
  <2>3. alt_priority_mask' =
          IF f.open THEN Urgent(f.id) ELSE MaskUnder(Len(stack))
    BY <1>1, <1>4, <1>5
  <2> QED
    BY <1>1, <1>2, <1>4, <2>1, <2>2, <2>3, TopChanged
<1>7. EnabledInv'
  BY <1>1, <1>4, <1>6 DEF EnabledInv, Interruptible, Critical
<1>8. TableInv'
  BY <1>1, <1>2, <1>4, <1>6 DEF IrqInv, TableInv, Busy, RegistersOK
<1>9. RegistersOK'
  BY <1>1, <1>2, <1>3 DEF RegistersOK, Frames
<1>10. ControllerInv' /\ SearchEnds'
  BY <1>1, <1>4, <1>6 DEF ControllerInv, SearchEnds
<1> QED
  BY <1>6, <1>7, <1>8, <1>9, <1>10 DEF IrqInv

\* The handler is done; the loop of alt_irq_handler looks what is pending.
LEMMA IsrReturnStep ==
  ASSUME IrqInv, IsrReturn
  PROVE  IrqInv'
<1> DEFINE f == Frame(-1, "loaded")
<1>1. /\ Top.at = "isr" /\ ~Top.open /\ Becomes(f)
      /\ UNCHANGED <<requests, PIE, ienable, alt_irq_active, alt_priority_mask,
                     alt_irq, bypassed>>
  BY DEF IsrReturn
<1>2. StackOK /\ StackInv /\ PriorityInv /\ OnlyMoreUrgent /\ RegistersOK
  BY DEF IrqInv
<1>3. f \in Frames /\ f.id = -1 /\ f.at = "loaded" /\ ~f.open
  BY NewFrame, IrqConstants DEF Places
<1> HIDE DEF f
<1>4. Len(stack) # 1 /\ Top.id \in Ids
  BY <1>1, <1>2, RunningHandler
<1>5. /\ StackOK' /\ StackInv' /\ PriorityInv' /\ OnlyMoreUrgent'
      /\ Top' = f /\ Len(stack') = Len(stack)
  <2>1. Fits(f, Len(stack))
    BY <1>3, <1>4 DEF Fits
  <2>2. ~bypassed' /\ Len(stack) > 2 => f.id < stack[Len(stack)-1].id
    <3> SUFFICES ASSUME ~bypassed, Len(stack) > 2
                 PROVE  -1 < stack[Len(stack)-1].id
      BY <1>1, <1>3
    <3>1. Top.id < stack[Len(stack)-1].id /\ stack[Len(stack)-1] \in Frames
      BY <1>2, MoreUrgentThanBelow DEF StackOK
    <3> QED
      BY <1>4, <3>1, IrqConstants DEF Ids, Frames
  <2>3. alt_priority_mask' =
          IF f.open THEN Urgent(f.id) ELSE MaskUnder(Len(stack))
    BY <1>1, <1>2, <1>3 DEF PriorityInv
  <2> QED
    BY <1>1, <1>2, <1>3, <2>1, <2>2, <2>3, TopChanged
<1>6. EnabledInv'
  BY <1>1, <1>3, <1>4, <1>5 DEF IrqInv, EnabledInv, Interruptible, Critical
<1>7. TableInv'
  BY <1>1, <1>2, <1>3, <1>5 DEF IrqInv, TableInv, Busy, RegistersOK
<1>8. ControllerInv' /\ SearchEnds' /\ RegistersOK'
  BY <1>1, <1>2, <1>3, <1>5
     DEF IrqInv, ControllerInv, SearchEnds, RegistersOK
<1> QED
  BY <1>5, <1>6, <1>7, <1>8 DEF IrqInv

\* A frame of alt_irq_handler has a place above the program's.
LEMMA HandlingFrame ==
  ASSUME StackOK, StackInv, Top.at \in {"alt_irq_handler", "loaded"}
  PROVE  Len(stack) >= 2 /\ Len(stack) # 1 /\ ~Top.open
<1>1. Len(stack) \in Nat /\ Len(stack) >= 1 /\ Top = stack[Len(stack)]
  BY TopFrame DEF Top
<1>2. Fits(Top, Len(stack))
  BY <1>1 DEF StackInv
<1>3. Len(stack) # 1
  BY <1>2 DEF Fits, Critical
<1>4. ~Top.open
  BY <1>2, <1>3 DEF Fits, Critical
<1> QED
  BY <1>1, <1>3, <1>4, AtLeastTwo

LEMMA NextPassStep ==
  ASSUME IrqInv, NextPass
  PROVE  IrqInv'
<1> DEFINE f == [Top EXCEPT !.at = "alt_irq_handler"]
<1>1. /\ Top.at = "loaded" /\ ipending # {} /\ Becomes(f)
      /\ UNCHANGED <<requests, PIE, ienable, alt_irq_active, alt_priority_mask,
                     alt_irq, bypassed>>
  BY DEF NextPass
<1>2. StackOK /\ StackInv /\ PriorityInv /\ OnlyMoreUrgent /\ RegistersOK
  BY DEF IrqInv
<1>3. Top \in Frames /\ Len(stack) # 1 /\ ~Top.open /\ Fits(Top, Len(stack))
  BY <1>1, <1>2, TopFrame, HandlingFrame DEF StackInv, Top
<1>4. /\ f \in Frames /\ f.id = Top.id /\ ~f.open /\ f.at = "alt_irq_handler"
  BY <1>3 DEF Frames, Places
<1> HIDE DEF f
<1>5. /\ StackOK' /\ StackInv' /\ PriorityInv' /\ OnlyMoreUrgent'
      /\ Top' = f /\ Len(stack') = Len(stack)
  <2>1. Fits(f, Len(stack))
    BY <1>1, <1>3, <1>4 DEF Fits, Critical
  <2>2. ~bypassed' /\ Len(stack) > 2 => f.id < stack[Len(stack)-1].id
    BY <1>1, <1>2, <1>4, MoreUrgentThanBelow
  <2>3. alt_priority_mask' =
          IF f.open THEN Urgent(f.id) ELSE MaskUnder(Len(stack))
    BY <1>1, <1>2, <1>3, <1>4 DEF PriorityInv
  <2> QED
    BY <1>1, <1>2, <1>4, <2>1, <2>2, <2>3, TopChanged
<1>6. EnabledInv'
  BY <1>1, <1>4, <1>5 DEF IrqInv, EnabledInv, Critical
<1>7. TableInv'
  BY <1>1, <1>2, <1>4, <1>5 DEF IrqInv, TableInv, Busy, RegistersOK
<1>8. ControllerInv' /\ SearchEnds' /\ RegistersOK'
  BY <1>1, <1>2, <1>4, <1>5
     DEF IrqInv, ControllerInv, SearchEnds, RegistersOK, ipending
<1> QED
  BY <1>5, <1>6, <1>7, <1>8 DEF IrqInv

-----------------------------------------------------------------------------
(* The search for a bit: a set of numbers has a least one. *)

Less == {p \in Nat \X Nat : p[1] < p[2]}

LEMMA HasLeast ==
  ASSUME NEW S \in SUBSET Nat, S # {}
  PROVE  \E m \in S : \A n \in S : m <= n
<1>1. IsWellFoundedOn(Less, Nat)
  <2>1. Less = OpToRel(<, Nat)
    BY DEF OpToRel, Less
  <2> QED
    BY <2>1, NatLessThanWellFounded
<1>2. PICK m \in S : \A n \in S : <<n, m>> \notin Less
  BY <1>1, WFMin, Zenon
<1>3. ASSUME NEW n \in S PROVE m <= n
  <2>1. <<n, m>> \notin Less /\ n \in Nat /\ m \in Nat
    BY <1>2
  <2>2. ~(n < m)
    BY <2>1 DEF Less
  <2> QED
    BY <2>1, <2>2
<1> QED
  BY <1>2, <1>3

LEMMA MostUrgentPending ==
  ASSUME RegistersOK, ipending # {}
  PROVE  MostUrgent \in ipending /\ MostUrgent \in Ids
<1>1. ipending \in SUBSET Nat /\ ipending \subseteq Ids
  BY IrqConstants DEF RegistersOK, ipending, Ids
<1>2. \E m \in ipending : \A n \in ipending : m <= n
  BY <1>1, HasLeast
<1>3. MostUrgent = CHOOSE m \in ipending : \A n \in ipending : m <= n
  BY DEF MostUrgent, Min
<1>4. MostUrgent \in ipending
  BY <1>2, <1>3, Zenon
<1> QED
  BY <1>1, <1>4

\* The handler that is called is whole, and more urgent than the interrupted one
\* if the controller has been told its mask.
LEMMA HandlerStep ==
  ASSUME IrqInv, alt_irq_handler
  PROVE  IrqInv'
<1> DEFINE m == MostUrgent
           f == [Frame(m, "isr") EXCEPT !.handler = alt_irq[m].handler,
                                        !.context = alt_irq[m].context]
<1>1. /\ Top.at = "alt_irq_handler" /\ ipending # {} /\ Becomes(f)
      /\ UNCHANGED <<requests, PIE, ienable, alt_irq_active, alt_priority_mask,
                     alt_irq, bypassed>>
  BY DEF alt_irq_handler
<1>2. StackOK /\ StackInv /\ PriorityInv /\ OnlyMoreUrgent /\ RegistersOK
  BY DEF IrqInv
<1>3. m \in ipending /\ m \in Ids
  BY <1>1, <1>2, MostUrgentPending
<1> HIDE DEF m
<1>4. m \in ienable /\ m \in 0..NIRQ-1 /\ m >= 0 /\ m \in -1..NIRQ-1
  BY <1>3, IrqConstants DEF ipending, Ids
<1>5. Top \in Frames /\ Len(stack) # 1 /\ ~Top.open
  BY <1>1, <1>2, TopFrame, HandlingFrame
<1>6. /\ alt_irq[m].handler # NULL /\ alt_irq[m].context = alt_irq[m].handler
      /\ alt_irq[m].handler \in Whole /\ alt_irq[m].context \in Whole
  <2>1. alt_irq[m] \in [handler : Whole, context : Whole]
    BY <1>2, <1>3 DEF RegistersOK
  <2>2. alt_irq[m].handler # NULL /\ alt_irq[m].context = alt_irq[m].handler
    BY <1>1, <1>3, <1>4 DEF IrqInv, TableInv, Busy
  <2> QED
    BY <2>1, <2>2
<1>7. /\ f \in Frames /\ f.id = m /\ f.at = "isr" /\ ~f.open
      /\ f.handler = alt_irq[m].handler /\ f.context = alt_irq[m].context
  <2>1. "isr" \in Places
    BY DEF Places
  <2> DEFINE g == Frame(m, "isr")
  <2>2. g \in Frames /\ g.id = m /\ g.at = "isr" /\ ~g.open
    BY <1>4, <2>1, NewFrame
  <2>3. f = [g EXCEPT !.handler = alt_irq[m].handler,
                      !.context = alt_irq[m].context]
    OBVIOUS
  <2> HIDE DEF g, f
  <2> QED
    BY <1>6, <2>2, <2>3 DEF Frames
<1> HIDE DEF f
<1>8. /\ StackOK' /\ StackInv' /\ PriorityInv' /\ OnlyMoreUrgent'
      /\ Top' = f /\ Len(stack') = Len(stack)
  <2>1. Fits(f, Len(stack))
    BY <1>4, <1>5, <1>6, <1>7 DEF Fits
  <2>2. ~bypassed' /\ Len(stack) > 2 => f.id < stack[Len(stack)-1].id
    <3> SUFFICES ASSUME ~bypassed, Len(stack) > 2
                 PROVE  m < stack[Len(stack)-1].id
      BY <1>1, <1>7
    <3>1. ienable = alt_irq_active \cap alt_priority_mask
      BY <1>1 DEF IrqInv, ControllerInv
    <3>2. alt_priority_mask = MaskUnder(Len(stack))
      BY <1>2, <1>5 DEF PriorityInv
    <3>3. Len(stack) \in Nat /\ ~(Len(stack) <= 2)
      BY <1>2, TopFrame
    <3>4. MaskUnder(Len(stack)) = 0..stack[Len(stack)-1].id-1
      BY <3>3 DEF MaskUnder, Urgent
    <3>5. stack[Len(stack)-1].id \in Int
      <4>1. stack[Len(stack)-1] \in Frames
        BY <1>2, <3>3 DEF StackOK
      <4> QED
        BY <4>1, IrqConstants DEF Frames
    <3>6. m \in 0..stack[Len(stack)-1].id-1
      BY <1>4, <3>1, <3>2, <3>4
    <3> QED
      BY <3>5, <3>6
  <2>3. alt_priority_mask' =
          IF f.open THEN Urgent(f.id) ELSE MaskUnder(Len(stack))
    BY <1>1, <1>2, <1>5, <1>7 DEF PriorityInv
  <2> QED
    BY <1>1, <1>2, <1>7, <2>1, <2>2, <2>3, TopChanged
<1>9. EnabledInv'
  BY <1>1, <1>7, <1>8 DEF IrqInv, EnabledInv, Critical
<1>10. TableInv'
  BY <1>1, <1>2, <1>7, <1>8 DEF IrqInv, TableInv, Busy, RegistersOK
<1>11. ControllerInv' /\ SearchEnds' /\ RegistersOK'
  BY <1>1, <1>2, <1>7, <1>8
     DEF IrqInv, ControllerInv, SearchEnds, RegistersOK
<1> QED
  BY <1>8, <1>9, <1>10, <1>11 DEF IrqInv

-----------------------------------------------------------------------------
(* The stack grows and shrinks. *)

LEMMA ExceptionStep ==
  ASSUME IrqInv, alt_exception
  PROVE  IrqInv'
<1> DEFINE n == Len(stack)
           f == Frame(-1, "alt_irq_handler")
<1>1. /\ PIE /\ ipending # {} /\ n < MaxDepth /\ PIE' = FALSE
      /\ stack' = Append(stack, f)
      /\ UNCHANGED <<requests, ienable, alt_irq_active, alt_priority_mask,
                     alt_irq, bypassed>>
  BY DEF alt_exception
<1>2. StackOK /\ StackInv /\ PriorityInv /\ OnlyMoreUrgent /\ RegistersOK
  BY DEF IrqInv
<1>3. f \in Frames /\ f.id = -1 /\ f.at = "alt_irq_handler" /\ ~f.open
  BY NewFrame, IrqConstants DEF Places
<1> HIDE DEF f
<1>4. /\ StackOK' /\ Len(stack') = n + 1 /\ Top' = f /\ stack'[n + 1] = f
      /\ \A i \in 1..n : stack'[i] = stack[i]
  BY <1>1, <1>2, <1>3, FramePushed
<1>5. n \in Nat /\ n >= 1 /\ Top = stack[n] /\ Fits(Top, n)
  BY <1>2, TopFrame DEF StackInv, Top
<1>6. Top.at \in {"program", "isr"} /\ (n = 1 \/ Top.open)
  BY <1>1 DEF IrqInv, EnabledInv, Interruptible
<1>7. /\ n = 1 => Top.at = "program" /\ ~Top.open
      /\ n # 1 => Top.at = "isr" /\ Top.open /\ Top.id >= 0
  BY <1>5, <1>6 DEF Fits, Critical
<1> HIDE DEF n
<1>8. StackInv'
  <2>1. ASSUME NEW i \in 1..n+1 PROVE Fits(stack'[i], i)
    <3>1. CASE i \in 1..n
      BY <1>2, <1>4, <3>1 DEF StackInv, n
    <3>2. CASE i = n + 1
      <4>1. i # 1
        BY <1>5, <3>2
      <4> QED
        BY <1>3, <1>4, <3>2, <4>1 DEF Fits
    <3> QED
      BY <1>5, <3>1, <3>2
  <2>2. NothingElseInterrupted'
    <3> SUFFICES ASSUME NEW i \in 1..n
                 PROVE  \/ stack[i].at = "program"
                        \/ stack[i].at = "isr" /\ stack[i].open
      BY <1>4, <1>5 DEF NothingElseInterrupted
    <3>1. CASE i = n
      BY <1>5, <1>7, <3>1
    <3>2. CASE i # n
      <4>1. i \in 1..n-1
        BY <1>5, <3>2
      <4> QED
        BY <1>2, <4>1 DEF StackInv, NothingElseInterrupted, n
    <3> QED
      BY <3>1, <3>2
  <2> QED
    BY <1>4, <2>1, <2>2 DEF StackInv
<1>9. PriorityInv'
  <2>1. \A i \in 1..n : MaskUnder(i)' = MaskUnder(i)
    BY <1>4, <1>5 DEF MaskUnder
  <2>2. (MaskUnder(Len(stack)))' = alt_priority_mask
    <3>1. CASE n = 1
      BY <1>2, <1>4, <1>5, <1>7, <3>1 DEF PriorityInv, MaskUnder, n
    <3>2. CASE n # 1
      <4>1. n + 1 > 2 /\ ~(n + 1 <= 2) /\ (n + 1) - 1 = n /\ n \in 1..n
        BY <1>5, <3>2
      <4>2. (MaskUnder(Len(stack)))' = Urgent(stack[n].id)
        BY <1>4, <4>1 DEF MaskUnder
      <4> QED
        BY <1>2, <1>5, <1>7, <3>2, <4>2 DEF PriorityInv
    <3> QED
      BY <3>1, <3>2
  <2>3. ASSUME NEW i \in 2..n+1, stack'[i].open
        PROVE  stack'[i].mask = MaskUnder(i)'
    <3>1. i \in 2..n
      BY <1>3, <1>4, <1>5, <2>3
    <3> QED
      BY <1>2, <1>4, <1>5, <2>1, <2>3, <3>1 DEF PriorityInv, n
  <2> QED
    BY <1>1, <1>3, <1>4, <2>2, <2>3 DEF PriorityInv
<1>10. OnlyMoreUrgent'
  <2> SUFFICES ASSUME ~bypassed, NEW i \in 2..n
               PROVE  stack'[i+1].id < stack'[i].id
    BY <1>1, <1>4, <1>5 DEF OnlyMoreUrgent
  <2>1. CASE i = n
    <3>1. n # 1 /\ i \in 1..n
      BY <1>5, <2>1
    <3>2. stack[n].id \in Int /\ stack[n].id >= 0
      BY <1>2, <1>5, <1>7, <3>1, TopFrame, IrqConstants DEF Frames
    <3>3. stack'[i].id = stack[n].id /\ stack'[i+1].id = -1
      BY <1>3, <1>4, <2>1, <3>1
    <3> QED
      BY <3>2, <3>3
  <2>2. CASE i # n
    <3>1. i \in 2..n-1 /\ i \in 1..n /\ i + 1 \in 1..n
      BY <1>5, <2>2
    <3> QED
      BY <1>2, <1>4, <3>1 DEF OnlyMoreUrgent, n
  <2> QED
    BY <2>1, <2>2
<1>11. EnabledInv' /\ SearchEnds'
  BY <1>1, <1>3, <1>4 DEF EnabledInv, SearchEnds, Critical, ipending
<1>12. TableInv'
  BY <1>1, <1>2, <1>3, <1>4, <1>6 DEF IrqInv, TableInv, Busy, RegistersOK
<1>13. ControllerInv' /\ RegistersOK'
  BY <1>1, <1>2, <1>3, <1>4, <1>6 DEF IrqInv, ControllerInv, RegistersOK
<1> QED
  BY <1>4, <1>8, <1>9, <1>10, <1>11, <1>12, <1>13 DEF IrqInv

\* Back to the program or to the handler that was interrupted, with the mask it
\* has set itself.
LEMMA ReturnStep ==
  ASSUME IrqInv, ExceptionReturn
  PROVE  IrqInv'
<1> DEFINE n == Len(stack)
<1>1. /\ Top.at = "loaded" /\ stack' = Below /\ PIE' = TRUE
      /\ bypassed' = (bypassed /\ Len(Below) > 1)
      /\ UNCHANGED <<requests, ienable, alt_irq_active, alt_priority_mask,
                     alt_irq>>
  BY DEF ExceptionReturn
<1>2. StackOK /\ StackInv /\ PriorityInv /\ OnlyMoreUrgent /\ RegistersOK
  BY DEF IrqInv
<1>3. n \in Nat /\ n >= 2 /\ ~Top.open
  BY <1>1, <1>2, HandlingFrame, TopFrame
<1>4. /\ StackOK' /\ Len(stack') = n - 1 /\ Top' = stack[n-1]
      /\ \A i \in 1..n-1 : stack'[i] = stack[i]
  BY <1>1, <1>2, <1>3, FramePopped
<1>5. Len(Below) = n - 1
  BY <1>2, BelowTop
<1> DEFINE f == stack[n-1]
<1>6. /\ Fits(f, n - 1)
      /\ f.at = "program" \/ (f.at = "isr" /\ f.open)
  BY <1>2, <1>3 DEF StackInv, NothingElseInterrupted
<1>7. /\ n = 2 => f.at = "program" /\ ~f.open
      /\ n # 2 => f.at = "isr" /\ f.open
  BY <1>3, <1>6 DEF Fits, Critical
<1> HIDE DEF n, f
<1>8. StackInv'
  <2>1. ASSUME NEW i \in 1..n-1 PROVE Fits(stack'[i], i)
    BY <1>2, <1>3, <1>4 DEF StackInv, n
  <2>2. NothingElseInterrupted'
    BY <1>2, <1>3, <1>4 DEF StackInv, NothingElseInterrupted, n
  <2> QED
    BY <1>4, <2>1, <2>2 DEF StackInv
<1>9. PriorityInv'
  <2>1. \A i \in 1..n-1 : MaskUnder(i)' = MaskUnder(i)
    BY <1>3, <1>4 DEF MaskUnder
  <2>2. alt_priority_mask = MaskUnder(n)
    BY <1>2, <1>3 DEF PriorityInv, n
  <2>3. CASE n = 2
    <3>1. Top' = f /\ ~f.open /\ Len(stack') = 1
      BY <1>3, <1>4, <1>7, <2>3 DEF f
    <3> QED
      BY <1>1, <2>2, <2>3, <3>1 DEF PriorityInv, MaskUnder
  <2>4. CASE n # 2
    <3>1. Top' = f /\ f.open
      BY <1>4, <1>7, <2>4 DEF f
    <3>2. MaskUnder(n) = Urgent(f.id)
      BY <1>3, <2>4 DEF MaskUnder, f
    <3>3. ASSUME NEW i \in 2..n-1, stack'[i].open
          PROVE  stack'[i].mask = MaskUnder(i)'
      BY <1>2, <1>3, <1>4, <2>1, <3>3 DEF PriorityInv, n
    <3> QED
      BY <1>1, <1>4, <2>2, <3>1, <3>2, <3>3 DEF PriorityInv
  <2> QED
    BY <2>3, <2>4
<1>10. OnlyMoreUrgent'
  <2> SUFFICES ASSUME ~bypassed', NEW i \in 2..n-2
               PROVE  stack'[i+1].id < stack'[i].id
    BY <1>3, <1>4 DEF OnlyMoreUrgent
  <2>1. ~bypassed
    <3>1. Len(Below) > 1
      BY <1>3, <1>5
    <3> QED
      BY <1>1, <3>1, Zenon
  <2>2. i \in 2..n-1 /\ i \in 1..n-1 /\ i + 1 \in 1..n-1
    BY <1>3
  <2> QED
    BY <1>2, <1>4, <2>1, <2>2 DEF OnlyMoreUrgent, n
<1>11. Top' = f
  BY <1>4 DEF f
<1>12. EnabledInv'
  <2>1. Len(stack') = 1 \/ Top'.open
    BY <1>3, <1>4, <1>7, <1>11
  <2> QED
    BY <1>6, <1>11, <2>1 DEF EnabledInv, Interruptible, Critical
<1>13. SearchEnds' /\ TableInv' /\ RegistersOK'
  <2>1. SearchEnds'
    BY <1>6, <1>11 DEF SearchEnds
  <2>2. TableInv'
    BY <1>1, <1>2, <1>6, <1>11 DEF IrqInv, TableInv, Busy, RegistersOK
  <2>3. RegistersOK'
    BY <1>1, <1>2 DEF RegistersOK
  <2> QED
    BY <2>1, <2>2, <2>3
<1>14. ControllerInv'
  <2> SUFFICES ASSUME ~bypassed' \/ alt_priority_mask = All
               PROVE  ienable = alt_irq_active \cap alt_priority_mask
    BY <1>1 DEF ControllerInv
  <2>1. ~bypassed \/ alt_priority_mask = All
    <3>1. CASE n = 2
      BY <1>2, <1>3, <3>1 DEF PriorityInv, MaskUnder, n
    <3>2. CASE n # 2
      <4>1. Len(Below) > 1
        BY <1>3, <1>5, <3>2
      <4> QED
        BY <1>1, <4>1, Zenon
    <3> QED
      BY <3>1, <3>2
  <2> QED
    BY <1>1, <2>1 DEF IrqInv, ControllerInv
<1> QED
  BY <1>4, <1>8, <1>9, <1>10, <1>12, <1>13, <1>14 DEF IrqInv

-----------------------------------------------------------------------------
LEMMA RequestStep ==
  ASSUME IrqInv, Request
  PROVE  IrqInv'
<1>1. /\ requests \subseteq requests' /\ requests' \subseteq Ids
      /\ UNCHANGED <<PIE, ienable, alt_irq_active, alt_priority_mask, alt_irq,
                     stack, bypassed>>
  BY DEF Request, IrqInv, RegistersOK
<1>2. RegistersOK' /\ SearchEnds'
  BY <1>1 DEF IrqInv, RegistersOK, SearchEnds, ipending, Top
<1>3. StackOK' /\ StackInv' /\ EnabledInv' /\ OnlyMoreUrgent'
  BY <1>1 DEF IrqInv, StackOK, StackInv, NothingElseInterrupted, EnabledInv,
              Interruptible, OnlyMoreUrgent, Top
<1>4. PriorityInv' /\ ControllerInv' /\ TableInv'
  BY <1>1 DEF IrqInv, PriorityInv, MaskUnder, ControllerInv, TableInv, Busy, Top
<1> QED
  BY <1>2, <1>3, <1>4 DEF IrqInv

LEMMA IrqInitially ==
  ASSUME IrqInit
  PROVE  IrqInv
<1> DEFINE f == Frame(-1, "program")
<1>1. f \in Frames /\ f.id = -1 /\ f.at = "program" /\ ~f.open
  BY NewFrame, IrqConstants DEF Places
<1> HIDE DEF f
<1>2. stack = <<f>>
  BY DEF IrqInit, f
<1>3. Len(stack) = 1 /\ stack[1] = f /\ Top = f /\ StackOK
  <2>1. MaxDepth >= 1
    BY InterruptsAssumption DEF InterruptsAssumption
  <2> QED
    BY <1>1, <1>2, <2>1, IrqConstants DEF StackOK, Top
<1>4. RegistersOK
  BY DEF IrqInit, RegistersOK, Whole, All
<1>5. StackInv
  BY <1>1, <1>3 DEF StackInv, Fits, NothingElseInterrupted
<1>6. EnabledInv /\ SearchEnds /\ OnlyMoreUrgent
  BY <1>1, <1>3
     DEF EnabledInv, Interruptible, SearchEnds, OnlyMoreUrgent, Critical
<1>7. PriorityInv /\ ControllerInv
  BY <1>1, <1>3 DEF IrqInit, PriorityInv, MaskUnder, ControllerInv
<1>8. TableInv
  BY <1>1, <1>3 DEF IrqInit, TableInv, Busy
<1> QED
  BY <1>3, <1>4, <1>5, <1>6, <1>7, <1>8 DEF IrqInv

\* The invariant of the interrupts: the masks follow the stack, the table is whole
\* but where the running code is about to make it so, and interrupts are enabled
\* only where the code may be interrupted.
THEOREM InterruptsInvariant == IrqSpec => []IrqInv
<1>1. IrqInv /\ [IrqNext]_irqVars => IrqInv'
  <2> SUFFICES ASSUME IrqInv, [IrqNext]_irqVars PROVE IrqInv'
    OBVIOUS
  <2>1. CASE Request
    BY <2>1, RequestStep
  <2>2. CASE Exception
    BY <2>2, ExceptionStep, HandlerStep, NextPassStep, ReturnStep DEF Exception
  <2>3. CASE Handling
    BY <2>3, ServeStep, NonInterruptibleStep, IsrReturnStep DEF Handling
  <2>4. CASE Register
    BY <2>4, WriteHandlerStep, WriteContextStep DEF Register
  <2>5. CASE Change
    BY <2>5, SetStep, WriteIenableStep, EnableAllStep DEF Change
  <2>6. CASE Begins
    BY <2>6, RegisterStep, SetOneStep, InterruptibleStep DEF Begins
  <2>7. CASE UNCHANGED irqVars
    <3>1. /\ UNCHANGED <<requests, PIE, ienable, alt_irq_active>>
          /\ UNCHANGED <<alt_priority_mask, alt_irq, stack, bypassed>>
      BY <2>7 DEF irqVars
    <3>2. RegistersOK' /\ SearchEnds'
      BY <3>1 DEF IrqInv, RegistersOK, SearchEnds, ipending, Top
    <3>3. StackOK' /\ StackInv' /\ EnabledInv' /\ OnlyMoreUrgent'
      BY <3>1 DEF IrqInv, StackOK, StackInv, NothingElseInterrupted, EnabledInv,
                  Interruptible, OnlyMoreUrgent, Top
    <3>4. PriorityInv' /\ ControllerInv' /\ TableInv'
      BY <3>1
         DEF IrqInv, PriorityInv, MaskUnder, ControllerInv, TableInv, Busy, Top
    <3> QED
      BY <3>2, <3>3, <3>4 DEF IrqInv
  <2> QED
    BY <2>1, <2>2, <2>3, <2>4, <2>5, <2>6, <2>7 DEF IrqNext
<1> QED
  BY <1>1, IrqInitially, PTL DEF IrqSpec

\* For any number of interrupts and whatever is registered, masked and let in:
\* the search begun for an interrupt ends, the handler it calls is registered
\* whole, and only those are interrupted that may be, by more urgent ones.
THEOREM NestedAsMeant == IrqSpec => []InterruptsNested
<1>1. IrqInv => InterruptsNested
  <2> SUFFICES ASSUME IrqInv PROVE InterruptsNested
    OBVIOUS
  <2>1. StackOK /\ StackInv /\ RegistersOK
    BY DEF IrqInv
  <2>2. IrqTypeOK
    <3>1. \A i \in DOMAIN stack : stack[i].at \in Places
      <4>1. \A i \in DOMAIN stack : stack[i] \in Frames
        BY <2>1 DEF StackOK
      <4> QED
        BY <4>1 DEF Frames
    <3>2. Len(stack) \in 1..MaxDepth
      BY <2>1 DEF StackOK
    <3> QED
      BY <2>1, <3>1, <3>2 DEF IrqTypeOK, RegistersOK, Whole
  <2>3. HandlerWhole
    <3> SUFFICES ASSUME NEW i \in DOMAIN stack, stack[i].id >= 0
                 PROVE  /\ stack[i].handler # NULL
                        /\ stack[i].context = stack[i].handler
      BY DEF HandlerWhole
    <3>1. i \in 1..Len(stack)
      BY <2>1 DEF StackOK
    <3>2. Fits(stack[i], i)
      BY <2>1, <3>1 DEF StackInv
    <3> QED
      BY <3>2, IrqConstants DEF Fits
  <2>4. SearchEnds /\ NothingElseInterrupted /\ OnlyMoreUrgent /\ MaskInForce
    BY DEF IrqInv, StackInv, ControllerInv, MaskInForce
  <2> QED
    BY <2>2, <2>3, <2>4 DEF InterruptsNested
<1> QED
  BY <1>1, InterruptsInvariant, PTL

-----------------------------------------------------------------------------
(***************************************************************************)
(* The exceptions.  The invariant follows an instruction that was          *)
(* interrupted, from the entry to the way back, with the frame that        *)
(* belongs to it.  An exception within an exception comes only from a      *)
(* division, and is over before anything else can happen.                  *)
(***************************************************************************)

\* The program has come to instruction n: those before are done, once.
DoneBefore(n) == past.done = [i \in 1..Len(Program) |-> IF i < n THEN 1 ELSE 0]

First == past.waiting[1]
Of(pos) == [ea |-> pos, estatus |-> First.PIE, sp |-> 0]

\* The frame of the exception that was first has been written over by that of
\* one within it.
Overwritten(code) ==
  build.ALT_EXCEPTION_STACK /\ code \in build.divides /\ Saved.sp = 1

Codes == {"program", "isr", "handler"}
Positions == [code : Codes, pc : Int]

Processor ==
  [pos : [code : Codes \cup {"irqtest", "unknown", "exit", "lost"}, pc : Int],
   PIE : BOOLEAN, ea : Positions, EXCEPTION : {0, 2, 4, 5, 6}, BADADDR : Int,
   irq : BOOLEAN]
SavedFrame  == [ea : Positions, estatus : BOOLEAN, sp : Int]
Interrupted == [pos : Positions, PIE : BOOLEAN]
Past        == [waiting : Seq(Interrupted), done : [1..Len(Program) -> Int],
                lost : BOOLEAN]

ExceptionTypes ==
  /\ build \in [ALT_EXCEPTION_STACK : BOOLEAN, emulates : BOOLEAN,
                divides : SUBSET {"isr", "handler"}]
  /\ build.divides # {} => build.emulates
  /\ cpu \in Processor /\ frames \in [1..3 -> SavedFrame] /\ depth \in Int
  /\ program \in [handler : BOOLEAN, repaired : SUBSET Int]
  /\ told \in [cause : {0, 2, 4, 5, 6}, exception_pc : Positions, bad_addr : Int]
  /\ past \in Past

\* Nothing is interrupted.
OutsideInv ==
  past.waiting = <<>> =>
    /\ depth = 0 /\ cpu.pos.code = "program"
    /\ cpu.pos.pc \in 1..Len(Program) + 1 /\ DoneBefore(cpu.pos.pc)

\* What the handler is told, or will be.
Reported(cause, bad_addr) ==
  cause \in {2, 4, 5, 6} /\ (cause = 6 => bad_addr = First.pos.pc)

\* An instruction of the program is interrupted.
InsideInv ==
  Len(past.waiting) = 1 =>
    /\ depth = 1 /\ ~cpu.PIE
    /\ First.pos = Pos("program", First.pos.pc) /\ First.pos.pc \in 1..Len(Program)
    /\ cpu.pos.code \in {"irqtest", "unknown", "isr", "handler", "exit"}
    /\ cpu.pos.code # "exit" => DoneBefore(First.pos.pc)
    /\ cpu.pos.code \in {"irqtest", "unknown"} =>
         cpu.ea = NextPos(First.pos) /\ Reported(cpu.EXCEPTION, cpu.BADADDR)
    /\ cpu.pos.code = "irqtest" => Saved = Of(First.pos)
    /\ cpu.pos.code = "unknown" => Saved = Of(NextPos(First.pos))
    /\ cpu.pos.code = "isr" =>
         /\ First.PIE /\ cpu.pos.pc \in 1..3
         /\ Saved = Of(First.pos) \/ Overwritten("isr")
    /\ cpu.pos.code = "handler" =>
         /\ told.exception_pc = First.pos /\ Reported(told.cause, told.bad_addr)
         /\ cpu.pos.pc \in 1..3
         /\ Saved = Of(NextPos(First.pos)) \/ Overwritten("handler")
         /\ \/ cpu.ea = NextPos(First.pos)
            \/ cpu.ea.code = "handler" /\ "handler" \in build.divides
    /\ cpu.pos.code = "exit" =>
         \/ Saved = Of(First.pos) /\ DoneBefore(First.pos.pc)
         \/ Saved = Of(NextPos(First.pos)) /\ DoneBefore(First.pos.pc + 1)
         \/ Endangered /\ ~GoesBack

\* A division within the routine or the handler is being emulated.
Inner == past.waiting[2]
WithinInv ==
  Len(past.waiting) = 2 =>
    /\ depth = 2 /\ ~cpu.PIE
    /\ First.pos = Pos("program", First.pos.pc) /\ First.pos.pc \in 1..Len(Program)
    /\ DoneBefore(First.pos.pc)
    /\ Inner.pos.code \in build.divides
    /\ Inner.pos.pc = 1 /\ ~Inner.PIE
    /\ cpu.pos.code \in {"irqtest", "exit"}
    /\ cpu.pos.code = "irqtest" =>
         cpu.ea = NextPos(Inner.pos) /\ Saved = [ea |-> Inner.pos, estatus |-> FALSE, sp |-> 1]
    /\ cpu.pos.code = "exit" =>
         Saved = [ea |-> NextPos(Inner.pos), estatus |-> FALSE, sp |-> 1]
    /\ Inner.pos.code = "isr" =>
         /\ First.PIE
         /\ ~build.ALT_EXCEPTION_STACK => frames[1] = Of(First.pos)
    /\ Inner.pos.code = "handler" =>
         /\ told.exception_pc = First.pos /\ Reported(told.cause, told.bad_addr)
         /\ ~build.ALT_EXCEPTION_STACK => frames[1] = Of(NextPos(First.pos))

ExceptionsInv ==
  /\ ExceptionTypes
  /\ IF past.lost THEN Endangered /\ cpu.pos.code = "lost"
     ELSE /\ Len(past.waiting) <= 2
          /\ OutsideInv /\ InsideInv /\ WithinInv

-----------------------------------------------------------------------------
(* Positions, causes and what is done. *)

LEMMA AtPositions ==
  ASSUME NEW pos \in Positions
  PROVE  /\ NextPos(pos) \in Positions
         /\ NextPos(pos).code = pos.code /\ NextPos(pos).pc = pos.pc + 1
         /\ PreviousPos(NextPos(pos)) = pos
         /\ PreviousPos(pos) \in Positions
         /\ PreviousPos(pos).code = pos.code
         /\ pos = Pos(pos.code, pos.pc)
         /\ NextPos(pos) # pos
<1>1. /\ NextPos(pos) = [code |-> pos.code, pc |-> pos.pc + 1]
      /\ PreviousPos(pos) = [code |-> pos.code, pc |-> pos.pc - 1]
      /\ pos = [code |-> pos.code, pc |-> pos.pc]
  BY DEF NextPos, PreviousPos, Positions
<1>2. PreviousPos(NextPos(pos)) = [code |-> pos.code, pc |-> pos.pc + 1 - 1]
  BY <1>1 DEF PreviousPos, Positions
<1>3. pos.pc + 1 - 1 = pos.pc /\ pos.pc + 1 # pos.pc
  BY DEF Positions
<1>4. PreviousPos(NextPos(pos)) = pos
  BY <1>1, <1>2, <1>3
<1>5. NextPos(pos) # pos
  BY <1>1, <1>3
<1> QED
  BY <1>1, <1>4, <1>5 DEF Pos, Positions

LEMMA Causes ==
  /\ Cause["divide"] = 4 /\ Cause["illegal"] = 5 /\ Cause["misaligned"] = 6
  /\ Cause.misaligned = 6
  BY DEF Cause

LEMMA Lengths ==
  /\ Len(Program) \in Nat /\ Len(Program) >= 1
  /\ \A i \in 1..Len(Program) :
       Program[i] \in {"plain", "divide", "illegal", "misaligned"}
  BY ExceptionsAssumption

\* What may go wrong with an instruction; the routine and the handler may only
\* divide, and begin with that.
LEMMA Kinds ==
  ASSUME ExceptionTypes, NEW pos \in Positions,
         pos.pc \in 1..Length(pos.code)
  PROVE  /\ Kind(pos) \in {"plain", "divide", "illegal", "misaligned"}
         /\ pos.code # "program" /\ Kind(pos) # "plain" =>
              pos.pc = 1 /\ pos.code \in build.divides /\ Kind(pos) = "divide"
<1>1. CASE pos.code = "program"
  <2>1. Program[pos.pc] \in {"plain", "divide", "illegal", "misaligned"}
    BY <1>1, Lengths DEF Length
  <2> QED
    BY <1>1, <2>1 DEF Kind
<1>2. CASE pos.code # "program"
  BY <1>2 DEF Kind, Codes, Positions
<1> QED
  BY <1>1, <1>2

\* Once the instruction that the program has come to is done, it has come to the
\* next one.
LEMMA OneMore ==
  ASSUME NEW n \in 1..Len(Program), DoneBefore(n)
  PROVE  [past.done EXCEPT ![n] = @ + 1] =
           [i \in 1..Len(Program) |-> IF i < n + 1 THEN 1 ELSE 0]
<1> DEFINE done == past.done
<1>1. done = [i \in 1..Len(Program) |-> IF i < n THEN 1 ELSE 0]
  BY DEF DoneBefore
<1>2. done[n] + 1 = 1
  BY <1>1
<1> HIDE DEF done
<1>3. [done EXCEPT ![n] = done[n] + 1] =
        [i \in 1..Len(Program) |-> IF i = n THEN 1 ELSE done[i]]
  BY <1>1, <1>2
<1>4. \A i \in 1..Len(Program) :
        (IF i = n THEN 1 ELSE done[i]) = (IF i < n + 1 THEN 1 ELSE 0)
  BY <1>1
<1> QED
  BY <1>3, <1>4 DEF done

LEMMA Small ==
  ASSUME NEW n \in Nat
  PROVE  /\ n <= 2 => n \in 0..2
         /\ n \in 0..2 => n = 0 \/ n = 1 \/ n = 2
         /\ n >= 1 => (IF 1 <= n - 1 THEN n - 1 - 1 + 1 ELSE 0) = n - 1
  OBVIOUS

\* An exception is put upon those that wait, and taken off.
LEMMA Waits ==
  ASSUME NEW S, NEW s \in Seq(S), NEW x \in S
  PROVE  /\ Append(s, x) \in Seq(S) /\ Len(Append(s, x)) = Len(s) + 1
         /\ \A i \in 1..Len(s) : Append(s, x)[i] = s[i]
         /\ Append(s, x)[Len(s) + 1] = x
         /\ Len(s) = 1 => SubSeq(s, 1, Len(s) - 1) = <<>>
         /\ Len(s) >= 1 => /\ SubSeq(s, 1, Len(s) - 1) \in Seq(S)
                           /\ Len(SubSeq(s, 1, Len(s) - 1)) = Len(s) - 1
         /\ Len(s) = 2 => SubSeq(s, 1, Len(s) - 1)[1] = s[1]
         /\ Len(s) \in Nat
<1>1. /\ Append(s, x) \in Seq(S) /\ Len(Append(s, x)) = Len(s) + 1
      /\ \A i \in 1..Len(s) : Append(s, x)[i] = s[i]
      /\ Append(s, x)[Len(s) + 1] = x /\ Len(s) \in Nat
  OBVIOUS
<1>2. Len(s) = 1 => SubSeq(s, 1, Len(s) - 1) = <<>>
  BY SubSeqEmpty
<1>3. \A i \in 1..Len(s) - 1 : s[i] \in S
  OBVIOUS
<1>4. /\ SubSeq(s, 1, Len(s) - 1) \in Seq(S)
      /\ Len(SubSeq(s, 1, Len(s) - 1)) =
           IF 1 <= Len(s) - 1 THEN Len(s) - 1 - 1 + 1 ELSE 0
      /\ \A i \in 1..Len(s) - 1 - 1 + 1 : SubSeq(s, 1, Len(s) - 1)[i] = s[1 + i - 1]
  BY <1>1, <1>3, SubSeqProperties
<1>5. Len(s) >= 1 => Len(SubSeq(s, 1, Len(s) - 1)) = Len(s) - 1
  BY <1>1, <1>4, Small
<1>6. Len(s) = 2 => SubSeq(s, 1, Len(s) - 1)[1] = s[1]
  BY <1>1, <1>4
<1> QED
  BY <1>1, <1>2, <1>4, <1>5, <1>6

-----------------------------------------------------------------------------
(* What the invariant says of the place the processor is at. *)

LEMMA WhereItIs ==
  ASSUME ExceptionsInv
  PROVE  /\ past.lost <=> cpu.pos.code = "lost"
         /\ ~past.lost => Len(past.waiting) \in 0..2
         /\ Len(past.waiting) = 0 <=> past.waiting = <<>>
         /\ ~past.lost => (Len(past.waiting) = 0 <=> cpu.pos.code = "program")
         /\ cpu.pos.code \in {"unknown", "isr", "handler"} => Len(past.waiting) = 1
         /\ cpu.pos.code \in {"irqtest", "exit"} =>
              Len(past.waiting) = 1 \/ Len(past.waiting) = 2
         /\ ~past.lost => depth = Len(past.waiting)
         /\ Len(past.waiting) = 1 => Victim = First
         /\ Len(past.waiting) = 2 => Victim = Inner
<1>1. past.waiting \in Seq(Interrupted)
  BY DEF ExceptionsInv, ExceptionTypes, Past
<1>2. Len(past.waiting) = 0 <=> past.waiting = <<>>
  BY <1>1
<1>3. ~past.lost => Len(past.waiting) \in 0..2
  <2>1. Len(past.waiting) \in Nat
    BY <1>1
  <2>2. ~past.lost => Len(past.waiting) <= 2
    BY DEF ExceptionsInv
  <2> QED
    BY <2>1, <2>2, Small
<1>4. Len(past.waiting) \in 0..2 =>
        Len(past.waiting) = 0 \/ Len(past.waiting) = 1 \/ Len(past.waiting) = 2
  OBVIOUS
<1>5. past.lost => cpu.pos.code = "lost"
  BY DEF ExceptionsInv
<1>6. ~past.lost => OutsideInv /\ InsideInv /\ WithinInv
  BY DEF ExceptionsInv
<1>7. CASE past.lost
  BY <1>2, <1>5, <1>7 DEF Victim, First, Inner
<1>8. CASE ~past.lost /\ Len(past.waiting) = 0
  BY <1>2, <1>6, <1>8 DEF OutsideInv
<1>9. CASE ~past.lost /\ Len(past.waiting) = 1
  BY <1>2, <1>6, <1>9 DEF InsideInv, Victim, First
<1>10. CASE ~past.lost /\ Len(past.waiting) = 2
  BY <1>2, <1>6, <1>10 DEF WithinInv, Victim, Inner
<1> QED
  BY <1>3, <1>4, <1>7, <1>8, <1>9, <1>10

\* The registers, one by one.
LEMMA Registers ==
  ASSUME ExceptionTypes
  PROVE  /\ cpu = [pos |-> cpu.pos, PIE |-> cpu.PIE, ea |-> cpu.ea,
                   EXCEPTION |-> cpu.EXCEPTION, BADADDR |-> cpu.BADADDR,
                   irq |-> cpu.irq]
         /\ cpu.pos.code \in Codes \cup {"irqtest", "unknown", "exit", "lost"}
         /\ cpu.pos.pc \in Int /\ cpu.pos = Pos(cpu.pos.code, cpu.pos.pc)
         /\ cpu.pos.code \in Codes => cpu.pos \in Positions
         /\ cpu.PIE \in BOOLEAN /\ cpu.ea \in Positions
         /\ cpu.EXCEPTION \in {0, 2, 4, 5, 6} /\ cpu.BADADDR \in Int
         /\ cpu.irq \in BOOLEAN
         /\ past = [waiting |-> past.waiting, done |-> past.done, lost |-> past.lost]
         /\ past.waiting \in Seq(Interrupted) /\ past.lost \in BOOLEAN
         /\ past.done \in [1..Len(Program) -> Int]
<1>1. /\ cpu \in Processor /\ past \in Past
      /\ cpu.pos \in [code : Codes \cup {"irqtest", "unknown", "exit", "lost"}, pc : Int]
  BY DEF ExceptionTypes, Processor
<1> QED
  BY <1>1 DEF Processor, Past, Pos, Positions

LEMMA Slots ==
  ASSUME ExceptionTypes
  PROVE  /\ Slot(1) = 1 /\ Slot(2) = (IF build.ALT_EXCEPTION_STACK THEN 1 ELSE 2)
         /\ build.ALT_EXCEPTION_STACK \in BOOLEAN
  BY DEF Slot, ExceptionTypes

-----------------------------------------------------------------------------
(* Into the exception. *)

LEMMA EntryStep ==
  ASSUME ExceptionsInv, alt_exception_entry
  PROVE  ExceptionsInv'
<1>0. /\ ExceptionTypes /\ ~past.lost /\ cpu.pos.code \in Codes
      /\ cpu.pos \in Positions
      /\ OutsideInv /\ InsideInv /\ WithinInv
  BY WhereItIs, Registers DEF ExceptionsInv, alt_exception_entry, Running, InCode, Codes
<1>1. Len(past.waiting) = 0 \/ Len(past.waiting) = 1
  BY <1>0, WhereItIs DEF Codes
<1>2. cpu.pos.pc \in 1..Length(cpu.pos.code)
  <2>1. cpu.pos.pc <= Length(cpu.pos.code)
    BY DEF alt_exception_entry, Running
  <2>2. cpu.pos.pc \in Int /\ cpu.pos.pc >= 1
    <3>1. CASE Len(past.waiting) = 0
      BY <1>0, <3>1, WhereItIs, Lengths DEF OutsideInv
    <3>2. CASE Len(past.waiting) = 1
      BY <1>0, <3>2, WhereItIs DEF InsideInv, Codes
    <3> QED
      BY <1>1, <3>1, <3>2
  <2>3. Length(cpu.pos.code) \in Int
    BY Lengths DEF Length
  <2> QED
    BY <2>1, <2>2, <2>3
<1>3. PICK cause \in {2, 4, 5, 6} :
        /\ cpu' = [cpu EXCEPT !.pos = Pos("irqtest", 0), !.PIE = FALSE,
                              !.ea = NextPos(cpu.pos), !.EXCEPTION = cause,
                              !.BADADDR = IF cause = 6 THEN cpu.pos.pc ELSE @]
        /\ cause = 2 => cpu.PIE
        /\ cause # 2 => Kind(cpu.pos) # "plain"
  <2>1. Kind(cpu.pos) \in {"plain", "divide", "illegal", "misaligned"}
    BY <1>0, <1>2, Kinds
  <2>2. PICK cause \in (IF cpu.PIE /\ cpu.irq THEN {NIOS2_EXCEPTION_INTERRUPT} ELSE {})
                  \cup (IF Kind(cpu.pos) = "plain" THEN {} ELSE {Cause[Kind(cpu.pos)]}) :
         cpu' = [cpu EXCEPT !.pos = Pos("irqtest", 0), !.PIE = FALSE,
                            !.ea = NextPos(cpu.pos), !.EXCEPTION = cause,
                            !.BADADDR = IF cause = Cause.misaligned
                                        THEN cpu.pos.pc ELSE @]
    BY DEF alt_exception_entry
  <2>3. /\ cause \in {2, 4, 5, 6} /\ Cause.misaligned = 6
        /\ cause = 2 => cpu.PIE
        /\ cause # 2 => Kind(cpu.pos) # "plain"
    BY <2>1, <2>2, Causes DEF NIOS2_EXCEPTION_INTERRUPT
  <2> QED
    BY <2>2, <2>3
<1>4. /\ depth' = depth + 1
      /\ frames' = [frames EXCEPT ![Slot(depth + 1)] =
                      [ea |-> cpu.pos, estatus |-> cpu.PIE, sp |-> depth]]
      /\ past' = [past EXCEPT !.waiting =
                    Append(@, [pos |-> cpu.pos, PIE |-> cpu.PIE])]
      /\ UNCHANGED <<build, program, told>>
  BY DEF alt_exception_entry
<1>5. depth = Len(past.waiting) /\ Slot(depth + 1) \in 1..2
  <2>1. Slot(1) \in 1..2 /\ Slot(2) \in 1..2
    BY <1>0, Slots
  <2>2. depth = Len(past.waiting)
    BY <1>0, WhereItIs
  <2>3. depth = 0 \/ depth = 1
    BY <1>1, <2>2, Zenon
  <2>4. depth + 1 = 1 \/ depth + 1 = 2
    BY <2>3
  <2> QED
    BY <2>1, <2>2, <2>4
<1>6. NextPos(cpu.pos) \in Positions
  BY <1>0, AtPositions
<1>7. /\ past' = [waiting |-> Append(past.waiting, [pos |-> cpu.pos, PIE |-> cpu.PIE]),
                  done |-> past.done, lost |-> FALSE]
      /\ past'.waiting = Append(past.waiting, [pos |-> cpu.pos, PIE |-> cpu.PIE])
      /\ past'.done = past.done /\ past'.lost = FALSE
  <2>1. past' = [past EXCEPT !.waiting =
                    Append(past.waiting, [pos |-> cpu.pos, PIE |-> cpu.PIE])]
    BY <1>4
  <2> QED
    BY <1>0, <2>1, Registers
<1>8. /\ Len(past'.waiting) = Len(past.waiting) + 1
      /\ past'.waiting[Len(past.waiting) + 1] = [pos |-> cpu.pos, PIE |-> cpu.PIE]
      /\ Len(past.waiting) = 1 => past'.waiting[1] = past.waiting[1]
      /\ past'.waiting \in Seq(Interrupted)
  <2>1. [pos |-> cpu.pos, PIE |-> cpu.PIE] \in Interrupted
    BY <1>0, Registers DEF Interrupted
  <2> QED
    BY <1>0, <1>7, <2>1, Waits, Registers
<1>9. /\ cpu' = [pos |-> Pos("irqtest", 0), PIE |-> FALSE, ea |-> NextPos(cpu.pos),
                 EXCEPTION |-> cause,
                 BADADDR |-> IF cause = 6 THEN cpu.pos.pc ELSE cpu.BADADDR,
                 irq |-> cpu.irq]
      /\ cpu'.pos.code = "irqtest" /\ ~cpu'.PIE /\ cpu'.ea = NextPos(cpu.pos)
      /\ cpu'.EXCEPTION = cause /\ (cause = 6 => cpu'.BADADDR = cpu.pos.pc)
  BY <1>0, <1>3, Registers DEF Pos
<1>10. ExceptionTypes'
  <2>1. cpu' \in Processor
    BY <1>0, <1>6, <1>9, Registers DEF Processor, Pos
  <2>2. frames' \in [1..3 -> SavedFrame]
    <3>1. [ea |-> cpu.pos, estatus |-> cpu.PIE, sp |-> depth] \in SavedFrame
      BY <1>0, Registers DEF SavedFrame, ExceptionTypes
    <3> QED
      BY <1>0, <1>4, <1>5, <3>1 DEF ExceptionTypes
  <2>3. past' \in Past
    BY <1>0, <1>7, <1>8, Registers DEF Past
  <2>4. depth' \in Int
    BY <1>0, <1>4 DEF ExceptionTypes
  <2> QED
    BY <1>0, <1>4, <2>1, <2>2, <2>3, <2>4 DEF ExceptionTypes
<1>11. CASE Len(past.waiting) = 0
  <2>1. /\ First' = [pos |-> cpu.pos, PIE |-> cpu.PIE] /\ depth' = 1
        /\ First'.pos = cpu.pos /\ Len(past'.waiting) = 1
    BY <1>4, <1>5, <1>8, <1>11 DEF First
  <2>2. Saved' = [ea |-> cpu.pos, estatus |-> cpu.PIE, sp |-> 0]
    BY <1>0, <1>4, <1>5, <1>11, <2>1, Slots DEF Saved, Slot, ExceptionTypes
  <2>3. /\ cpu.pos.code = "program" /\ cpu.pos.pc \in 1..Len(Program)
        /\ DoneBefore(cpu.pos.pc) /\ cpu.pos = Pos("program", cpu.pos.pc)
    BY <1>0, <1>2, <1>11, WhereItIs, Registers DEF OutsideInv, Length
  <2>4. DoneBefore(First.pos.pc)'
    BY <1>7, <2>1, <2>3 DEF DoneBefore
  <2>5. InsideInv'
    BY <1>9, <2>1, <2>2, <2>3, <2>4 DEF InsideInv, Reported, Of
  <2>6. past'.waiting # <<>> /\ Len(past'.waiting) # 2 /\ Len(past'.waiting) <= 2
    BY <2>1
  <2> QED
    BY <1>7, <1>10, <2>5, <2>6 DEF ExceptionsInv, OutsideInv, WithinInv
<1>12. CASE Len(past.waiting) = 1
  <2>1. /\ cpu.pos.code \in {"isr", "handler"} /\ ~cpu.PIE
        /\ First.pos = Pos("program", First.pos.pc) /\ First.pos.pc \in 1..Len(Program)
        /\ DoneBefore(First.pos.pc)
    BY <1>0, <1>12, WhereItIs DEF InsideInv, Codes
  <2>2. cpu.pos.pc = 1 /\ cpu.pos.code \in build.divides
    BY <1>0, <1>2, <1>3, <2>1, Kinds
  <2>3. /\ First' = First /\ Inner' = [pos |-> cpu.pos, PIE |-> cpu.PIE]
        /\ Inner'.pos = cpu.pos /\ ~Inner'.PIE
        /\ depth' = 2 /\ Len(past'.waiting) = 2
    BY <1>4, <1>5, <1>8, <1>12, <2>1 DEF First, Inner
  <2>4. Saved' = [ea |-> cpu.pos, estatus |-> FALSE, sp |-> 1]
    <3>1. cpu.PIE = FALSE
      BY <1>0, <2>1, Registers
    <3>2. Saved' = [ea |-> cpu.pos, estatus |-> cpu.PIE, sp |-> 1]
      BY <1>0, <1>4, <1>5, <1>12, <2>3, Slots DEF Saved, Slot, ExceptionTypes
    <3> QED
      BY <3>1, <3>2
  <2>5. DoneBefore(First.pos.pc)'
    BY <1>7, <2>1, <2>3 DEF DoneBefore
  <2>6. ~build.ALT_EXCEPTION_STACK => frames'[1] = frames[1] /\ Saved = frames[1]
    BY <1>0, <1>4, <1>5, <1>12, Slots DEF Saved, ExceptionTypes
  <2>7. ~build'.ALT_EXCEPTION_STACK =>
          /\ cpu.pos.code = "isr" => frames'[1] = Of(First.pos)'
          /\ cpu.pos.code = "handler" => frames'[1] = Of(NextPos(First.pos))'
    BY <1>0, <1>4, <1>12, <2>3, <2>6 DEF InsideInv, Overwritten, Of
  <2>8. /\ cpu.pos.code = "isr" => First.PIE
        /\ cpu.pos.code = "handler" =>
             told.exception_pc = First.pos /\ Reported(told.cause, told.bad_addr)'
    BY <1>0, <1>4, <1>12, <2>3 DEF InsideInv, Reported
  <2>9. WithinInv'
    BY <1>4, <1>9, <2>1, <2>2, <2>3, <2>4, <2>5, <2>7, <2>8 DEF WithinInv
  <2>10. past'.waiting # <<>> /\ Len(past'.waiting) # 1 /\ Len(past'.waiting) <= 2
    BY <2>3
  <2> QED
    BY <1>7, <1>10, <2>9, <2>10 DEF ExceptionsInv, OutsideInv, InsideInv
<1> QED
  BY <1>1, <1>11, <1>12

-----------------------------------------------------------------------------
\* What is to be shown of a step, given how many exceptions there are then.
LEMMA Enough ==
  /\ ExceptionTypes' /\ ~past'.lost /\ past'.waiting = <<>> /\ OutsideInv'
       => ExceptionsInv'
  /\ ExceptionTypes' /\ ~past'.lost /\ Len(past'.waiting) = 1 /\ InsideInv'
       => ExceptionsInv'
  /\ ExceptionTypes' /\ ~past'.lost /\ Len(past'.waiting) = 2 /\ WithinInv'
       => ExceptionsInv'
<1>1. ASSUME past'.waiting = <<>>
      PROVE  Len(past'.waiting) # 1 /\ Len(past'.waiting) # 2 /\ Len(past'.waiting) <= 2
  BY <1>1
<1>2. ASSUME Len(past'.waiting) = 1 \/ Len(past'.waiting) = 2
      PROVE  past'.waiting # <<>> /\ Len(past'.waiting) <= 2
  <2>1. past'.waiting # <<>>
    <3>1. Len(past'.waiting) # 0
      BY <1>2
    <3>2. Len(<<>>) = 0
      OBVIOUS
    <3> QED
      BY <3>1, <3>2
  <2>2. \A n : n = 1 \/ n = 2 => n <= 2
    OBVIOUS
  <2> QED
    BY <1>2, <2>1, <2>2
<1>3. past'.waiting # <<>> => OutsideInv'
  BY DEF OutsideInv
<1>4. Len(past'.waiting) # 1 => InsideInv'
  BY DEF InsideInv
<1>5. Len(past'.waiting) # 2 => WithinInv'
  BY DEF WithinInv
<1>6. ExceptionTypes' /\ ~past'.lost /\ Len(past'.waiting) <= 2
        /\ OutsideInv' /\ InsideInv' /\ WithinInv' => ExceptionsInv'
  BY DEF ExceptionsInv
<1>7. Len(past'.waiting) = 1 => Len(past'.waiting) # 2
  OBVIOUS
<1> QED
  BY <1>1, <1>2, <1>3, <1>4, <1>5, <1>6, <1>7

\* A step in which the processor only goes on elsewhere keeps the types.
LEMMA GoesOn ==
  ASSUME ExceptionTypes, NEW pos,
         pos \in [code : Codes \cup {"irqtest", "unknown", "exit", "lost"}, pc : Int],
         NEW irq \in BOOLEAN,
         cpu' = [cpu EXCEPT !.pos = pos, !.irq = irq],
         UNCHANGED <<build, frames, depth, program, told, past>>
  PROVE  /\ ExceptionTypes' /\ cpu'.pos = pos /\ cpu'.PIE = cpu.PIE /\ cpu'.ea = cpu.ea
         /\ cpu'.EXCEPTION = cpu.EXCEPTION /\ cpu'.BADADDR = cpu.BADADDR
         /\ First' = First /\ Inner' = Inner /\ Saved' = Saved /\ Victim' = Victim
         /\ past' = past /\ depth' = depth /\ build' = build /\ told' = told
         /\ frames' = frames
<1>1. cpu' = [pos |-> pos, PIE |-> cpu.PIE, ea |-> cpu.ea,
              EXCEPTION |-> cpu.EXCEPTION, BADADDR |-> cpu.BADADDR, irq |-> irq]
  BY Registers
<1>2. cpu' \in Processor
  BY <1>1, Registers DEF Processor
<1>3. ExceptionTypes'
  BY <1>2 DEF ExceptionTypes
<1> QED
  BY <1>1, <1>3 DEF First, Inner, Saved, Slot, Victim

LEMMA InterruptStep ==
  ASSUME ExceptionsInv, TakeInterrupt
  PROVE  ExceptionsInv'
<1>0. ExceptionTypes /\ ~past.lost /\ InsideInv /\ WithinInv
  BY WhereItIs DEF ExceptionsInv, TakeInterrupt
<1>1. cpu.pos.code = "irqtest" /\ Saved.estatus
  BY DEF TakeInterrupt, irqtest
<1>2. Len(past.waiting) = 1
  <2>1. CASE Len(past.waiting) = 2
    BY <1>0, <1>1, <2>1 DEF WithinInv
  <2> QED
    BY <1>1, <2>1, WhereItIs
<1>3. /\ Saved = Of(First.pos) /\ First.PIE
  BY <1>0, <1>1, <1>2 DEF InsideInv, Of
<1>4. /\ cpu' = [cpu EXCEPT !.pos = Pos("isr", 1), !.irq = cpu.irq]
      /\ UNCHANGED <<build, frames, depth, program, told, past>>
  BY <1>0, Registers DEF TakeInterrupt
<1>5. /\ Pos("isr", 1) \in [code : Codes \cup {"irqtest", "unknown", "exit", "lost"}, pc : Int]
      /\ Pos("isr", 1).code = "isr" /\ Pos("isr", 1).pc = 1
  BY DEF Pos, Codes
<1>6. /\ ExceptionTypes' /\ cpu'.pos = Pos("isr", 1) /\ cpu'.PIE = cpu.PIE
      /\ First' = First /\ Saved' = Saved
      /\ past' = past /\ depth' = depth
  BY <1>0, <1>4, <1>5, GoesOn, Registers
<1>7. DoneBefore(First.pos.pc)'
  BY <1>0, <1>1, <1>2, <1>6 DEF InsideInv, DoneBefore
<1>8. Saved' = Of(First.pos)'
  BY <1>3, <1>6 DEF Of
<1>9. InsideInv'
  BY <1>0, <1>1, <1>2, <1>3, <1>5, <1>6, <1>7, <1>8 DEF InsideInv
<1> QED
  BY <1>0, <1>2, <1>6, <1>9, Enough

\* The processor goes on elsewhere.
LEMMA GoesTo ==
  ASSUME ExceptionTypes,
         NEW code \in Codes \cup {"irqtest", "unknown", "exit", "lost"}, NEW pc \in Int,
         cpu' = [cpu EXCEPT !.pos = Pos(code, pc)]
  PROVE  /\ cpu' \in Processor /\ cpu'.pos = Pos(code, pc)
         /\ cpu'.pos.code = code /\ cpu'.pos.pc = pc
         /\ cpu'.PIE = cpu.PIE /\ cpu'.ea = cpu.ea /\ cpu'.irq = cpu.irq
         /\ cpu'.EXCEPTION = cpu.EXCEPTION /\ cpu'.BADADDR = cpu.BADADDR
<1>1. cpu' = [pos |-> Pos(code, pc), PIE |-> cpu.PIE, ea |-> cpu.ea,
              EXCEPTION |-> cpu.EXCEPTION, BADADDR |-> cpu.BADADDR, irq |-> cpu.irq]
  BY Registers
<1>2. /\ Pos(code, pc) \in
           [code : Codes \cup {"irqtest", "unknown", "exit", "lost"}, pc : Int]
      /\ Pos(code, pc).code = code /\ Pos(code, pc).pc = pc
  BY DEF Pos
<1> QED
  BY <1>1, <1>2, Registers DEF Processor

\* The instruction that was interrupted has been done.
LEMMA DoneOnce ==
  ASSUME ExceptionTypes, ~past.lost,
         First.pos.pc \in 1..Len(Program), DoneBefore(First.pos.pc),
         past' = [past EXCEPT !.done[First.pos.pc] = @ + 1]
  PROVE  /\ past' \in Past /\ past'.waiting = past.waiting /\ ~past'.lost
         /\ First' = First /\ DoneBefore(First.pos.pc + 1)'
<1>1. past' = [waiting |-> past.waiting,
               done |-> [past.done EXCEPT ![First.pos.pc] = @ + 1], lost |-> FALSE]
  BY Registers
<1>2. /\ past'.waiting = past.waiting /\ ~past'.lost
      /\ past'.done = [i \in 1..Len(Program) |-> IF i < First.pos.pc + 1 THEN 1 ELSE 0]
  BY <1>1, OneMore
<1>3. First' = First
  BY <1>2 DEF First
<1>4. DoneBefore(First.pos.pc + 1)'
  BY <1>2, <1>3 DEF DoneBefore
<1>5. past'.done \in [1..Len(Program) -> Int]
  <2>1. \A n : [i \in 1..Len(Program) |-> IF i < n THEN 1 ELSE 0]
                \in [1..Len(Program) -> Int]
    OBVIOUS
  <2> QED
    BY <1>2, <2>1
<1>6. past' = [waiting |-> past.waiting, done |-> past'.done, lost |-> FALSE]
  BY <1>1
<1>7. past' \in Past
  BY <1>5, <1>6, Registers DEF Past
<1> QED
  BY <1>2, <1>3, <1>4, <1>7

\* The frame in use gets another address to return to.
LEMMA LeavesFor ==
  ASSUME ExceptionTypes, depth = 1 \/ depth = 2, NEW pos \in Positions,
         frames' = [frames EXCEPT ![Slot(depth)] = Leaves(pos)],
         UNCHANGED <<build, depth>>
  PROVE  /\ Saved' = [ea |-> pos, estatus |-> Saved.estatus, sp |-> Saved.sp]
         /\ frames' \in [1..3 -> SavedFrame]
         /\ ~build.ALT_EXCEPTION_STACK /\ depth = 2 => frames'[1] = frames[1]
<1>1. Slot(depth) \in 1..3
  <2>1. Slot(1) \in 1..3 /\ Slot(2) \in 1..3
    BY Slots
  <2> QED
    BY <2>1
<1>2. /\ Saved \in SavedFrame
      /\ Saved = [ea |-> Saved.ea, estatus |-> Saved.estatus, sp |-> Saved.sp]
  BY <1>1 DEF ExceptionTypes, Saved, SavedFrame
<1> DEFINE frame == [ea |-> pos, estatus |-> Saved.estatus, sp |-> Saved.sp]
<1>3. Leaves(pos) = frame /\ frame \in SavedFrame
  BY <1>2 DEF Leaves, SavedFrame
<1>4. frames' = [frames EXCEPT ![Slot(depth)] = frame] /\ frames \in [1..3 -> SavedFrame]
  BY <1>3 DEF ExceptionTypes
<1>5. Slot(depth)' = Slot(depth)
  BY DEF Slot
<1>6. ~build.ALT_EXCEPTION_STACK /\ depth = 2 => Slot(depth) = 2
  BY Slots
<1> HIDE DEF frame
<1>7. frames'[Slot(depth)] = frame /\ frames' \in [1..3 -> SavedFrame]
  BY <1>1, <1>3, <1>4
<1>8. ~build.ALT_EXCEPTION_STACK /\ depth = 2 => frames'[1] = frames[1]
  BY <1>4, <1>6
<1> QED
  BY <1>5, <1>7, <1>8 DEF Saved, frame

\* Anything but an interrupt goes on after the instruction: to the emulation, or
\* to whoever handles it.
LEMMA NotIrqStep ==
  ASSUME ExceptionsInv, NotIrq
  PROVE  ExceptionsInv'
<1>0. ExceptionTypes /\ ~past.lost /\ InsideInv /\ WithinInv
  BY WhereItIs DEF ExceptionsInv, NotIrq
<1>1. /\ cpu.pos.code = "irqtest" /\ depth = Len(past.waiting)
      /\ Len(past.waiting) = 1 \/ Len(past.waiting) = 2
  BY <1>0, WhereItIs DEF NotIrq
<1> DEFINE pos == PreviousPos(cpu.ea)
           to  == IF build.emulates /\ Kind(pos) = "divide" THEN "exit" ELSE "unknown"
<1>2. /\ frames' = [frames EXCEPT ![Slot(depth)] = Leaves(cpu.ea)]
      /\ cpu' = [cpu EXCEPT !.pos = Pos(to, 0)]
      /\ past' = IF to = "exit" THEN Finish(pos) ELSE past
      /\ UNCHANGED <<build, depth, program, told>>
  BY DEF NotIrq
<1>3. depth = 1 \/ depth = 2
  BY <1>1, Zenon
<1>4. cpu.ea \in Positions /\ pos \in Positions
  BY <1>0, Registers, AtPositions
<1>5. /\ Saved' = [ea |-> cpu.ea, estatus |-> Saved.estatus, sp |-> Saved.sp]
      /\ frames' \in [1..3 -> SavedFrame]
      /\ ~build.ALT_EXCEPTION_STACK /\ depth = 2 => frames'[1] = frames[1]
  BY <1>0, <1>2, <1>3, <1>4, LeavesFor
<1>6. /\ cpu' \in Processor /\ cpu'.pos.code = to /\ cpu'.PIE = cpu.PIE
      /\ cpu'.ea = cpu.ea /\ cpu'.EXCEPTION = cpu.EXCEPTION /\ cpu'.BADADDR = cpu.BADADDR
  BY <1>0, <1>2, GoesTo
<1> HIDE DEF to, pos
<1>7. CASE Len(past.waiting) = 1
  <2>1. /\ cpu.ea = NextPos(First.pos) /\ Reported(cpu.EXCEPTION, cpu.BADADDR)
        /\ Saved = Of(First.pos) /\ DoneBefore(First.pos.pc)
        /\ First.pos = Pos("program", First.pos.pc) /\ First.pos.pc \in 1..Len(Program)
        /\ ~cpu.PIE /\ depth = 1
    BY <1>0, <1>1, <1>7 DEF InsideInv
  <2>2. pos = First.pos /\ First.pos.code = "program"
    BY <2>1, AtPositions DEF pos, Pos, Positions, Codes
  <2>3. Saved' = [ea |-> NextPos(First.pos), estatus |-> First.PIE, sp |-> 0]
    BY <1>5, <2>1 DEF Of
  <2>4. CASE to = "exit"
    <3>1. past' = [past EXCEPT !.done[First.pos.pc] = @ + 1]
      BY <1>2, <2>2, <2>4 DEF Finish
    <3>2. /\ past' \in Past /\ past'.waiting = past.waiting /\ ~past'.lost
          /\ First' = First /\ DoneBefore(First.pos.pc + 1)'
      BY <1>0, <2>1, <3>1, DoneOnce
    <3>6. Saved' = Of(NextPos(First.pos))'
      BY <2>3, <3>2 DEF Of
    <3>7. InsideInv'
      BY <1>2, <1>6, <2>1, <2>4, <3>2, <3>6 DEF InsideInv
    <3>8. ExceptionTypes'
      BY <1>0, <1>2, <1>5, <1>6, <3>2 DEF ExceptionTypes
    <3> QED
      BY <1>7, <3>2, <3>7, <3>8, Enough
  <2>5. CASE to # "exit"
    <3>1. past' = past /\ First' = First /\ to = "unknown"
      BY <1>2, <2>5 DEF First, to
    <3>2. DoneBefore(First.pos.pc)'
      BY <2>1, <3>1 DEF DoneBefore
    <3>3. Saved' = Of(NextPos(First.pos))'
      BY <2>3, <3>1 DEF Of
    <3>4. Reported(cpu.EXCEPTION, cpu.BADADDR)'
      BY <1>6, <2>1, <3>1 DEF Reported
    <3>5. InsideInv'
      BY <1>2, <1>6, <2>1, <3>1, <3>2, <3>3, <3>4 DEF InsideInv
    <3>6. ExceptionTypes'
      BY <1>0, <1>2, <1>5, <1>6, <3>1 DEF ExceptionTypes
    <3> QED
      BY <1>0, <1>7, <3>1, <3>5, <3>6, Enough
  <2> QED
    BY <2>4, <2>5
<1>8. CASE Len(past.waiting) = 2
  <2>1. /\ cpu.ea = NextPos(Inner.pos) /\ Saved = [ea |-> Inner.pos, estatus |-> FALSE, sp |-> 1]
        /\ Inner.pos.code \in build.divides /\ Inner.pos.pc = 1 /\ depth = 2
    BY <1>0, <1>1, <1>8 DEF WithinInv
  <2>2. Inner.pos \in Positions /\ Inner.pos.code # "program" /\ build.emulates
    <3>1. Inner \in Interrupted
      BY <1>0, <1>8, Registers DEF Inner
    <3> QED
      BY <1>0, <2>1, <3>1 DEF Interrupted, ExceptionTypes
  <2>3. pos = Inner.pos
    BY <2>1, <2>2, AtPositions DEF pos
  <2>4. Kind(Inner.pos) = "divide"
    BY <2>1, <2>2 DEF Kind, Positions, Codes
  <2>5. to = "exit" /\ past' = past
    BY <1>2, <2>2, <2>3, <2>4 DEF to, pos, Finish
  <2>6. First' = First /\ Inner' = Inner
    BY <2>5 DEF First, Inner
  <2>7. Saved' = [ea |-> NextPos(Inner.pos), estatus |-> FALSE, sp |-> 1]
    BY <1>5, <2>1
  <2>8. DoneBefore(First.pos.pc)'
    BY <1>0, <1>8, <2>5, <2>6 DEF DoneBefore, WithinInv
  <2>9. Inner.pos.code = "handler" =>
          told.exception_pc = First.pos /\ Reported(told.cause, told.bad_addr)'
    BY <1>0, <1>2, <1>8, <2>6 DEF WithinInv, Reported
  <2>10. ~build'.ALT_EXCEPTION_STACK => frames'[1] = frames[1]
    BY <1>2, <1>5, <2>1
  <2>11. WithinInv'
    BY <1>0, <1>2, <1>6, <1>8, <2>5, <2>6, <2>7, <2>8, <2>9, <2>10 DEF WithinInv, Of
  <2>12. ExceptionTypes'
    BY <1>0, <1>2, <1>5, <1>6, <2>5 DEF ExceptionTypes
  <2> QED
    BY <1>0, <1>8, <2>5, <2>11, <2>12, Enough
<1> QED
  BY <1>1, <1>7, <1>8

\* The handler is told of the instruction of the program, or without one it is
\* issued again.
LEMMA HandledStep ==
  ASSUME ExceptionsInv, alt_instruction_exception_entry
  PROVE  ExceptionsInv'
<1>0. ExceptionTypes /\ ~past.lost /\ InsideInv
  BY WhereItIs DEF ExceptionsInv, alt_instruction_exception_entry
<1>1. cpu.pos.code = "unknown" /\ Len(past.waiting) = 1
  BY WhereItIs DEF alt_instruction_exception_entry
<1>2. /\ cpu.ea = NextPos(First.pos) /\ Reported(cpu.EXCEPTION, cpu.BADADDR)
      /\ Saved = Of(NextPos(First.pos)) /\ DoneBefore(First.pos.pc)
      /\ First.pos = Pos("program", First.pos.pc) /\ First.pos.pc \in 1..Len(Program)
      /\ ~cpu.PIE /\ depth = 1
  BY <1>0, <1>1 DEF InsideInv
<1>3. First.pos \in Positions /\ PreviousPos(cpu.ea) = First.pos
  <2>1. First.pos \in Positions
    BY <1>2 DEF Pos, Positions, Codes
  <2> QED
    BY <1>2, <2>1, AtPositions
<1>4. /\ past' = past /\ build' = build /\ depth' = depth /\ program' = program
      /\ First' = First
  BY DEF alt_instruction_exception_entry, First
<1>5. DoneBefore(First.pos.pc)'
  BY <1>2, <1>4 DEF DoneBefore
<1>6. CASE program.handler
  <2>1. /\ cpu' = [cpu EXCEPT !.pos = Pos("handler", 1)]
        /\ told' = [cause |-> cpu.EXCEPTION, exception_pc |-> First.pos,
                    bad_addr |-> cpu.BADADDR]
        /\ frames' = frames
    BY <1>3, <1>6 DEF alt_instruction_exception_entry
  <2>3. /\ cpu' \in Processor /\ cpu'.pos.code = "handler" /\ cpu'.pos.pc = 1
        /\ cpu'.PIE = cpu.PIE /\ cpu'.ea = cpu.ea
    BY <1>0, <2>1, GoesTo DEF Codes
  <2>4. Saved' = Of(NextPos(First.pos))'
    BY <1>2, <1>4, <2>1 DEF Saved, Slot, Of
  <2>5. told'.exception_pc = First'.pos /\ Reported(told.cause, told.bad_addr)'
    BY <1>2, <1>4, <2>1 DEF Reported
  <2>6. InsideInv'
    BY <1>1, <1>2, <1>4, <1>5, <2>3, <2>4, <2>5 DEF InsideInv
  <2>7. told' \in [cause : {0, 2, 4, 5, 6}, exception_pc : Positions, bad_addr : Int]
    BY <1>0, <1>3, <2>1, Registers
  <2>8. ExceptionTypes'
    BY <1>0, <1>4, <2>1, <2>3, <2>7 DEF ExceptionTypes
  <2> QED
    BY <1>0, <1>1, <1>4, <2>6, <2>8, Enough
<1>7. CASE ~program.handler
  <2>1. /\ cpu' = [cpu EXCEPT !.pos = Pos("exit", 0)] /\ told' = told
        /\ frames' = [frames EXCEPT ![Slot(depth)] = Leaves(First.pos)]
    BY <1>3, <1>7 DEF alt_instruction_exception_entry
  <2>3. cpu' \in Processor /\ cpu'.pos.code = "exit" /\ cpu'.PIE = cpu.PIE
    BY <1>0, <2>1, GoesTo
  <2>4. /\ Saved' = [ea |-> First.pos, estatus |-> Saved.estatus, sp |-> Saved.sp]
        /\ frames' \in [1..3 -> SavedFrame]
    BY <1>0, <1>2, <1>3, <1>4, <2>1, LeavesFor
  <2>5. Saved' = Of(First.pos)'
    BY <1>2, <1>4, <2>4 DEF Of
  <2>6. InsideInv'
    BY <1>1, <1>2, <1>4, <1>5, <2>3, <2>5 DEF InsideInv
  <2>7. ExceptionTypes'
    BY <1>0, <1>4, <2>1, <2>3, <2>4 DEF ExceptionTypes
  <2> QED
    BY <1>0, <1>1, <1>4, <2>6, <2>7, Enough
<1> QED
  BY <1>6, <1>7

-----------------------------------------------------------------------------
(* Back from the exception. *)

\* The handler has skipped the instruction or has it issued again; what it has
\* divided with may have cost the way back.
LEMMA HandlerDoneStep ==
  ASSUME ExceptionsInv, HandlerReturns
  PROVE  ExceptionsInv'
<1>0. ExceptionTypes /\ InsideInv /\ ~past.lost
  BY WhereItIs DEF ExceptionsInv, HandlerReturns, Ended, Pos
<1>1. cpu.pos.code = "handler" /\ Len(past.waiting) = 1
  BY WhereItIs DEF HandlerReturns, Ended, Pos
<1>2. /\ depth = 1 /\ ~cpu.PIE
      /\ First.pos = Pos("program", First.pos.pc) /\ First.pos.pc \in 1..Len(Program)
      /\ DoneBefore(First.pos.pc) /\ told.exception_pc = First.pos
      /\ Saved = Of(NextPos(First.pos)) \/ Overwritten("handler")
      /\ \/ cpu.ea = NextPos(First.pos)
         \/ cpu.ea.code = "handler" /\ "handler" \in build.divides
  BY <1>0, <1>1 DEF InsideInv
<1>3. First.pos \in Positions /\ First.pos.code = "program"
  BY <1>2 DEF Pos, Positions, Codes
<1>4. /\ cpu' \in Processor /\ cpu'.pos.code = "exit" /\ cpu'.PIE = cpu.PIE
  BY <1>0, GoesTo DEF HandlerReturns
<1>5. build' = build /\ depth' = depth /\ told' = told
  BY DEF HandlerReturns
<1>6. Overwritten("handler") => Endangered
  BY DEF Overwritten, Endangered
<1>7. CASE /\ past' = Finish(told.exception_pc)
           /\ UNCHANGED <<frames, program>>
  <2>1. past' = [past EXCEPT !.done[First.pos.pc] = @ + 1]
    BY <1>2, <1>3, <1>7 DEF Finish
  <2>2. /\ past' \in Past /\ past'.waiting = past.waiting /\ ~past'.lost
        /\ First' = First /\ DoneBefore(First.pos.pc + 1)'
    BY <1>0, <1>2, <2>1, DoneOnce
  <2>3. Saved' = Saved
    BY <1>5, <1>7 DEF Saved, Slot
  <2>4. Overwritten("handler") => Endangered' /\ ~GoesBack'
    <3>1. Overwritten("handler") => Saved'.sp = 1 /\ depth' - 1 = 0
      BY <1>2, <1>5, <2>3 DEF Overwritten
    <3> QED
      BY <1>5, <1>6, <3>1 DEF Endangered, GoesBack
  <2>5. Saved = Of(NextPos(First.pos)) => Saved' = Of(NextPos(First.pos))'
    BY <2>2, <2>3 DEF Of
  <2>6. InsideInv'
    BY <1>2, <1>4, <1>5, <2>2, <2>4, <2>5 DEF InsideInv
  <2>7. ExceptionTypes'
    BY <1>0, <1>4, <1>5, <1>7, <2>2 DEF ExceptionTypes
  <2> QED
    BY <1>1, <2>2, <2>6, <2>7, Enough
<1>8. CASE /\ program' = [program EXCEPT !.repaired = @ \cup {told.exception_pc.pc}]
           /\ frames' = [frames EXCEPT ![Slot(depth)] = Leaves(Reissue)]
           /\ UNCHANGED past
  <2>1. /\ First' = First /\ Victim = First /\ Victim' = Victim
    BY <1>1, <1>8, WhereItIs DEF First, Victim
  <2>2. DoneBefore(First.pos.pc)'
    BY <1>2, <1>8, <2>1 DEF DoneBefore
  <2>3. Reissue \in Positions
    BY <1>0, Registers, AtPositions DEF Reissue
  <2>4. /\ Saved' = [ea |-> Reissue, estatus |-> Saved.estatus, sp |-> Saved.sp]
        /\ frames' \in [1..3 -> SavedFrame]
    BY <1>0, <1>2, <1>5, <1>8, <2>3, LeavesFor
  <2>5. \/ Saved' = Of(First.pos)'
        \/ Endangered' /\ ~GoesBack'
    <3>1. CASE Overwritten("handler")
      <4>1. Saved'.sp = 1 /\ depth' - 1 = 0
        BY <1>2, <1>5, <2>4, <3>1 DEF Overwritten
      <4> QED
        BY <1>5, <1>6, <3>1, <4>1 DEF Endangered, GoesBack
    <3>2. CASE cpu.ea.code = "handler" /\ "handler" \in build.divides
      <4>1. Saved'.ea.code = "handler"
        BY <1>0, <2>4, <3>2, Registers, AtPositions DEF Reissue
      <4>2. Victim'.pos.code = "program" /\ NextPos(Victim.pos)'.code = "program"
        BY <1>3, <2>1, AtPositions
      <4>3. Saved'.ea \notin {Victim.pos, NextPos(Victim.pos)}'
        BY <4>1, <4>2
      <4> QED
        BY <1>5, <3>2, <4>3 DEF Endangered, GoesBack
    <3>3. CASE Saved = Of(NextPos(First.pos)) /\ cpu.ea = NextPos(First.pos)
      <4>1. Reissue = First.pos
        BY <1>3, <3>3, AtPositions DEF Reissue
      <4> QED
        BY <2>1, <2>4, <3>3, <4>1 DEF Of
    <3> QED
      BY <1>2, <3>1, <3>2, <3>3
  <2>6. InsideInv'
    BY <1>2, <1>4, <1>5, <1>8, <2>1, <2>2, <2>5 DEF InsideInv
  <2>7. program' \in [handler : BOOLEAN, repaired : SUBSET Int]
    <3>1. told.exception_pc.pc \in Int /\ program \in [handler : BOOLEAN, repaired : SUBSET Int]
      BY <1>0 DEF ExceptionTypes, Positions
    <3> QED
      BY <1>8, <3>1
  <2>8. ExceptionTypes'
    BY <1>0, <1>4, <1>5, <1>8, <2>4, <2>7 DEF ExceptionTypes
  <2> QED
    BY <1>0, <1>1, <1>8, <2>6, <2>8, Enough
<1> QED
  BY <1>7, <1>8 DEF HandlerReturns

LEMMA IsrStep ==
  ASSUME ExceptionsInv, IsrReturns
  PROVE  ExceptionsInv'
<1>0. ExceptionTypes /\ InsideInv /\ ~past.lost
  BY WhereItIs DEF ExceptionsInv, IsrReturns, Ended, Pos
<1>1. cpu.pos.code = "isr" /\ Len(past.waiting) = 1
  BY WhereItIs DEF IsrReturns, Ended, Pos
<1>2. /\ depth = 1 /\ ~cpu.PIE /\ First.PIE
      /\ First.pos = Pos("program", First.pos.pc) /\ First.pos.pc \in 1..Len(Program)
      /\ DoneBefore(First.pos.pc)
      /\ Saved = Of(First.pos) \/ Overwritten("isr")
  BY <1>0, <1>1 DEF InsideInv
<1> DEFINE pos == IF cpu.irq THEN Pos("isr", 1) ELSE Pos("exit", 0)
<1>3. /\ cpu' = [cpu EXCEPT !.pos = pos, !.irq = cpu.irq]
      /\ UNCHANGED <<build, frames, depth, program, told, past>>
  BY <1>0, Registers DEF IsrReturns
<1>4. /\ pos \in [code : Codes \cup {"irqtest", "unknown", "exit", "lost"}, pc : Int]
      /\ pos.code \in {"isr", "exit"} /\ (pos.code = "isr" => pos.pc = 1)
  BY DEF Pos, Codes
<1> HIDE DEF pos
<1>5. /\ ExceptionTypes' /\ cpu'.pos = pos /\ cpu'.PIE = cpu.PIE
      /\ First' = First /\ Saved' = Saved /\ Victim' = Victim
      /\ past' = past /\ depth' = depth /\ build' = build
  BY <1>0, <1>3, <1>4, GoesOn, Registers
<1>6. DoneBefore(First.pos.pc)'
  BY <1>2, <1>5 DEF DoneBefore
<1>7. Saved = Of(First.pos) => Saved' = Of(First.pos)'
  BY <1>5 DEF Of
<1>8. Overwritten("isr") => Overwritten("isr")' /\ Endangered' /\ ~GoesBack'
  <2>1. Overwritten("isr") => Saved'.sp = 1 /\ depth' - 1 = 0
    BY <1>2, <1>5 DEF Overwritten
  <2> QED
    BY <1>5, <2>1 DEF Overwritten, Endangered, GoesBack
<1>9. InsideInv'
  BY <1>1, <1>2, <1>4, <1>5, <1>6, <1>7, <1>8 DEF InsideInv
<1> QED
  BY <1>0, <1>1, <1>5, <1>9, Enough

\* The way back is found whole, or the run is over.
LEMMA EretStep ==
  ASSUME ExceptionsInv, eret
  PROVE  ExceptionsInv'
<1>0. ExceptionTypes /\ InsideInv /\ WithinInv /\ ~past.lost
  BY WhereItIs DEF ExceptionsInv, eret
<1>1. /\ cpu.pos.code = "exit" /\ depth = Len(past.waiting)
      /\ Len(past.waiting) = 1 \/ Len(past.waiting) = 2
  BY <1>0, WhereItIs DEF eret
<1>2. depth = 1 \/ depth = 2
  BY <1>1, Zenon
<1>3. Saved \in SavedFrame
  <2>1. Slot(depth) \in 1..3
    <3>1. Slot(1) \in 1..3 /\ Slot(2) \in 1..3
      BY <1>0, Slots
    <3> QED
      BY <1>2, <3>1
  <2> QED
    BY <1>0, <2>1 DEF Saved, ExceptionTypes
<1> DEFINE pos == IF GoesBack THEN Saved.ea ELSE Pos("lost", 0)
           left == SubSeq(past.waiting, 1, Len(past.waiting) - 1)
<1>4. /\ depth' = depth - 1
      /\ cpu' = [cpu EXCEPT !.PIE = Saved.estatus, !.ea = Saved.ea, !.pos = pos]
      /\ past' = [past EXCEPT !.waiting = left, !.lost = ~GoesBack]
      /\ UNCHANGED <<build, frames, program, told>>
  BY DEF eret
<1>5. /\ pos \in [code : Codes \cup {"irqtest", "unknown", "exit", "lost"}, pc : Int]
      /\ Saved.ea \in Positions /\ Saved.estatus \in BOOLEAN
  BY <1>3 DEF SavedFrame, Positions, Pos
<1>6. /\ left \in Seq(Interrupted)
      /\ Len(past.waiting) = 1 => left = <<>>
      /\ Len(past.waiting) = 2 => Len(left) = 1 /\ left[1] = past.waiting[1]
  <2>1. /\ Len(past.waiting) >= 1 =>
             left \in Seq(Interrupted) /\ Len(left) = Len(past.waiting) - 1
        /\ Len(past.waiting) = 1 => left = <<>>
        /\ Len(past.waiting) = 2 => left[1] = past.waiting[1]
    <3>1. past.waiting \in Seq(Interrupted)
      BY <1>0, Registers
    <3>2. PICK x : x \in Interrupted
      <4>1. [pos |-> Saved.ea, PIE |-> TRUE] \in Interrupted
        BY <1>5 DEF Interrupted
      <4> QED
        BY <4>1
    <3> QED
      BY <3>1, <3>2, Waits
  <2>2. \A n : n = 1 \/ n = 2 => n >= 1
    OBVIOUS
  <2>3. 2 - 1 = 1
    OBVIOUS
  <2> HIDE DEF left
  <2>4. left \in Seq(Interrupted) /\ Len(left) = Len(past.waiting) - 1
    BY <1>1, <2>1, <2>2, Zenon
  <2> QED
    BY <2>1, <2>3, <2>4, Zenon
<1>6a. /\ GoesBack => pos = Saved.ea
       /\ ~GoesBack => pos = Pos("lost", 0)
  OBVIOUS
<1> HIDE DEF pos, left
<1>7. /\ cpu' = [pos |-> pos, PIE |-> Saved.estatus, ea |-> Saved.ea,
                 EXCEPTION |-> cpu.EXCEPTION, BADADDR |-> cpu.BADADDR, irq |-> cpu.irq]
      /\ cpu'.pos = pos /\ cpu'.PIE = Saved.estatus /\ cpu'.ea = Saved.ea
      /\ cpu' \in Processor
  BY <1>0, <1>4, <1>5, Registers DEF Processor
<1>8. /\ past' = [waiting |-> left, done |-> past.done, lost |-> ~GoesBack]
      /\ past'.waiting = left /\ past'.done = past.done /\ past'.lost = ~GoesBack
  BY <1>0, <1>4, Registers
<1>8a. /\ GoesBack => ~past'.lost
       /\ ~GoesBack => past'.lost
  BY <1>8, Zenon
<1>9. past' \in Past
  <2>1. GoesBack \in BOOLEAN
    BY DEF GoesBack
  <2> QED
    BY <1>0, <1>6, <1>8, <2>1, Registers DEF Past
<1>10. ExceptionTypes'
  BY <1>0, <1>4, <1>7, <1>9 DEF ExceptionTypes
<1>11. CASE ~GoesBack
  <2>1. Endangered
    <3>1. CASE Len(past.waiting) = 1
      <4>1. \/ Saved = Of(First.pos) \/ Saved = Of(NextPos(First.pos))
            \/ Endangered
        BY <1>0, <1>1, <3>1 DEF InsideInv
      <4>2. Saved = Of(First.pos) \/ Saved = Of(NextPos(First.pos)) => GoesBack
        BY <1>1, <3>1, WhereItIs DEF Of, GoesBack
      <4> QED
        BY <1>11, <4>1, <4>2
    <3>2. CASE Len(past.waiting) = 2
      <4>1. Saved = [ea |-> NextPos(Inner.pos), estatus |-> FALSE, sp |-> 1] /\ ~Inner.PIE
        BY <1>0, <1>1, <3>2 DEF WithinInv
      <4>2. Inner.PIE = FALSE
        <5>1. Inner \in Interrupted
          BY <1>0, <3>2, Registers DEF Inner
        <5> QED
          BY <4>1, <5>1 DEF Interrupted
      <4>3. Victim = Inner /\ depth - 1 = 1
        BY <1>1, <3>2, WhereItIs
      <4>4. Saved.sp = 1 /\ Saved.estatus = FALSE /\ Saved.ea = NextPos(Inner.pos)
        BY <4>1
      <4>5. GoesBack
        BY <4>2, <4>3, <4>4 DEF GoesBack
      <4> QED
        BY <1>11, <4>5
    <3> QED
      BY <1>1, <3>1, <3>2
  <2>2. Endangered' /\ past'.lost /\ cpu'.pos.code = "lost"
    BY <1>4, <1>7, <1>11, <1>6a, <1>8a, <2>1 DEF Endangered, Pos
  <2> QED
    BY <1>10, <2>2 DEF ExceptionsInv
<1>12. CASE GoesBack /\ Len(past.waiting) = 1
  <2>1. /\ depth' = 0 /\ cpu'.pos = Saved.ea /\ past'.waiting = <<>> /\ ~past'.lost
    <3>1. depth' = 0
      BY <1>1, <1>4, <1>12
    <3> QED
      BY <1>6, <1>7, <1>8, <1>12, <1>6a, <1>8a, <3>1
  <2>2. /\ First.pos = Pos("program", First.pos.pc) /\ First.pos.pc \in 1..Len(Program)
        /\ \/ Saved.ea = First.pos /\ DoneBefore(First.pos.pc)
           \/ Saved.ea = NextPos(First.pos) /\ DoneBefore(First.pos.pc + 1)
    BY <1>0, <1>1, <1>12 DEF InsideInv, Of
  <2>3. First.pos \in Positions /\ First.pos.code = "program"
    BY <2>2 DEF Pos, Positions, Codes
  <2>4. /\ Saved.ea.code = "program" /\ Saved.ea.pc \in 1..Len(Program) + 1
        /\ DoneBefore(Saved.ea.pc)
    BY <2>2, <2>3, AtPositions, Lengths
  <2>5. DoneBefore(cpu.pos.pc)'
    BY <1>8, <2>1, <2>4 DEF DoneBefore
  <2>6. OutsideInv'
    BY <2>1, <2>4, <2>5 DEF OutsideInv
  <2> QED
    BY <1>10, <2>1, <2>6, Enough
<1>13. CASE GoesBack /\ Len(past.waiting) = 2
  <2>1. /\ depth' = 1 /\ cpu'.pos = Saved.ea /\ ~past'.lost
        /\ Len(past'.waiting) = 1 /\ First' = First
    <3>1. depth' = 1
      BY <1>1, <1>4, <1>13
    <3> QED
      BY <1>6, <1>7, <1>8, <1>13, <1>6a, <1>8a, <3>1 DEF First
  <2>2. /\ Saved = [ea |-> NextPos(Inner.pos), estatus |-> FALSE, sp |-> 1]
        /\ Inner.pos.code \in build.divides /\ Inner.pos.pc = 1 /\ depth = 2
        /\ First.pos = Pos("program", First.pos.pc) /\ First.pos.pc \in 1..Len(Program)
        /\ DoneBefore(First.pos.pc)
    BY <1>0, <1>1, <1>13 DEF WithinInv
  <2>3. Inner.pos \in Positions /\ Inner.pos.code \in {"isr", "handler"}
    <3>1. Inner \in Interrupted
      BY <1>0, <1>13, Registers DEF Inner
    <3> QED
      BY <1>0, <2>2, <3>1 DEF Interrupted, ExceptionTypes
  <2>4. /\ cpu'.pos = NextPos(Inner.pos) /\ ~cpu'.PIE /\ cpu'.ea = NextPos(Inner.pos)
        /\ cpu'.pos.code = Inner.pos.code /\ cpu'.pos.pc = 2
    BY <1>7, <2>1, <2>2, <2>3, AtPositions
  <2>5. Saved' = frames[1]
    BY <1>0, <1>4, <2>1, Slots DEF Saved, Slot
  <2>6. ASSUME build.ALT_EXCEPTION_STACK
        PROVE  /\ Inner.pos.code = "isr" => Overwritten("isr")'
               /\ Inner.pos.code = "handler" => Overwritten("handler")'
    <3>1. Slot(depth) = 1
      BY <1>0, <2>2, <2>6, Slots
    <3>2. Saved' = Saved
      BY <2>5, <3>1 DEF Saved
    <3>3. Saved'.sp = 1 /\ build' = build
      BY <1>4, <2>2, <3>2
    <3>4. /\ Inner.pos.code = "isr" => Overwritten("isr")'
          /\ Inner.pos.code = "handler" => Overwritten("handler")'
      BY <2>2, <2>6, <3>3 DEF Overwritten
    <3> QED
      BY <3>4
  <2>7. ASSUME ~build.ALT_EXCEPTION_STACK
        PROVE  /\ Inner.pos.code = "isr" => Saved' = Of(First.pos)'
               /\ Inner.pos.code = "handler" => Saved' = Of(NextPos(First.pos))'
    <3>1. /\ Inner.pos.code = "isr" => frames[1] = Of(First.pos)
          /\ Inner.pos.code = "handler" => frames[1] = Of(NextPos(First.pos))
      BY <1>0, <1>13, <2>7 DEF WithinInv
    <3> QED
      BY <2>1, <2>5, <3>1 DEF Of
  <2>8. /\ Inner.pos.code = "isr" =>
             Saved' = Of(First.pos)' \/ Overwritten("isr")'
        /\ Inner.pos.code = "handler" =>
             Saved' = Of(NextPos(First.pos))' \/ Overwritten("handler")'
    BY <2>6, <2>7
  <2>9. DoneBefore(First.pos.pc)'
    BY <1>8, <2>1, <2>2 DEF DoneBefore
  <2>10. /\ Inner.pos.code = "isr" => First.PIE
         /\ Inner.pos.code = "handler" =>
              told.exception_pc = First.pos /\ Reported(told.cause, told.bad_addr)'
    BY <1>0, <1>4, <1>13, <2>1 DEF WithinInv, Reported
  <2>11. InsideInv'
    BY <1>4, <2>1, <2>2, <2>3, <2>4, <2>8, <2>9, <2>10 DEF InsideInv
  <2> QED
    BY <1>10, <2>1, <2>11, Enough
<1> QED
  BY <1>1, <1>11, <1>12, <1>13

-----------------------------------------------------------------------------
(* The code and the device. *)

LEMMA ExecuteStep ==
  ASSUME ExceptionsInv, Execute
  PROVE  ExceptionsInv'
<1>0. /\ ExceptionTypes /\ ~past.lost /\ cpu.pos.code \in Codes
      /\ cpu.pos \in Positions /\ OutsideInv /\ InsideInv
      /\ cpu.pos.pc <= Length(cpu.pos.code)
  BY WhereItIs, Registers DEF ExceptionsInv, Execute, Running, InCode, Codes
<1> DEFINE irq == cpu.irq /\ cpu.pos # Pos("isr", 2)
<1>1. /\ cpu' = [cpu EXCEPT !.pos = NextPos(cpu.pos), !.irq = irq]
      /\ past' = Finish(cpu.pos)
      /\ UNCHANGED <<build, frames, depth, program, told>>
  <2>1. cpu' = [cpu EXCEPT !.pos = NextPos(@), !.irq = @ /\ cpu.pos # Pos("isr", 2)]
    BY DEF Execute
  <2>2. cpu' = [cpu EXCEPT !.pos = NextPos(cpu.pos), !.irq = irq]
    BY <1>0, <2>1, Registers
  <2> QED
    BY <2>2 DEF Execute
<1>2. irq \in BOOLEAN
  OBVIOUS
<1> HIDE DEF irq
<1>3. /\ NextPos(cpu.pos) \in Positions
      /\ NextPos(cpu.pos).code = cpu.pos.code
      /\ NextPos(cpu.pos).pc = cpu.pos.pc + 1
  BY <1>0, AtPositions
<1>4. NextPos(cpu.pos) \in [code : Codes \cup {"irqtest", "unknown", "exit", "lost"}, pc : Int]
  BY <1>3 DEF Positions
<1>5. CASE cpu.pos.code = "program"
  <2>1. /\ past.waiting = <<>> /\ depth = 0
        /\ cpu.pos.pc \in 1..Len(Program) /\ DoneBefore(cpu.pos.pc)
    <3>1. past.waiting = <<>>
      BY <1>0, <1>5, WhereItIs
    <3>2. cpu.pos.pc \in 1..Len(Program) + 1 /\ cpu.pos.pc <= Len(Program)
      BY <1>0, <1>5, <3>1 DEF OutsideInv, Length
    <3>3. cpu.pos.pc \in 1..Len(Program)
      BY <3>2, Lengths
    <3> QED
      BY <1>0, <3>1, <3>3 DEF OutsideInv
  <2>2. past' = [past EXCEPT !.done[cpu.pos.pc] = @ + 1]
    BY <1>1, <1>5 DEF Finish
  <2>3. past' = [waiting |-> <<>>,
                 done |-> [past.done EXCEPT ![cpu.pos.pc] = @ + 1], lost |-> FALSE]
    BY <1>0, <2>1, <2>2, Registers
  <2>4. /\ past'.waiting = <<>> /\ ~past'.lost
        /\ past'.done = [i \in 1..Len(Program) |-> IF i < cpu.pos.pc + 1 THEN 1 ELSE 0]
    BY <2>1, <2>3, OneMore
  <2>5. /\ cpu' = [pos |-> NextPos(cpu.pos), PIE |-> cpu.PIE, ea |-> cpu.ea,
                   EXCEPTION |-> cpu.EXCEPTION, BADADDR |-> cpu.BADADDR, irq |-> irq]
        /\ cpu' \in Processor /\ cpu'.pos = NextPos(cpu.pos)
    BY <1>0, <1>1, <1>2, <1>4, Registers DEF Processor
  <2>6. past' \in Past
    <3>1. \A n : [i \in 1..Len(Program) |-> IF i < n THEN 1 ELSE 0]
                   \in [1..Len(Program) -> Int]
      OBVIOUS
    <3>2. past' = [waiting |-> <<>>, done |-> past'.done, lost |-> FALSE]
      BY <2>3
    <3>3. past'.done \in [1..Len(Program) -> Int]
      BY <2>4, <3>1
    <3>4. <<>> \in Seq(Interrupted)
      OBVIOUS
    <3>5. \A d \in [1..Len(Program) -> Int] :
            [waiting |-> <<>>, done |-> d, lost |-> FALSE] \in Past
      BY <3>4 DEF Past
    <3> QED
      BY <3>2, <3>3, <3>5
  <2>7. ExceptionTypes'
    BY <1>0, <1>1, <2>5, <2>6 DEF ExceptionTypes
  <2>8. DoneBefore(cpu.pos.pc)'
    BY <1>3, <2>4, <2>5 DEF DoneBefore
  <2>9. cpu'.pos.pc \in 1..Len(Program) + 1
    BY <1>3, <2>1, <2>5, Lengths
  <2>10. OutsideInv'
    BY <1>1, <1>3, <1>5, <2>1, <2>5, <2>8, <2>9 DEF OutsideInv
  <2> QED
    BY <2>4, <2>7, <2>10, Enough
<1>6. CASE cpu.pos.code # "program"
  <2>1. past' = past
    BY <1>1, <1>6 DEF Finish
  <2>2. cpu.pos.code \in {"isr", "handler"} /\ Len(past.waiting) = 1
    BY <1>0, <1>6, WhereItIs DEF Codes
  <2>3. /\ ExceptionTypes' /\ cpu'.pos = NextPos(cpu.pos) /\ cpu'.PIE = cpu.PIE
        /\ cpu'.ea = cpu.ea /\ First' = First /\ Saved' = Saved
        /\ depth' = depth /\ build' = build /\ told' = told
    BY <1>0, <1>1, <1>2, <1>4, <2>1, GoesOn
  <2>4. NextPos(cpu.pos).pc \in 1..3
    <3>1. cpu.pos.pc \in 1..3 /\ cpu.pos.pc <= 2
      BY <1>0, <2>2 DEF InsideInv, Length
    <3> QED
      BY <1>3, <3>1
  <2>5. DoneBefore(First.pos.pc)'
    BY <1>0, <2>1, <2>2, <2>3 DEF InsideInv, DoneBefore
  <2>6. /\ Saved = Of(First.pos) => Saved' = Of(First.pos)'
        /\ Saved = Of(NextPos(First.pos)) => Saved' = Of(NextPos(First.pos))'
        /\ Overwritten("isr") => Overwritten("isr")'
        /\ Overwritten("handler") => Overwritten("handler")'
    BY <2>3 DEF Of, Overwritten
  <2>7. cpu.pos.code = "handler" =>
          told'.exception_pc = First'.pos /\ Reported(told.cause, told.bad_addr)'
    BY <1>0, <2>2, <2>3 DEF InsideInv, Reported
  <2>8. InsideInv'
    BY <1>0, <1>3, <2>1, <2>2, <2>3, <2>4, <2>5, <2>6, <2>7 DEF InsideInv
  <2> QED
    BY <1>0, <2>1, <2>2, <2>3, <2>8, Enough
<1> QED
  BY <1>5, <1>6

\* Nothing is said of the request, nor of the handler's being registered.
LEMMA SameElsewhere ==
  ASSUME ExceptionsInv, ExceptionTypes',
         UNCHANGED <<build, frames, depth, told, past>>,
         cpu'.pos = cpu.pos, cpu'.PIE = cpu.PIE, cpu'.ea = cpu.ea,
         cpu'.EXCEPTION = cpu.EXCEPTION, cpu'.BADADDR = cpu.BADADDR
  PROVE  ExceptionsInv'
<1>1. /\ First' = First /\ Inner' = Inner /\ Victim' = Victim /\ Saved' = Saved
      /\ Endangered' = Endangered
  BY DEF First, Inner, Victim, Saved, Slot, Endangered
<1>2. GoesBack' <=> GoesBack
  BY <1>1 DEF GoesBack
<1>3. OutsideInv => OutsideInv'
  BY DEF OutsideInv, DoneBefore
<1>4. InsideInv => InsideInv'
  BY <1>1, <1>2 DEF InsideInv, DoneBefore, Of, Overwritten, Reported
<1>5. WithinInv => WithinInv'
  BY <1>1 DEF WithinInv, DoneBefore, Of, Reported
<1> QED
  BY <1>1, <1>3, <1>4, <1>5 DEF ExceptionsInv

LEMMA IrqStep ==
  ASSUME ExceptionsInv, Irq
  PROVE  ExceptionsInv'
<1>0. ExceptionTypes
  BY DEF ExceptionsInv
<1>1. /\ cpu' = [cpu EXCEPT !.pos = cpu.pos, !.irq = ~cpu.irq]
      /\ UNCHANGED <<build, frames, depth, program, told, past>>
  BY <1>0, Registers DEF Irq
<1>2. cpu.pos \in [code : Codes \cup {"irqtest", "unknown", "exit", "lost"}, pc : Int]
  BY <1>0 DEF ExceptionTypes, Processor
<1>3. (~cpu.irq) \in BOOLEAN
  OBVIOUS
<1> QED
  BY <1>0, <1>1, <1>2, <1>3, GoesOn, SameElsewhere

LEMMA HandlerRegisteredStep ==
  ASSUME ExceptionsInv, alt_instruction_exception_register
  PROVE  ExceptionsInv'
<1>0. ExceptionTypes
  BY DEF ExceptionsInv
<1>1. /\ program' = [program EXCEPT !.handler = ~program.handler]
      /\ UNCHANGED <<build, cpu, frames, depth, told, past>>
  BY DEF alt_instruction_exception_register
<1>2. program' \in [handler : BOOLEAN, repaired : SUBSET Int]
  BY <1>0, <1>1 DEF ExceptionTypes
<1>3. ExceptionTypes'
  BY <1>0, <1>1, <1>2 DEF ExceptionTypes
<1> QED
  BY <1>1, <1>3, SameElsewhere

\* The beginning, also of a run after another one.
LEMMA BeginInv ==
  /\ Begin.cpu \in Processor /\ Begin.cpu.pos = Pos("program", 1)
  /\ Begin.program \in [handler : BOOLEAN, repaired : SUBSET Int]
  /\ Begin.told \in [cause : {0, 2, 4, 5, 6}, exception_pc : Positions, bad_addr : Int]
  /\ Begin.past = [waiting |-> <<>>, done |-> [i \in 1..Len(Program) |-> 0], lost |-> FALSE]
  /\ Begin.past \in Past /\ Begin.past.waiting = <<>> /\ ~Begin.past.lost
  /\ Begin.past.done = [i \in 1..Len(Program) |-> IF i < 1 THEN 1 ELSE 0]
<1>1. Pos("program", 1) \in Positions
  BY DEF Pos, Positions, Codes
<1>2. [i \in 1..Len(Program) |-> 0] \in [1..Len(Program) -> Int]
  OBVIOUS
<1>3. \A i \in 1..Len(Program) : ~(i < 1)
  BY Lengths
<1>4. [i \in 1..Len(Program) |-> 0] = [i \in 1..Len(Program) |-> IF i < 1 THEN 1 ELSE 0]
  BY <1>3
<1>5. <<>> \in Seq(Interrupted)
  OBVIOUS
<1>6. Begin.past \in Past /\ Begin.past.waiting = <<>> /\ ~Begin.past.lost
  BY <1>2, <1>5 DEF Begin, Past
<1>7. Begin.cpu \in Processor /\ Begin.cpu.pos = Pos("program", 1)
  BY <1>1 DEF Begin, Processor, Pos, Positions
<1>8. /\ Begin.program \in [handler : BOOLEAN, repaired : SUBSET Int]
      /\ Begin.told \in [cause : {0, 2, 4, 5, 6}, exception_pc : Positions, bad_addr : Int]
  BY <1>1 DEF Begin
<1> QED
  BY <1>4, <1>6, <1>7, <1>8 DEF Begin

LEMMA ResetStep ==
  ASSUME ExceptionsInv, Reset
  PROVE  ExceptionsInv'
<1>1. /\ cpu' = Begin.cpu /\ depth' = 0 /\ program' = Begin.program
      /\ told' = Begin.told /\ past' = Begin.past /\ UNCHANGED <<build, frames>>
  BY DEF Reset
<1>2. ExceptionTypes'
  BY <1>1, BeginInv DEF ExceptionsInv, ExceptionTypes
<1>3. DoneBefore(cpu.pos.pc)'
  BY <1>1, BeginInv DEF DoneBefore, Pos
<1>4. OutsideInv'
  BY <1>1, <1>3, BeginInv, Lengths DEF OutsideInv, Pos
<1> QED
  BY <1>1, <1>2, <1>4, BeginInv, Enough

LEMMA ExceptionsInvInit == ExceptionsInit => ExceptionsInv
<1> SUFFICES ASSUME ExceptionsInit PROVE ExceptionsInv
  OBVIOUS
<1>1. /\ cpu = Begin.cpu /\ depth = 0 /\ program = Begin.program
      /\ told = Begin.told /\ past = Begin.past
  BY DEF ExceptionsInit
<1>2. /\ build \in [ALT_EXCEPTION_STACK : BOOLEAN, emulates : BOOLEAN,
                    divides : SUBSET {"isr", "handler"}]
      /\ build.divides # {} => build.emulates
  BY DEF ExceptionsInit
<1>3. frames \in [1..3 -> SavedFrame]
  <2>1. [ea |-> Pos("program", 1), estatus |-> FALSE, sp |-> 0] \in SavedFrame
    BY DEF SavedFrame, Pos, Positions, Codes
  <2> QED
    BY <2>1 DEF ExceptionsInit
<1>4. ExceptionTypes
  BY <1>1, <1>2, <1>3, BeginInv DEF ExceptionTypes
<1>5. DoneBefore(cpu.pos.pc)
  BY <1>1, BeginInv DEF DoneBefore, Pos
<1>6. OutsideInv
  BY <1>1, <1>5, BeginInv, Lengths DEF OutsideInv, Pos
<1>7. Len(past.waiting) = 0
  BY <1>1, BeginInv
<1> QED
  BY <1>1, <1>4, <1>6, <1>7, BeginInv DEF ExceptionsInv, InsideInv, WithinInv

LEMMA ExceptionsInvNext ==
  ExceptionsInv /\ [ExceptionsNext]_exceptionsVars => ExceptionsInv'
<1> SUFFICES ASSUME ExceptionsInv, [ExceptionsNext]_exceptionsVars PROVE ExceptionsInv'
  OBVIOUS
<1>1. CASE UNCHANGED exceptionsVars
  <2>1. ExceptionTypes'
    BY <1>1 DEF exceptionsVars, ExceptionsInv, ExceptionTypes
  <2> QED
    BY <1>1, <2>1, SameElsewhere DEF exceptionsVars
<1> QED
  BY <1>1, EntryStep, InterruptStep, NotIrqStep, HandledStep, HandlerDoneStep, IsrStep,
     EretStep, ExecuteStep, HandlerRegisteredStep, IrqStep, ResetStep DEF ExceptionsNext

\* The invariant holds of every reachable state.
THEOREM ExceptionsInvariant == ExceptionsSpec => []ExceptionsInv
  BY ExceptionsInvInit, ExceptionsInvNext, PTL DEF ExceptionsSpec

\* Whatever program it is, and whatever exceptions and interrupts come into it and
\* into one another, every instruction is executed, emulated or skipped once and in
\* order, and the handler is told the truth; the way back is lost only in the
\* builds that are endangered (alt_exception_entry.S, alt_instruction_exception_entry.c).
THEOREM AlwaysPrecise == ExceptionsSpec => []ExceptionsPrecise
<1>1. ExceptionsInv => ExceptionsPrecise
  <2> SUFFICES ASSUME ExceptionsInv PROVE ExceptionsPrecise
    OBVIOUS
  <2>1. past.lost => Endangered
    BY DEF ExceptionsInv
  <2>2. ASSUME ~past.lost, past.waiting = <<>>
        PROVE  \A i \in 1..Len(Program) : past.done[i] = IF i < cpu.pos.pc THEN 1 ELSE 0
    BY <2>2 DEF ExceptionsInv, OutsideInv, DoneBefore
  <2>3. ASSUME cpu.pos.code \in {"isr", "handler"}
        PROVE  Len(past.waiting) = 1 /\ InsideInv /\ Victim = First
    BY <2>3, WhereItIs DEF ExceptionsInv
  <2>4. cpu.pos.code = "isr" => Victim.PIE
    BY <2>3 DEF InsideInv
  <2>5. ASSUME cpu.pos = Pos("handler", 1)
        PROVE  /\ told.exception_pc = Victim.pos
               /\ alt_exception_cause_generated_bad_addr(told.cause) =>
                    told.bad_addr = Victim.pos.pc
    <3>1. cpu.pos.code = "handler"
      BY <2>5 DEF Pos
    <3>2. /\ told.exception_pc = First.pos /\ Reported(told.cause, told.bad_addr)
          /\ Victim = First
      BY <2>3, <3>1 DEF InsideInv
    <3> QED
      BY <3>2 DEF Reported, alt_exception_cause_generated_bad_addr
  <2> QED
    BY <2>1, <2>2, <2>4, <2>5 DEF ExceptionsPrecise
<1> QED
  BY <1>1, ExceptionsInvariant, PTL

-----------------------------------------------------------------------------
(***************************************************************************)
(* The caches.  A byte's last value is where it is looked for: in the      *)
(* cache if its line is there, otherwise in memory.  A line that is clean  *)
(* is in memory as it is in the cache, so that it doesn't matter when it   *)
(* goes; and what the program has handed over isn't in the cache at all.   *)
(***************************************************************************)

\* The data cache and the memory, as WriteBack gives them.
Now == [memFresh |-> memFresh, dcache |-> dcache, dFresh |-> dFresh, dirty |-> dirty]

Latest(c, address) == IF LineOf(address) \in c.dcache THEN address \in c.dFresh
                                                      ELSE address \in c.memFresh

CleanIsSame(c) ==
  /\ c.dirty \subseteq c.dcache
  /\ \A address \in c.dFresh \cap Bytes :
       /\ LineOf(address) \in c.dcache
       /\ LineOf(address) \in c.dirty \/ address \in c.memFresh

RegionLines == {LineOf(b) : b \in InRegion}

\* The program keeps its hands off.
Away == region.owner \in {"master", "executes"} \/ region.kind = "uncached"

RegionInv ==
  /\ region \in [start : Nat, len : Nat \ {0},
                 kind : {"shared", "code", "free", "uncached"},
                 owner : {"program", "master", "executes"}]
  /\ region.start + region.len <= MemoryLines * CacheLine
  /\ region.owner = "master" => region.kind = "shared"
  /\ region.owner = "executes" => region.kind = "code"

CodeInv ==
  region.owner = "executes" =>
    \A address \in InRegion : LineOf(address) \in icache => address \in iFresh

LatestKept == \A address \in Bytes \ LineAfter : Latest(Now, address)
AwayKept == Away => RegionLines \cap dcache = {}

CachesInv == RegionInv /\ CleanIsSame(Now) /\ LatestKept /\ AwayKept /\ CodeInv

-----------------------------------------------------------------------------
(* Lines. *)

LEMMA MultiplesOfLines ==
  ASSUME NEW k \in Nat \ {0}, NEW a \in Int, NEW b \in Int
  PROVE  /\ k * a \in Int /\ k * (a + b) = k * a + k * b /\ a * k = k * a
         /\ k * (a + 1) = k * a + k
         /\ a < b => k * a + k <= k * b
         /\ k * a < k * b + k => a <= b
<1>1. k * a \in Int /\ k * (a + b) = k * a + k * b /\ a * k = k * a
      /\ k * (a + 1) = k * a + k /\ k * b \in Int
  OBVIOUS
<1>2. a < b => k * a + k <= k * b
  OBVIOUS
<1>3. b < a => k * b + k <= k * a
  OBVIOUS
<1> DEFINE ka == k * a
           kb == k * b
<1>4. ka \in Int /\ kb \in Int /\ (b < a => kb + k <= ka)
  BY <1>1, <1>3
<1> HIDE DEF ka, kb
<1>5. ka < kb + k => a <= b
  BY <1>4
<1> QED
  BY <1>1, <1>2, <1>5 DEF ka, kb

\* A line begins with a multiple of its length.
LEMMA Lines ==
  ASSUME NEW a \in Int
  PROVE  /\ LineOf(a) \in Int /\ CacheLine * LineOf(a) \in Int
         /\ CacheLine * LineOf(a) <= a /\ a < CacheLine * LineOf(a) + CacheLine
         /\ a % CacheLine = a - CacheLine * LineOf(a)
         /\ a % CacheLine \in 0..CacheLine-1
<1>1. CacheLine \in Nat \ {0}
  BY CachesAssumption
<1>2. /\ a \div CacheLine \in Int /\ a % CacheLine \in 0..CacheLine-1
      /\ a = (CacheLine * (a \div CacheLine)) + (a % CacheLine)
  BY <1>1
<1> DEFINE q == a \div CacheLine
           r == a % CacheLine
           cq == CacheLine * q
<1>3. cq \in Int /\ r \in 0..CacheLine-1 /\ a = cq + r /\ q \in Int
  BY <1>1, <1>2
<1> HIDE DEF q, r, cq
<1>4. cq <= a /\ a < cq + CacheLine /\ r = a - cq
  BY <1>1, <1>3
<1> QED
  BY <1>3, <1>4 DEF LineOf, q, r, cq

LEMMA LineIs ==
  ASSUME NEW a \in Int, NEW l \in Int,
         CacheLine * l <= a, a < CacheLine * l + CacheLine
  PROVE  LineOf(a) = l
<1>1. CacheLine \in Nat \ {0}
  BY CachesAssumption
<1> DEFINE q == LineOf(a)
           cq == CacheLine * q
           cl == CacheLine * l
<1>2. /\ q \in Int /\ cq \in Int /\ cl \in Int /\ cq <= a /\ a < cq + CacheLine
      /\ cl <= a /\ a < cl + CacheLine
      /\ cq < cl + CacheLine => q <= l
      /\ cl < cq + CacheLine => l <= q
  BY <1>1, Lines, MultiplesOfLines
<1> HIDE DEF q, cq, cl
<1>3. q = l
  BY <1>1, <1>2
<1> QED
  BY <1>3 DEF q

LEMMA InOrder ==
  ASSUME NEW a \in Int, NEW b \in Int, a <= b
  PROVE  LineOf(a) <= LineOf(b)
<1>1. CacheLine \in Nat \ {0}
  BY CachesAssumption
<1> DEFINE q == LineOf(a)
           p == LineOf(b)
           cq == CacheLine * q
           cp == CacheLine * p
<1>2. /\ q \in Int /\ p \in Int /\ cq \in Int /\ cp \in Int
      /\ cq <= a /\ b < cp + CacheLine
      /\ cq < cp + CacheLine => q <= p
  BY <1>1, Lines, MultiplesOfLines
<1> HIDE DEF q, p, cq, cp
<1>3. q <= p
  BY <1>1, <1>2
<1> QED
  BY <1>3 DEF q, p

\* The turns of the loops: enough lines for so many bytes.
Turns(len) == (len + CacheLine - 1) \div CacheLine

LEMMA TurnsOf ==
  ASSUME NEW len \in Nat \ {0}
  PROVE  /\ Turns(len) \in Nat \ {0} /\ len <= CacheLine * Turns(len)
         /\ CacheLine * (Turns(len) - 1) < len
         /\ aligned_size(len) = CacheLine * Turns(len)
<1>1. CacheLine \in Nat \ {0}
  BY CachesAssumption
<1> DEFINE t == Turns(len)
           ct == CacheLine * t
<1>2. Turns(len) = LineOf(len + CacheLine - 1)
  BY DEF Turns, LineOf
<1>3. len + CacheLine - 1 \in Int
  BY <1>1
<1>4. /\ t \in Int /\ ct \in Int /\ ct <= len + CacheLine - 1
      /\ len + CacheLine - 1 < ct + CacheLine
  BY <1>2, <1>3, Lines
<1>5. /\ CacheLine * (t - 1) = ct - CacheLine
      /\ t <= 0 => ct <= 0
      /\ t * CacheLine = ct
  BY <1>1, <1>4
<1> HIDE DEF t, ct
<1>6. len <= ct /\ ct - CacheLine < len /\ t > 0
  BY <1>1, <1>4, <1>5
<1> QED
  BY <1>4, <1>5, <1>6 DEF t, ct, aligned_size, Turns


\* Multiples of k are at least k apart.
LEMMA Multiples ==
  ASSUME NEW k \in Nat \ {0}, NEW a \in Int, NEW b \in Int, a < b
  PROVE  k * a + k <= k * b
OBVIOUS

\* Quotient and remainder are the only ones.
LEMMA DivModUnique ==
  ASSUME NEW k \in Nat \ {0}, NEW q \in Int, NEW r \in 0..k-1,
         NEW p \in Int, NEW s \in 0..k-1, k * q + r = k * p + s
  PROVE  q = p /\ r = s
<1> DEFINE kq == k * q
           kp == k * p
<1>1. kq \in Int /\ kp \in Int /\ kq + r = kp + s
  OBVIOUS
<1>2. (q < p => kq + k <= kp) /\ (p < q => kp + k <= kq)
  BY Multiples
<1> HIDE DEF kq, kp
<1>3. q = p
  BY <1>1, <1>2
<1> QED
  BY <1>1, <1>3 DEF kq, kp


\* Which lines the loops touch: one after another, from the region's first.
LastTurn(start, len) == IF start % CacheLine # 0 THEN Turns(len) ELSE Turns(len) - 1

LEMMA LineBytes ==
  ASSUME NEW start \in Int, NEW n \in Int
  PROVE  /\ n * CacheLine \in Int
         /\ LineOf(start + n * CacheLine) = LineOf(start) + n
<1>1. CacheLine \in Nat \ {0}
  BY CachesAssumption
<1> DEFINE q == LineOf(start)
           cq == CacheLine * q
           cn == n * CacheLine
<1>2. q \in Int /\ cq \in Int /\ cq <= start /\ start < cq + CacheLine
  BY Lines
<1> HIDE DEF q
<1>2a. cn \in Int /\ CacheLine * (q + n) = cq + cn
  BY <1>1, <1>2
<1> HIDE DEF cq, cn
<1>3. /\ CacheLine * (q + n) <= start + cn
      /\ start + cn < CacheLine * (q + n) + CacheLine
      /\ q + n \in Int /\ start + cn \in Int
  BY <1>1, <1>2, <1>2a
<1>4. LineOf(start + cn) = q + n
  BY <1>3, LineIs
<1> QED
  BY <1>2a, <1>4 DEF q, cn

LEMMA TouchedInOrder ==
  ASSUME NEW start \in Nat, NEW len \in Nat \ {0}
  PROVE  /\ LastTurn(start, len) \in Nat
         /\ Touched(start, len) = LineOf(start)..LineOf(start) + LastTurn(start, len)
<1>1. CacheLine \in Nat \ {0} /\ Turns(len) \in Nat \ {0} /\ LineOf(start) \in Int
  BY CachesAssumption, TurnsOf, Lines
<1>2. LastTurn(start, len) \in Nat
  BY <1>1 DEF LastTurn
<1> DEFINE last == LastTurn(start, len)
           q == LineOf(start)
<1>3. Touched(start, len) = {LineOf(start + n * CacheLine) : n \in 0..last}
  BY DEF Touched, LastTurn, Turns
<1>4. \A n \in 0..last : LineOf(start + n * CacheLine) = q + n
  BY <1>2, LineBytes
<1> HIDE DEF last, q
<1>5. last \in Nat /\ q \in Int
  BY <1>1, <1>2 DEF last, q
<1>6. Touched(start, len) = {q + n : n \in 0..last}
  BY <1>3, <1>4
<1>7. {q + n : n \in 0..last} = q..q + last
  <2>1. ASSUME NEW l \in q..q + last
        PROVE  l \in {q + n : n \in 0..last}
    <3>1. l - q \in 0..last /\ l = q + (l - q)
      BY <1>5
    <3> QED
      BY <3>1
  <2>2. \A n \in 0..last : q + n \in q..q + last
    BY <1>5
  <2> QED
    BY <2>1, <2>2
<1> QED
  BY <1>2, <1>6, <1>7 DEF last, q

\* No line of the region is left out, and no line but the region's is touched,
\* except the one after it when it doesn't begin with a line.
LEMMA TouchedLines ==
  ASSUME NEW start \in Nat, NEW len \in Nat \ {0}
  PROVE  /\ \A b \in start..start + len - 1 : LineOf(b) \in Touched(start, len)
         /\ \A l \in Touched(start, len) :
              \/ \E b \in start..start + len - 1 : LineOf(b) = l
              \/ start % CacheLine # 0 /\ l = LineOf(start + len - 1) + 1
<1>1. CacheLine \in Nat \ {0}
  BY CachesAssumption
<1> DEFINE q == LineOf(start)
           t == Turns(len)
           last == LastTurn(start, len)
           final == start + len - 1
           f == LineOf(final)
           cq == CacheLine * q
           ct == CacheLine * t
           cf == CacheLine * f
<1>2. /\ q \in Int /\ cq \in Int /\ cq <= start /\ start < cq + CacheLine
      /\ start % CacheLine = start - cq
  BY Lines
<1>3. /\ t \in Nat \ {0} /\ len <= ct /\ CacheLine * (t - 1) < len
  BY TurnsOf
<1>4. ct \in Int /\ CacheLine * (t - 1) = ct - CacheLine
  BY <1>1, <1>3
<1>5. final \in Int
  OBVIOUS
<1>6. f \in Int /\ cf \in Int /\ cf <= final /\ final < cf + CacheLine
  BY <1>5, Lines
<1>7. /\ CacheLine * (q + t) = cq + ct
      /\ CacheLine * (q + (t - 1)) = cq + (ct - CacheLine)
  BY <1>1, <1>2, <1>3, <1>4
<1>8. last \in Nat /\ Touched(start, len) = q..q + last
  BY TouchedInOrder
<1>9. last = IF start % CacheLine # 0 THEN t ELSE t - 1
  BY DEF LastTurn
<1>10. f <= q + last
  <2>1. CASE start % CacheLine = 0
    <3>1. cf < CacheLine * (q + (t - 1)) + CacheLine
      BY <1>1, <1>2, <1>3, <1>4, <1>6, <1>7, <2>1
    <3>2. f <= q + (t - 1)
      BY <1>1, <1>2, <1>3, <1>6, <3>1, MultiplesOfLines
    <3> QED
      BY <1>2, <1>3, <1>6, <1>9, <2>1, <3>2
  <2>2. CASE start % CacheLine # 0
    <3>1. cf < CacheLine * (q + t) + CacheLine
      BY <1>1, <1>2, <1>3, <1>4, <1>6, <1>7, <2>2
    <3>2. f <= q + t
      BY <1>1, <1>2, <1>3, <1>6, <3>1, MultiplesOfLines
    <3> QED
      BY <1>2, <1>3, <1>6, <1>9, <2>2, <3>2
  <2> QED
    BY <2>1, <2>2
<1>11. q + (t - 1) <= f
  <2>1. CacheLine * (q + (t - 1)) < cf + CacheLine
    BY <1>1, <1>2, <1>3, <1>4, <1>6, <1>7
  <2> QED
    BY <1>1, <1>2, <1>3, <1>6, <2>1, MultiplesOfLines
<1>12. ASSUME NEW b \in start..start + len - 1
       PROVE  LineOf(b) \in Touched(start, len)
  <2>1. q <= LineOf(b) /\ LineOf(b) <= f /\ LineOf(b) \in Int
    BY <1>5, InOrder, Lines
  <2> QED
    BY <1>2, <1>6, <1>8, <1>10, <2>1
<1>13. ASSUME NEW l \in q..f
       PROVE  \E b \in start..start + len - 1 : LineOf(b) = l
  <2>1. CASE l = q
    <3>1. start \in start..start + len - 1
      OBVIOUS
    <3> QED
      BY <2>1, <3>1
  <2>2. CASE l # q
    <3> DEFINE cl == CacheLine * l
    <3>1. l \in Int /\ q < l /\ l <= f
      BY <1>2, <1>6, <2>2
    <3>2. cl \in Int /\ cq + CacheLine <= cl
      BY <1>1, <1>2, <3>1, MultiplesOfLines
    <3>3. cl <= cf
      <4>1. CASE l = f
        BY <1>6, <4>1
      <4>2. CASE l < f
        BY <1>1, <1>6, <3>1, <3>2, <4>2, MultiplesOfLines
      <4> QED
        BY <1>6, <3>1, <4>1, <4>2
    <3> HIDE DEF cl
    <3>4. cl \in start..start + len - 1
      BY <1>1, <1>2, <1>6, <3>2, <3>3
    <3>5. LineOf(cl) = l
      BY <1>1, <3>1, <3>2, LineIs DEF cl
    <3> QED
      BY <3>4, <3>5
  <2> QED
    BY <2>1, <2>2
<1>14. ASSUME NEW l \in Touched(start, len)
       PROVE  \/ \E b \in start..start + len - 1 : LineOf(b) = l
              \/ start % CacheLine # 0 /\ l = f + 1
  <2>1. l \in q..f \/ (start % CacheLine # 0 /\ l = f + 1)
    <3> HIDE DEF f, q, t, last
    <3>1. l \in q..q + last
      BY <1>8
    <3> QED
      BY <1>2, <1>3, <1>6, <1>8, <1>9, <1>11, <3>1
  <2> QED
    BY <1>13, <2>1
<1> QED
  BY <1>12, <1>14

-----------------------------------------------------------------------------
(* The instruction cache's places. *)

\* As many lines as the cache has places are in all the places.
LEMMA EveryPlace ==
  ASSUME NEW start \in Nat, NEW l \in 0..MemoryLines-1
  PROVE  \E line \in Touched(start, CacheSets * CacheLine) : l \in SameSet(line)
<1>1. /\ CacheLine \in Nat \ {0} /\ CacheSets \in Nat \ {0} /\ MemoryLines \in Nat \ {0}
  BY CachesAssumption
<1> DEFINE most == CacheSets * CacheLine
           q == LineOf(start)
           t == Turns(most)
           last == LastTurn(start, most)
           k == q + ((l - q) % CacheSets)
<1>2. most \in Nat \ {0} /\ most = CacheLine * CacheSets
  BY <1>1
<1> HIDE DEF most
<1>3. /\ q \in Int /\ t \in Nat \ {0} /\ last \in Nat
      /\ Touched(start, most) = q..q + last
      /\ last = IF start % CacheLine # 0 THEN t ELSE t - 1
  <2>1. q \in Int
    BY Lines
  <2>2. t \in Nat \ {0}
    BY <1>2, TurnsOf
  <2>3. last \in Nat /\ Touched(start, most) = q..q + last
    BY <1>2, TouchedInOrder
  <2>4. last = IF start % CacheLine # 0 THEN t ELSE t - 1
    BY DEF LastTurn
  <2> QED
    BY <2>1, <2>2, <2>3, <2>4
<1>4. CacheSets <= t
  <2>1. most <= CacheLine * t
    BY <1>2, TurnsOf
  <2>2. CacheLine * CacheSets < CacheLine * t + CacheLine
    BY <1>1, <1>2, <1>3, <2>1
  <2> QED
    BY <1>1, <1>3, <2>2, MultiplesOfLines
<1>5. (l - q) % CacheSets \in 0..CacheSets-1
  BY <1>1, <1>3
<1>6. k \in Touched(start, most)
  <2> DEFINE d == (l - q) % CacheSets
  <2>1. d \in 0..CacheSets-1
    BY <1>5
  <2> HIDE DEF d, last, t, q
  <2>2. q + d \in q..q + last
    BY <1>1, <1>3, <1>4, <2>1
  <2> QED
    BY <1>3, <2>2 DEF d
<1>7. l % CacheSets = k % CacheSets
  <2>1. \A n \in Nat \ {0}, a \in Int, b \in Int : a % n = (b + ((a - b) % n)) % n
    <3> TAKE n \in Nat \ {0}, a \in Int, b \in Int
    <3>1. /\ a \div n \in Int /\ a % n \in 0..n-1 /\ a = n * (a \div n) + (a % n)
      OBVIOUS
    <3>2. /\ (a - b) \div n \in Int /\ (a - b) % n \in 0..n-1
          /\ a - b = n * ((a - b) \div n) + ((a - b) % n)
      OBVIOUS
    <3> DEFINE m == b + ((a - b) % n)
    <3>3. m \in Int
      BY <3>2
    <3>4. /\ m \div n \in Int /\ m % n \in 0..n-1 /\ m = n * (m \div n) + (m % n)
      BY <3>3
    <3> DEFINE u == a \div n
               v == (a - b) \div n
               w == m \div n
    <3>5. n * (u - v) = n * u - n * v /\ n * u \in Int /\ n * v \in Int
      BY <3>1, <3>2
    <3>6. n * (u - v) + (a % n) = n * w + (m % n)
      <4> DEFINE nu == n * u
                 nv == n * v
                 nw == n * w
                 ra == a % n
                 rd == (a - b) % n
                 rm == m % n
      <4>1. /\ nu \in Int /\ nv \in Int /\ ra \in Int /\ rd \in Int /\ rm \in Int
            /\ nw \in Int
        BY <3>1, <3>2, <3>4, <3>5
      <4>2. a = nu + ra /\ a - b = nv + rd /\ b + rd = nw + rm
        BY <3>1, <3>2, <3>4
      <4>3. n * (u - v) = nu - nv
        BY <3>5
      <4> HIDE DEF nu, nv, nw, ra, rd, rm
      <4>4. (nu - nv) + ra = nw + rm
        BY <4>1, <4>2
      <4> QED
        BY <4>3, <4>4 DEF nw, ra, rm
    <3> DEFINE p == u - v
               ra == a % n
               rm == m % n
    <3>7. /\ p \in Int /\ w \in Int /\ ra \in 0..n-1 /\ rm \in 0..n-1
          /\ n * p + ra = n * w + rm
      BY <3>1, <3>2, <3>4, <3>6
    <3> HIDE DEF p, w, ra, rm
    <3>8. ra = rm
      BY <3>7, DivModUnique
    <3> QED
      BY <3>8 DEF ra, rm
  <2>2. l \in Int
    BY <1>1
  <2> QED
    BY <1>1, <1>3, <2>1, <2>2
<1>8. l \in SameSet(k)
  BY <1>7 DEF SameSet
<1> QED
  BY <1>6, <1>8 DEF most

\* The line of a byte is one of memory's.
LEMMA LineInMemory ==
  ASSUME NEW address \in Bytes
  PROVE  LineOf(address) \in 0..MemoryLines-1 /\ address \in Int
<1>1. /\ CacheLine \in Nat \ {0} /\ MemoryLines \in Nat \ {0}
  BY CachesAssumption
<1> DEFINE q == LineOf(address)
           cq == CacheLine * q
           cm == CacheLine * MemoryLines
<1>2. cm \in Int /\ cm = MemoryLines * CacheLine
  BY <1>1
<1>3. address \in Int /\ 0 <= address /\ address < cm
  BY <1>2 DEF Bytes
<1>4. q \in Int /\ cq \in Int /\ cq <= address /\ address < cq + CacheLine
  BY <1>3, Lines
<1>5. /\ MemoryLines <= q => CacheLine * MemoryLines <= CacheLine * q
      /\ q < 0 => CacheLine * q + CacheLine <= 0
  <2>1. MemoryLines < q => CacheLine * MemoryLines + CacheLine <= CacheLine * q
    BY <1>1, <1>4, MultiplesOfLines
  <2>2. q < 0 => CacheLine * q + CacheLine <= CacheLine * 0
    BY <1>1, <1>4, MultiplesOfLines
  <2> HIDE DEF q
  <2> QED
    BY <1>1, <1>2, <1>4, <2>1, <2>2
<1> HIDE DEF q, cq
<1>6. (MemoryLines <= q => cm <= cq) /\ (q < 0 => cq + CacheLine <= 0)
  BY <1>5 DEF q, cq
<1> HIDE DEF cm
<1>7. q \in 0..MemoryLines-1
  BY <1>1, <1>2, <1>3, <1>4, <1>6
<1> QED
  BY <1>3, <1>7 DEF q

\* alt_icache_flush leaves none of the region's lines out, even when it stops
\* after as many bytes as the cache has; alt_icache_flush_all leaves none out.
LEMMA PlacesFlushed ==
  ASSUME NEW start \in Nat, NEW len \in Nat \ {0},
         NEW address \in Bytes
  PROVE  /\ address \in start..start + len - 1 =>
              LineOf(address) \in TouchedSets(start, len)
         /\ LineOf(address) \in alt_icache_flush_all
<1>1. LineOf(address) \in 0..MemoryLines-1
  BY LineInMemory
<1> DEFINE most == CacheSets * CacheLine
<1>2. most \in Nat \ {0}
  BY CachesAssumption
<1>3. ASSUME NEW s \in Nat
      PROVE  LineOf(address) \in TouchedSets(s, most)
  <2>1. PICK line \in Touched(s, most) : LineOf(address) \in SameSet(line)
    BY <1>1, EveryPlace
  <2>2. TouchedSets(s, most) = UNION {SameSet(l) : l \in Touched(s, most)}
    BY <1>2 DEF TouchedSets
  <2> QED
    BY <2>1, <2>2
<1>4. ASSUME address \in start..start + len - 1
      PROVE  LineOf(address) \in TouchedSets(start, len)
  <2>1. CASE len > most
    <3>1. TouchedSets(start, len) = TouchedSets(start, most)
      BY <1>2, <2>1 DEF TouchedSets
    <3> QED
      BY <1>3, <3>1
  <2>2. CASE ~(len > most)
    <3>1. TouchedSets(start, len) = UNION {SameSet(l) : l \in Touched(start, len)}
      BY <2>2 DEF TouchedSets
    <3>2. LineOf(address) \in Touched(start, len)
      BY <1>4, TouchedLines
    <3>3. LineOf(address) \in SameSet(LineOf(address))
      BY <1>1 DEF SameSet
    <3> QED
      BY <3>1, <3>2, <3>3
  <2> QED
    BY <2>1, <2>2
<1>5. LineOf(address) \in alt_icache_flush_all
  BY <1>3 DEF alt_icache_flush_all
<1> QED
  BY <1>4, <1>5

-----------------------------------------------------------------------------
(* What the cache's operations keep. *)

\* A record of the four is what it becomes.
LEMMA DataIs ==
  ASSUME NEW m, NEW d, NEW f, NEW w,
         DataBecomes([memFresh |-> m, dcache |-> d, dFresh |-> f, dirty |-> w])
  PROVE  /\ memFresh' = m /\ dcache' = d /\ dFresh' = f /\ dirty' = w
         /\ Now' = [memFresh |-> m, dcache |-> d, dFresh |-> f, dirty |-> w]
BY DEF DataBecomes, Now

LEMMA BackWritten ==
  ASSUME NEW lines, CleanIsSame(Now)
  PROVE  /\ CleanIsSame(WriteBack(lines))
         /\ \A address \in Bytes :
              Latest(Now, address) => Latest(WriteBack(lines), address)
         /\ WriteBack(lines) =
              [memFresh |-> WriteBack(lines).memFresh, dcache |-> dcache \ lines,
               dFresh |-> dFresh \ BytesOf(lines), dirty |-> dirty \ lines]
<1> DEFINE back == BytesOf(lines \cap dirty)
           m == (memFresh \ back) \cup (back \cap dFresh)
           c == [memFresh |-> m, dcache |-> dcache \ lines,
                 dFresh |-> dFresh \ BytesOf(lines), dirty |-> dirty \ lines]
<1>1. WriteBack(lines) = c
  BY DEF WriteBack
<1>2. /\ c.memFresh = m /\ c.dcache = dcache \ lines
      /\ c.dFresh = dFresh \ BytesOf(lines) /\ c.dirty = dirty \ lines
  OBVIOUS
<1>3. /\ dirty \subseteq dcache
      /\ \A address \in dFresh \cap Bytes :
           /\ LineOf(address) \in dcache
           /\ LineOf(address) \in dirty \/ address \in memFresh
  BY DEF CleanIsSame, Now
<1>4. \A address \in Bytes :
        /\ address \in BytesOf(lines) <=> LineOf(address) \in lines
        /\ address \in back <=> LineOf(address) \in lines /\ LineOf(address) \in dirty
  BY DEF BytesOf
<1>5. \A address \in Bytes :
        Latest(Now, address) <=>
          IF LineOf(address) \in dcache THEN address \in dFresh ELSE address \in memFresh
  BY DEF Latest, Now
<1>6. \A address \in Bytes :
        Latest(c, address) <=>
          IF LineOf(address) \in c.dcache THEN address \in c.dFresh ELSE address \in c.memFresh
  BY DEF Latest
<1> HIDE DEF c, back
<1>7. CleanIsSame(c)
  <2>1. c.dirty \subseteq c.dcache
    BY <1>2, <1>3
  <2>2. ASSUME NEW address \in c.dFresh \cap Bytes
        PROVE  /\ LineOf(address) \in c.dcache
               /\ LineOf(address) \in c.dirty \/ address \in c.memFresh
    BY <1>2, <1>3, <1>4, <2>2
  <2> QED
    BY <2>1, <2>2 DEF CleanIsSame
<1>8. ASSUME NEW address \in Bytes, Latest(Now, address)
      PROVE  Latest(c, address)
  BY <1>2, <1>3, <1>4, <1>5, <1>6, <1>8
<1> QED
  BY <1>1, <1>2, <1>7, <1>8 DEF c

LEMMA Discarded ==
  ASSUME NEW lines, CleanIsSame(Now)
  PROVE  /\ CleanIsSame(Discard(lines))
         /\ \A address \in Bytes :
              LineOf(address) \notin lines \cap dcache /\ Latest(Now, address) =>
                Latest(Discard(lines), address)
<1> DEFINE c == [memFresh |-> memFresh, dcache |-> dcache \ lines,
                 dFresh |-> dFresh \ BytesOf(lines), dirty |-> dirty \ lines]
<1>1. Discard(lines) = c
  BY DEF Discard
<1>2. /\ c.memFresh = memFresh /\ c.dcache = dcache \ lines
      /\ c.dFresh = dFresh \ BytesOf(lines) /\ c.dirty = dirty \ lines
  OBVIOUS
<1>3. /\ dirty \subseteq dcache
      /\ \A address \in dFresh \cap Bytes :
           /\ LineOf(address) \in dcache
           /\ LineOf(address) \in dirty \/ address \in memFresh
  BY DEF CleanIsSame, Now
<1>4. \A address \in Bytes :
        address \in BytesOf(lines) <=> LineOf(address) \in lines
  BY DEF BytesOf
<1>5. \A address \in Bytes :
        Latest(Now, address) <=>
          IF LineOf(address) \in dcache THEN address \in dFresh ELSE address \in memFresh
  BY DEF Latest, Now
<1>6. \A address \in Bytes :
        Latest(c, address) <=>
          IF LineOf(address) \in c.dcache THEN address \in c.dFresh ELSE address \in c.memFresh
  BY DEF Latest
<1> HIDE DEF c
<1>7. CleanIsSame(c)
  <2>1. c.dirty \subseteq c.dcache
    BY <1>2, <1>3
  <2>2. ASSUME NEW address \in c.dFresh \cap Bytes
        PROVE  /\ LineOf(address) \in c.dcache
               /\ LineOf(address) \in c.dirty \/ address \in c.memFresh
    BY <1>2, <1>3, <1>4, <2>2
  <2> QED
    BY <2>1, <2>2 DEF CleanIsSame
<1>8. ASSUME NEW address \in Bytes,
             LineOf(address) \notin lines \cap dcache, Latest(Now, address)
      PROVE  Latest(c, address)
  BY <1>2, <1>4, <1>5, <1>6, <1>8
<1> QED
  BY <1>1, <1>7, <1>8

LEMMA Allocated ==
  ASSUME NEW line, CleanIsSame(Now)
  PROVE  /\ CleanIsSame(Allocate(line))
         /\ \A address \in Bytes :
              Latest(Now, address) => Latest(Allocate(line), address)
         /\ Allocate(line).dcache \subseteq dcache \cup {line}
         /\ line \in Allocate(line).dcache
         /\ Allocate(line) =
              [memFresh |-> Allocate(line).memFresh, dcache |-> Allocate(line).dcache,
               dFresh |-> Allocate(line).dFresh, dirty |-> Allocate(line).dirty]
<1>1. CASE line \in dcache
  <2>1. Allocate(line) = Now
    BY <1>1 DEF Allocate, Now
  <2>2. Now.dcache = dcache
    BY DEF Now
  <2>3. Now = [memFresh |-> Now.memFresh, dcache |-> Now.dcache,
               dFresh |-> Now.dFresh, dirty |-> Now.dirty]
    BY DEF Now
  <2> QED
    BY <1>1, <2>1, <2>2, <2>3
<1>2. CASE line \notin dcache
  <2> DEFINE lines == SameSet(line) \ {line}
             b == WriteBack(lines)
             c == [memFresh |-> b.memFresh, dcache |-> b.dcache \cup {line},
                   dFresh |-> b.dFresh \cup (BytesOf({line}) \cap b.memFresh),
                   dirty |-> b.dirty]
  <2>1. /\ CleanIsSame(b)
        /\ \A address \in Bytes : Latest(Now, address) => Latest(b, address)
        /\ b = [memFresh |-> b.memFresh, dcache |-> dcache \ lines,
                dFresh |-> dFresh \ BytesOf(lines), dirty |-> dirty \ lines]
    BY BackWritten
  <2>2. b.dcache = dcache \ lines
    BY <2>1
  <2>3. Allocate(line) = c
    BY <1>2, <2>1 DEF Allocate
  <2> HIDE DEF b
  <2>4. /\ c.memFresh = b.memFresh /\ c.dcache = b.dcache \cup {line}
        /\ c.dFresh = b.dFresh \cup (BytesOf({line}) \cap b.memFresh)
        /\ c.dirty = b.dirty
    OBVIOUS
  <2>5. \A address \in Bytes : address \in BytesOf({line}) <=> LineOf(address) = line
    BY DEF BytesOf
  <2>6. line \notin b.dcache
    BY <1>2, <2>2
  <2> HIDE DEF c, lines
  <2>7. CleanIsSame(c)
    <3>1. c.dirty \subseteq c.dcache
      BY <2>1, <2>4 DEF CleanIsSame
    <3>2. ASSUME NEW address \in c.dFresh \cap Bytes
          PROVE  /\ LineOf(address) \in c.dcache
                 /\ LineOf(address) \in c.dirty \/ address \in c.memFresh
      <4>1. CASE LineOf(address) = line
        BY <2>1, <2>4, <2>6, <3>2, <4>1 DEF CleanIsSame
      <4>2. CASE LineOf(address) # line
        BY <2>1, <2>4, <2>5, <3>2, <4>2 DEF CleanIsSame
      <4> QED
        BY <4>1, <4>2
    <3> QED
      BY <3>1, <3>2 DEF CleanIsSame
  <2>8. ASSUME NEW address \in Bytes, Latest(Now, address)
        PROVE  Latest(c, address)
    <3>1. Latest(b, address)
      BY <2>1, <2>8
    <3> QED
      BY <2>4, <2>5, <2>6, <3>1 DEF Latest
  <2>9. c = [memFresh |-> c.memFresh, dcache |-> c.dcache,
             dFresh |-> c.dFresh, dirty |-> c.dirty]
    BY <2>4 DEF c
  <2> QED
    BY <2>2, <2>3, <2>4, <2>7, <2>8, <2>9
<1> QED
  BY <1>1, <1>2

-----------------------------------------------------------------------------
(* The region. *)

LEMMA RegionFacts ==
  ASSUME RegionInv
  PROVE  /\ region.start \in Nat /\ region.len \in Nat \ {0}
         /\ region.kind \in {"shared", "code", "free", "uncached"}
         /\ region.owner \in {"program", "master", "executes"}
         /\ InRegion \subseteq Bytes
         /\ InRegion \cap LineAfter = {}
         /\ LineAfter \subseteq Bytes
<1>1. /\ region.start \in Nat /\ region.len \in Nat \ {0}
      /\ region.kind \in {"shared", "code", "free", "uncached"}
      /\ region.owner \in {"program", "master", "executes"}
      /\ region.start + region.len <= MemoryLines * CacheLine
  BY DEF RegionInv
<1> DEFINE cm == MemoryLines * CacheLine
           s == region.start
           n == region.len
           last == s + n - 1
<1>2. cm \in Int
  BY CachesAssumption
<1>3. InRegion \subseteq Bytes
  <2> HIDE DEF s, n, cm
  <2>1. s \in Nat /\ n \in Nat \ {0} /\ s + n <= cm
    BY <1>1 DEF s, n, cm
  <2>2. s..s + n - 1 \subseteq 0..cm-1
    BY <1>2, <2>1
  <2> QED
    BY <2>2 DEF InRegion, Bytes, s, n, cm
<1>4. ASSUME NEW address \in InRegion, address \in LineAfter
      PROVE  FALSE
  <2>1. LineOf(address) = LineOf(last) + 1
    BY <1>4 DEF LineAfter, BytesOf
  <2>2. address \in Int /\ last \in Int /\ address <= last
    BY <1>1 DEF InRegion
  <2>3. LineOf(address) <= LineOf(last)
    BY <2>2, InOrder
  <2>4. LineOf(address) \in Int /\ LineOf(last) \in Int
    BY <2>2, Lines
  <2> HIDE DEF last
  <2> QED
    BY <2>1, <2>3, <2>4
<1>5. LineAfter \subseteq Bytes
  BY DEF LineAfter, BytesOf
<1> QED
  BY <1>1, <1>3, <1>4, <1>5

\* If the region begins and ends with a line, its lines have only its bytes.
LEMMA OnlyItsBytes ==
  ASSUME RegionInv, WholeLines(region),
         NEW address \in Bytes, LineOf(address) \in RegionLines
  PROVE  address \in InRegion
<1>1. CacheLine \in Nat \ {0}
  BY CachesAssumption
<1>2. PICK b \in InRegion : LineOf(b) = LineOf(address)
  BY DEF RegionLines
<1> DEFINE s == region.start
           n == region.len
           q == LineOf(address)
           cq == CacheLine * q
           ls == LineOf(s)
           ln == LineOf(n)
           cs == CacheLine * ls
           cn == CacheLine * ln
<1>3. s \in Nat /\ n \in Nat \ {0} /\ b \in s..s + n - 1
  BY <1>2, RegionFacts DEF InRegion
<1>4. address \in Int
  BY LineInMemory
<1>5. /\ q \in Int /\ cq \in Int /\ cq <= address /\ address < cq + CacheLine
      /\ cq <= b /\ b < cq + CacheLine
  BY <1>2, <1>3, <1>4, Lines
<1>6. ls \in Int /\ cs \in Int /\ s = cs
  <2>1. s % CacheLine = 0 /\ s % CacheLine = s - cs
    BY <1>3, Lines DEF WholeLines
  <2>2. ls \in Int /\ cs \in Int
    BY <1>3, Lines
  <2> HIDE DEF s, cs
  <2>3. s = cs
    BY <1>3, <2>1, <2>2
  <2> QED
    BY <2>2, <2>3 DEF s, cs
<1>7. ln \in Int /\ cn \in Int /\ n = cn
  <2>1. n % CacheLine = 0 /\ n % CacheLine = n - cn
    BY <1>3, Lines DEF WholeLines
  <2>2. ln \in Int /\ cn \in Int
    BY <1>3, Lines
  <2> HIDE DEF n, cn
  <2>3. n = cn
    BY <1>3, <2>1, <2>2
  <2> QED
    BY <2>2, <2>3 DEF n, cn
<1>8. CacheLine * (ls + ln) = cs + cn
  BY <1>1, <1>6, <1>7
<1>9. /\ ls = q => cs = cq
      /\ ls < q => cs + CacheLine <= cq
      /\ q < ls => cq + CacheLine <= cs
      /\ ls + ln = q => cs + cn = cq
      /\ ls + ln < q => (cs + cn) + CacheLine <= cq
      /\ q < ls + ln => cq + CacheLine <= cs + cn
  <2> DEFINE both == ls + ln
  <2>1. both \in Int /\ CacheLine * both = cs + cn
    BY <1>6, <1>7, <1>8
  <2>2. /\ ls < q => cs + CacheLine <= cq
        /\ q < ls => cq + CacheLine <= cs
    BY <1>1, <1>5, <1>6, MultiplesOfLines
  <2> HIDE DEF both
  <2>3. /\ both < q => CacheLine * both + CacheLine <= cq
        /\ q < both => cq + CacheLine <= CacheLine * both
    BY <1>1, <1>5, <2>1, MultiplesOfLines
  <2>4. both = q => CacheLine * both = cq
    OBVIOUS
  <2> QED
    BY <2>1, <2>2, <2>3, <2>4 DEF both
<1> HIDE DEF s, n, q, cq, ls, ln, cs, cn
<1>10. cs <= cq /\ cq + CacheLine <= cs + cn
  BY <1>1, <1>3, <1>5, <1>6, <1>7, <1>9
<1>11. address \in s..s + n - 1
  BY <1>1, <1>3, <1>4, <1>5, <1>6, <1>7, <1>10
<1> QED
  BY <1>11 DEF InRegion, s, n

\* What the program may use isn't in the region's lines while they are away.
LEMMA HandsOff ==
  ASSUME RegionInv, NEW address \in Bytes, MayUse(address), Away
  PROVE  address \notin InRegion /\ LineOf(address) \notin RegionLines
<1>1. address \notin InRegion
  BY DEF MayUse, Away
<1>2. WholeLines(region) \/ LineOf(address) \notin RegionLines
  BY <1>1 DEF MayUse, RegionLines
<1> QED
  BY <1>1, <1>2, OnlyItsBytes

\* The same region, for a while.
LEMMA SameRegion ==
  ASSUME RegionInv, region'.start = region.start, region'.len = region.len
  PROVE  InRegion' = InRegion /\ RegionLines' = RegionLines /\ LineAfter' = LineAfter
<1>1. InRegion' = InRegion
  BY DEF InRegion
<1>2. RegionLines' = RegionLines
  BY <1>1 DEF RegionLines
<1>3. LineAfter' = LineAfter
  BY DEF LineAfter, BytesOf, Bytes, LineOf
<1> QED
  BY <1>1, <1>2, <1>3

LEMMA Handed ==
  ASSUME RegionInv, NEW owner \in {"program", "master", "executes"}, HandOver(owner),
         owner = "master" => region.kind = "shared",
         owner = "executes" => region.kind = "code"
  PROVE  /\ RegionInv' /\ region'.kind = region.kind /\ region'.owner = owner
         /\ InRegion' = InRegion /\ RegionLines' = RegionLines /\ LineAfter' = LineAfter
<1>1. region' = [start |-> region.start, len |-> region.len,
                 kind |-> region.kind, owner |-> owner]
  BY DEF HandOver, RegionInv
<1>2. /\ region'.start = region.start /\ region'.len = region.len
      /\ region'.kind = region.kind /\ region'.owner = owner
  BY <1>1
<1>3. RegionInv'
  BY <1>1, <1>2, RegionFacts DEF RegionInv
<1> QED
  BY <1>2, <1>3, SameRegion

-----------------------------------------------------------------------------
(* The steps. *)

LEMMA WithByte ==
  ASSUME NEW address, NEW line,
         NEW c, c = [memFresh |-> c.memFresh, dcache |-> c.dcache,
                     dFresh |-> c.dFresh, dirty |-> c.dirty]
  PROVE  [c EXCEPT !.memFresh = @ \ {address}, !.dFresh = @ \cup {address},
                   !.dirty = @ \cup {line}]
         = [memFresh |-> c.memFresh \ {address}, dcache |-> c.dcache,
            dFresh |-> c.dFresh \cup {address}, dirty |-> c.dirty \cup {line}]
<1> DEFINE n == c.memFresh \ {address}
           d == c.dcache
           f == c.dFresh
           w == c.dirty
           g == f \cup {address}
           x == w \cup {line}
           c1 == [c EXCEPT !.memFresh = n]
           c2 == [c1 EXCEPT !.dFresh = g]
           c3 == [c2 EXCEPT !.dirty = x]
<1>1. c = [memFresh |-> c.memFresh, dcache |-> d, dFresh |-> f, dirty |-> w]
  OBVIOUS
<1>2. [c EXCEPT !.memFresh = c.memFresh \ {address}, !.dFresh = c.dFresh \cup {address},
                !.dirty = c.dirty \cup {line}] = c3
  BY Zenon
<1> HIDE DEF n, g, x, d, f, w
<1>3. c1 = [memFresh |-> n, dcache |-> d, dFresh |-> f, dirty |-> w]
  BY <1>1
<1> HIDE DEF c1
<1>4. c2 = [memFresh |-> n, dcache |-> d, dFresh |-> g, dirty |-> w]
  BY <1>3
<1> HIDE DEF c2
<1>5. c3 = [memFresh |-> n, dcache |-> d, dFresh |-> g, dirty |-> x]
  BY <1>4
<1> QED
  BY <1>2, <1>5 DEF n, d, f, g, w, x

\* What the cache becomes keeps what that keeps.
LEMMA CacheBecomes ==
  ASSUME NEW e, Now' = e, CleanIsSame(e), LineAfter' = LineAfter,
         \A address \in Bytes \ LineAfter : Latest(e, address)
  PROVE  CleanIsSame(Now)' /\ LatestKept'
<1>1. CleanIsSame(Now)' = CleanIsSame(Now')
  BY DEF CleanIsSame, Bytes, LineOf
<1>2. \A address : Latest(Now, address)' = Latest(Now', address)
  BY DEF Latest, LineOf
<1>3. LatestKept'
  BY <1>2 DEF LatestKept, Bytes
<1> QED
  BY <1>1, <1>3

LEMMA CpuWritesKeeps == CachesInv /\ CpuWrites => CachesInv'
<1> SUFFICES ASSUME CachesInv, CpuWrites
             PROVE  CachesInv'
  OBVIOUS
<1>1. RegionInv /\ CleanIsSame(Now) /\ CodeInv /\ LatestKept /\ AwayKept
  BY DEF CachesInv
<1>2. PICK address \in Bytes :
        /\ MayUse(address)
        /\ DataBecomes([Allocate(LineOf(address)) EXCEPT
                          !.memFresh = @ \ {address}, !.dFresh = @ \cup {address},
                          !.dirty = @ \cup {LineOf(address)}])
        /\ iFresh' = iFresh \ {address} /\ UNCHANGED <<region, icache>>
  BY DEF CpuWrites
<1> DEFINE line == LineOf(address)
           c == Allocate(line)
           e == [memFresh |-> c.memFresh \ {address}, dcache |-> c.dcache,
                 dFresh |-> c.dFresh \cup {address}, dirty |-> c.dirty \cup {line}]
<1>3. /\ CleanIsSame(c)
      /\ \A other \in Bytes : Latest(Now, other) => Latest(c, other)
      /\ c.dcache \subseteq dcache \cup {line} /\ line \in c.dcache
      /\ c = [memFresh |-> c.memFresh, dcache |-> c.dcache,
              dFresh |-> c.dFresh, dirty |-> c.dirty]
  BY <1>1, Allocated
<1> HIDE DEF c
<1>4. [c EXCEPT !.memFresh = @ \ {address}, !.dFresh = @ \cup {address},
                !.dirty = @ \cup {line}] = e
  BY <1>3, WithByte
<1>5. DataBecomes(e)
  BY <1>2, <1>4 DEF c
<1>6. Now' = e /\ dcache' = c.dcache
  BY <1>5, DataIs
<1>7. /\ e.memFresh = c.memFresh \ {address} /\ e.dcache = c.dcache
      /\ e.dFresh = c.dFresh \cup {address} /\ e.dirty = c.dirty \cup {line}
  OBVIOUS
<1> HIDE DEF e
<1>8. /\ RegionInv' /\ InRegion' = InRegion /\ RegionLines' = RegionLines
      /\ LineAfter' = LineAfter /\ (Away' <=> Away)
  <2>1. RegionInv'
    BY <1>1, <1>2 DEF RegionInv
  <2>2. Away' <=> Away
    BY <1>2 DEF Away
  <2> QED
    BY <1>1, <1>2, <2>1, <2>2, SameRegion
<1>9. CleanIsSame(e)
  <2>1. e.dirty \subseteq e.dcache
    BY <1>3, <1>7 DEF CleanIsSame
  <2>2. ASSUME NEW other \in e.dFresh \cap Bytes
        PROVE  /\ LineOf(other) \in e.dcache
               /\ LineOf(other) \in e.dirty \/ other \in e.memFresh
    <3>1. CASE other = address
      BY <1>3, <1>7, <3>1
    <3>2. CASE other # address
      BY <1>3, <1>7, <2>2, <3>2 DEF CleanIsSame
    <3> QED
      BY <3>1, <3>2
  <2> QED
    BY <2>1, <2>2 DEF CleanIsSame
<1>10. ASSUME NEW other \in Bytes \ LineAfter
       PROVE  Latest(e, other)
  <2>1. Latest(c, other)
    BY <1>1, <1>3 DEF LatestKept
  <2> QED
    BY <1>3, <1>7, <2>1 DEF Latest
<1>11. AwayKept'
  <2> SUFFICES ASSUME Away
               PROVE  RegionLines \cap dcache' = {}
    BY <1>8 DEF AwayKept
  <2>1. line \notin RegionLines
    BY <1>1, <1>2, HandsOff
  <2> QED
    BY <1>1, <1>3, <1>6, <2>1 DEF AwayKept
<1>12. CodeInv'
  <2> SUFFICES ASSUME region.owner = "executes",
                      NEW other \in InRegion, LineOf(other) \in icache
               PROVE  other \in iFresh'
    BY <1>2, <1>8 DEF CodeInv, LineOf
  <2>1. address \notin InRegion
    BY <1>1, <1>2, HandsOff DEF Away
  <2>2. other \in iFresh
    BY <1>1 DEF CodeInv
  <2> QED
    BY <1>2, <2>1, <2>2
<1>13. CleanIsSame(Now)' /\ LatestKept'
  BY <1>6, <1>8, <1>9, <1>10, CacheBecomes
<1> QED
  BY <1>8, <1>11, <1>12, <1>13 DEF CachesInv

LEMMA CpuReadsKeeps == CachesInv /\ CpuReads => CachesInv'
<1> SUFFICES ASSUME CachesInv, CpuReads
             PROVE  CachesInv'
  OBVIOUS
<1>1. RegionInv /\ CleanIsSame(Now) /\ CodeInv /\ LatestKept /\ AwayKept
  BY DEF CachesInv
<1>2. PICK address \in Bytes :
        /\ MayUse(address) /\ DataBecomes(Allocate(LineOf(address)))
        /\ UNCHANGED <<region, icache, iFresh>>
  BY DEF CpuReads, codeVars
<1> DEFINE c == Allocate(LineOf(address))
<1>3. /\ CleanIsSame(c)
      /\ \A other \in Bytes : Latest(Now, other) => Latest(c, other)
      /\ c.dcache \subseteq dcache \cup {LineOf(address)}
      /\ c = [memFresh |-> c.memFresh, dcache |-> c.dcache,
              dFresh |-> c.dFresh, dirty |-> c.dirty]
  BY <1>1, Allocated
<1>4. DataBecomes(c)
  BY <1>2
<1> HIDE DEF c
<1>5. Now' = c /\ dcache' = c.dcache
  BY <1>3, <1>4 DEF DataBecomes, Now
<1>6. /\ RegionInv' /\ InRegion' = InRegion /\ RegionLines' = RegionLines
      /\ LineAfter' = LineAfter /\ (Away' <=> Away)
  <2>1. RegionInv' /\ (Away' <=> Away)
    BY <1>1, <1>2 DEF RegionInv, Away
  <2> QED
    BY <1>1, <1>2, <2>1, SameRegion
<1>7. AwayKept'
  <2> SUFFICES ASSUME Away
               PROVE  RegionLines \cap dcache' = {}
    BY <1>6 DEF AwayKept
  <2>1. LineOf(address) \notin RegionLines
    BY <1>1, <1>2, HandsOff
  <2> QED
    BY <1>1, <1>3, <1>5, <2>1 DEF AwayKept
<1>8. CodeInv'
  BY <1>1, <1>2, <1>6 DEF CodeInv, LineOf
<1>9. CleanIsSame(Now)' /\ LatestKept'
  BY <1>1, <1>3, <1>5, <1>6, CacheBecomes DEF LatestKept
<1> QED
  BY <1>6, <1>7, <1>8, <1>9 DEF CachesInv

LEMMA MasterWritesKeeps == CachesInv /\ MasterWrites => CachesInv'
<1> SUFFICES ASSUME CachesInv, MasterWrites
             PROVE  CachesInv'
  OBVIOUS
<1>1. RegionInv /\ CleanIsSame(Now) /\ CodeInv /\ LatestKept /\ AwayKept
  BY DEF CachesInv
<1>2. PICK address \in InRegion :
        /\ \/ region.owner = "master"
           \/ region.kind = "uncached" /\ region.owner = "program"
        /\ memFresh' = memFresh \cup {address}
        /\ dFresh' = dFresh \ {address} /\ iFresh' = iFresh \ {address}
        /\ region' = region /\ dcache' = dcache /\ dirty' = dirty /\ icache' = icache
  BY DEF MasterWrites
<1> DEFINE e == [memFresh |-> memFresh \cup {address}, dcache |-> dcache,
                 dFresh |-> dFresh \ {address}, dirty |-> dirty]
<1>3. Now' = e
  BY <1>2 DEF Now
<1>4. /\ e.memFresh = memFresh \cup {address} /\ e.dcache = dcache
      /\ e.dFresh = dFresh \ {address} /\ e.dirty = dirty
  OBVIOUS
<1> HIDE DEF e
<1>5. LineOf(address) \notin dcache
  BY <1>1, <1>2 DEF AwayKept, Away, RegionLines
<1>6. CleanIsSame(e)
  BY <1>1, <1>4 DEF CleanIsSame, Now
<1>7. ASSUME NEW other \in Bytes \ LineAfter
      PROVE  Latest(e, other)
  BY <1>1, <1>4, <1>5 DEF LatestKept, Latest, Now
<1>8. /\ RegionInv' /\ InRegion' = InRegion /\ RegionLines' = RegionLines
      /\ LineAfter' = LineAfter /\ (Away' <=> Away)
  <2>1. RegionInv' /\ (Away' <=> Away)
    BY <1>1, <1>2 DEF RegionInv, Away
  <2> QED
    BY <1>1, <1>2, <2>1, SameRegion
<1>9. CodeInv'
  BY <1>2 DEF CodeInv
<1>10. AwayKept'
  BY <1>1, <1>2, <1>8 DEF AwayKept
<1>11. CleanIsSame(Now)' /\ LatestKept'
  BY <1>3, <1>6, <1>7, <1>8, CacheBecomes
<1> QED
  BY <1>8, <1>9, <1>10, <1>11 DEF CachesInv

LEMMA SameData ==
  ASSUME UNCHANGED dataVars
  PROVE  Now' = Now /\ CleanIsSame(Now)' = CleanIsSame(Now)
         /\ (LineAfter' = LineAfter => LatestKept' = LatestKept)
BY DEF dataVars, Now, CleanIsSame, LatestKept, Latest, Bytes, LineOf

LEMMA FetchKeeps == CachesInv /\ Fetch => CachesInv'
<1> SUFFICES ASSUME CachesInv, Fetch
             PROVE  CachesInv'
  OBVIOUS
<1>1. RegionInv /\ CleanIsSame(Now) /\ CodeInv /\ LatestKept /\ AwayKept
  BY DEF CachesInv
<1>2. PICK address \in InRegion :
        /\ region.owner = "executes"
        /\ icache' = (icache \ SameSet(LineOf(address))) \cup {LineOf(address)}
        /\ iFresh' = (iFresh \ BytesOf(SameSet(LineOf(address))))
                       \cup (BytesOf({LineOf(address)}) \cap memFresh)
        /\ region' = region /\ UNCHANGED dataVars
  BY DEF Fetch
<1>3. /\ RegionInv' /\ InRegion' = InRegion /\ RegionLines' = RegionLines
      /\ LineAfter' = LineAfter /\ (Away' <=> Away)
  <2>1. RegionInv' /\ (Away' <=> Away)
    BY <1>1, <1>2 DEF RegionInv, Away
  <2> QED
    BY <1>1, <1>2, <2>1, SameRegion
<1>4. ASSUME NEW other \in InRegion, LineOf(other) \in icache'
      PROVE  other \in iFresh'
  <2>1. other \in Bytes /\ other \notin LineAfter
    BY <1>1, RegionFacts
  <2>2. CASE LineOf(other) = LineOf(address)
    <3>1. LineOf(other) \notin dcache
      BY <1>1, <1>2 DEF AwayKept, Away, RegionLines
    <3>2. other \in memFresh
      BY <1>1, <2>1, <3>1 DEF LatestKept, Latest, Now
    <3>3. other \in BytesOf({LineOf(address)})
      BY <2>1, <2>2 DEF BytesOf
    <3> QED
      BY <1>2, <3>2, <3>3
  <2>3. CASE LineOf(other) # LineOf(address)
    <3>1. LineOf(other) \in icache /\ LineOf(other) \notin SameSet(LineOf(address))
      BY <1>2, <1>4, <2>3
    <3>2. other \in iFresh
      BY <1>1, <1>2, <3>1 DEF CodeInv
    <3>3. other \notin BytesOf(SameSet(LineOf(address)))
      BY <3>1 DEF BytesOf
    <3> QED
      BY <1>2, <3>2, <3>3
  <2> QED
    BY <2>2, <2>3
<1>5. CodeInv'
  BY <1>3, <1>4 DEF CodeInv, LineOf
<1>6. AwayKept'
  BY <1>1, <1>2, <1>3 DEF AwayKept, dataVars
<1>7. CleanIsSame(Now)' /\ LatestKept'
  BY <1>1, <1>2, <1>3, SameData
<1> QED
  BY <1>3, <1>5, <1>6, <1>7 DEF CachesInv

\* What the functions that flush have in common: the lines go, written back.
LEMMA FlushedBack ==
  ASSUME NEW lines, CleanIsSame(Now), LatestKept, DataBecomes(WriteBack(lines)),
         LineAfter' = LineAfter
  PROVE  CleanIsSame(Now)' /\ LatestKept' /\ dcache' = dcache \ lines
<1> DEFINE c == WriteBack(lines)
<1>1. /\ CleanIsSame(c)
      /\ \A address \in Bytes : Latest(Now, address) => Latest(c, address)
      /\ c = [memFresh |-> c.memFresh, dcache |-> dcache \ lines,
              dFresh |-> dFresh \ BytesOf(lines), dirty |-> dirty \ lines]
  BY BackWritten
<1> HIDE DEF c
<1>2. DataBecomes([memFresh |-> c.memFresh, dcache |-> dcache \ lines,
                   dFresh |-> dFresh \ BytesOf(lines), dirty |-> dirty \ lines])
  BY <1>1 DEF c
<1>3. Now' = c /\ dcache' = dcache \ lines
  BY <1>1, <1>2, DataIs
<1>4. CleanIsSame(Now)' /\ LatestKept'
  BY <1>1, <1>3, CacheBecomes DEF LatestKept
<1> QED
  BY <1>3, <1>4

LEMMA RegionTouched ==
  ASSUME RegionInv
  PROVE  RegionLines \subseteq Touched(region.start, region.len)
BY RegionFacts, TouchedLines DEF RegionLines, InRegion

LEMMA alt_dcache_flushKeeps == CachesInv /\ alt_dcache_flush => CachesInv'
<1> SUFFICES ASSUME CachesInv, alt_dcache_flush
             PROVE  CachesInv'
  OBVIOUS
<1>1. RegionInv /\ CleanIsSame(Now) /\ LatestKept
  BY DEF CachesInv
<1>2. /\ region.kind = "shared" /\ HandOver("master")
      /\ DataBecomes(WriteBack(Touched(region.start, region.len)))
  BY DEF alt_dcache_flush
<1>3. /\ RegionInv' /\ region'.owner = "master"
      /\ RegionLines' = RegionLines /\ LineAfter' = LineAfter
  BY <1>1, <1>2, Handed
<1>4. /\ CleanIsSame(Now)' /\ LatestKept'
      /\ dcache' = dcache \ Touched(region.start, region.len)
  BY <1>1, <1>2, <1>3, FlushedBack
<1>5. AwayKept'
  BY <1>1, <1>3, <1>4, RegionTouched DEF AwayKept
<1>6. CodeInv'
  BY <1>3 DEF CodeInv
<1> QED
  BY <1>3, <1>4, <1>5, <1>6 DEF CachesInv

LEMMA alt_dcache_flush_no_writebackKeeps ==
  CachesInv /\ alt_dcache_flush_no_writeback => CachesInv'
<1> SUFFICES ASSUME CachesInv, alt_dcache_flush_no_writeback
             PROVE  CachesInv'
  OBVIOUS
<1>1. RegionInv /\ CleanIsSame(Now) /\ LatestKept /\ AwayKept
  BY DEF CachesInv
<1> DEFINE lines == Touched(region.start, region.len)
           c == Discard(lines)
<1>2. /\ region.kind = "shared" /\ region.owner = "master" /\ HandOver("program")
      /\ DataBecomes(c)
  BY DEF alt_dcache_flush_no_writeback
<1>3. /\ RegionInv' /\ region'.owner = "program" /\ region'.kind = "shared"
      /\ RegionLines' = RegionLines /\ LineAfter' = LineAfter
  BY <1>1, <1>2, Handed
<1>4. Now' = c
  BY <1>2 DEF Discard, DataBecomes, Now
<1>5. /\ CleanIsSame(c)
      /\ \A address \in Bytes :
           LineOf(address) \notin lines \cap dcache /\ Latest(Now, address) =>
             Latest(c, address)
  BY <1>1, Discarded
<1>6. ASSUME NEW address \in Bytes \ LineAfter
      PROVE  LineOf(address) \notin lines \cap dcache
  <2> SUFFICES ASSUME LineOf(address) \in lines
               PROVE  LineOf(address) \notin dcache
    OBVIOUS
  <2>1. region.start \in Nat /\ region.len \in Nat \ {0}
    BY <1>1, RegionFacts
  <2>2. \/ \E b \in region.start..region.start + region.len - 1 :
             LineOf(b) = LineOf(address)
        \/ /\ region.start % CacheLine # 0
           /\ LineOf(address) = LineOf(region.start + region.len - 1) + 1
    BY <2>1, TouchedLines
  <2>3. LineOf(address) \in RegionLines
    BY <1>6, <2>2 DEF RegionLines, InRegion, LineAfter, BytesOf
  <2> QED
    BY <1>1, <1>2, <2>3 DEF AwayKept, Away
<1> HIDE DEF c, lines
<1>7. CleanIsSame(Now)' /\ LatestKept'
  BY <1>1, <1>3, <1>4, <1>5, <1>6, CacheBecomes DEF LatestKept
<1>8. AwayKept' /\ CodeInv'
  BY <1>3 DEF AwayKept, Away, CodeInv
<1> QED
  BY <1>3, <1>7, <1>8 DEF CachesInv

LEMMA alt_icache_flushKeeps == CachesInv /\ alt_icache_flush => CachesInv'
<1> SUFFICES ASSUME CachesInv, alt_icache_flush
             PROVE  CachesInv'
  OBVIOUS
<1>1. RegionInv /\ CleanIsSame(Now) /\ LatestKept
  BY DEF CachesInv
<1>2. /\ region.kind = "code" /\ HandOver("executes")
      /\ DataBecomes(WriteBack(Touched(region.start, region.len)))
      /\ icache' = icache \ TouchedSets(region.start, region.len)
  BY DEF alt_icache_flush
<1>3. /\ RegionInv' /\ region'.owner = "executes" /\ InRegion' = InRegion
      /\ RegionLines' = RegionLines /\ LineAfter' = LineAfter
  BY <1>1, <1>2, Handed
<1>4. /\ CleanIsSame(Now)' /\ LatestKept'
      /\ dcache' = dcache \ Touched(region.start, region.len)
  BY <1>1, <1>2, <1>3, FlushedBack
<1>5. AwayKept'
  BY <1>1, <1>3, <1>4, RegionTouched DEF AwayKept
<1>6. ASSUME NEW address \in InRegion
      PROVE  LineOf(address) \notin icache'
  <2>1. address \in Bytes /\ region.start \in Nat /\ region.len \in Nat \ {0}
    BY <1>1, RegionFacts
  <2>2. LineOf(address) \in TouchedSets(region.start, region.len)
    BY <2>1, PlacesFlushed DEF InRegion
  <2> QED
    BY <1>2, <2>2
<1>7. CodeInv'
  BY <1>3, <1>6 DEF CodeInv, LineOf
<1> QED
  BY <1>3, <1>4, <1>5, <1>7 DEF CachesInv

LEMMA alt_loadKeeps == CachesInv /\ alt_load => CachesInv'
<1> SUFFICES ASSUME CachesInv, alt_load
             PROVE  CachesInv'
  OBVIOUS
<1>1. RegionInv /\ CleanIsSame(Now) /\ LatestKept
  BY DEF CachesInv
<1>2. /\ region.kind = "code" /\ HandOver("executes")
      /\ DataBecomes(WriteBack(dcache))
      /\ icache' = icache \ alt_icache_flush_all
  BY DEF alt_load, alt_dcache_flush_all
<1>3. /\ RegionInv' /\ region'.owner = "executes" /\ InRegion' = InRegion
      /\ RegionLines' = RegionLines /\ LineAfter' = LineAfter
  BY <1>1, <1>2, Handed
<1>4. CleanIsSame(Now)' /\ LatestKept' /\ dcache' = dcache \ dcache
  BY <1>1, <1>2, <1>3, FlushedBack
<1>5. AwayKept'
  BY <1>4 DEF AwayKept
<1>6. ASSUME NEW address \in InRegion
      PROVE  LineOf(address) \notin icache'
  <2>1. address \in Bytes /\ region.start \in Nat /\ region.len \in Nat \ {0}
    BY <1>1, RegionFacts
  <2>2. LineOf(address) \in alt_icache_flush_all
    BY <2>1, PlacesFlushed
  <2> QED
    BY <1>2, <2>2
<1>7. CodeInv'
  BY <1>3, <1>6 DEF CodeInv, LineOf
<1> QED
  BY <1>3, <1>4, <1>5, <1>7 DEF CachesInv

LEMMA RewriteKeeps == CachesInv /\ Rewrite => CachesInv'
<1> SUFFICES ASSUME CachesInv, Rewrite
             PROVE  CachesInv'
  OBVIOUS
<1>1. RegionInv /\ CleanIsSame(Now) /\ LatestKept
  BY DEF CachesInv
<1>2. region.owner = "executes" /\ HandOver("program") /\ UNCHANGED dataVars
  BY DEF Rewrite
<1>3. /\ RegionInv' /\ region'.owner = "program" /\ region'.kind = "code"
      /\ LineAfter' = LineAfter
  BY <1>1, <1>2, Handed DEF RegionInv
<1>4. CleanIsSame(Now)' /\ LatestKept'
  BY <1>1, <1>2, <1>3, SameData
<1>5. AwayKept' /\ CodeInv'
  BY <1>3 DEF AwayKept, Away, CodeInv
<1> QED
  BY <1>3, <1>4, <1>5 DEF CachesInv

\* The piece that memalign gives begins with a line.
LEMMA alt_uncached_mallocKeeps == CachesInv /\ alt_uncached_malloc => CachesInv'
<1> SUFFICES ASSUME CachesInv, alt_uncached_malloc
             PROVE  CachesInv'
  OBVIOUS
<1>1. RegionInv /\ CleanIsSame(Now) /\ LatestKept
  BY DEF CachesInv
<1> DEFINE size == aligned_size(region.len)
<1>2. /\ region.kind = "free" /\ region.start % CacheLine = 0
      /\ region.start + size - 1 \in Bytes
      /\ region' = [region EXCEPT !.len = size, !.kind = "uncached"]
      /\ DataBecomes(WriteBack(Touched(region.start, size)))
  BY DEF alt_uncached_malloc
<1>3. /\ region.start \in Nat /\ region.len \in Nat \ {0} /\ region.owner = "program"
  BY <1>1, <1>2 DEF RegionInv
<1>4. size \in Nat \ {0}
  <2>1. CacheLine \in Nat \ {0}
    BY CachesAssumption
  <2>2. Turns(region.len) \in Nat \ {0} /\ size = CacheLine * Turns(region.len)
    BY <1>3, TurnsOf
  <2> QED
    BY <2>1, <2>2
<1> HIDE DEF size
<1>5. region' = [start |-> region.start, len |-> size,
                 kind |-> "uncached", owner |-> "program"]
  BY <1>1, <1>2, <1>3 DEF RegionInv
<1>6. /\ region'.start = region.start /\ region'.len = size
      /\ region'.kind = "uncached" /\ region'.owner = "program"
  BY <1>5
<1>7. region.start + size <= MemoryLines * CacheLine
  <2> DEFINE cm == MemoryLines * CacheLine
  <2>1. cm \in Int /\ region.start + size - 1 \in 0..cm-1
    BY <1>2, CachesAssumption DEF Bytes
  <2> HIDE DEF cm
  <2>2. region.start + size <= cm
    BY <1>3, <1>4, <2>1
  <2> QED
    BY <2>2 DEF cm
<1>8. RegionInv'
  BY <1>3, <1>4, <1>5, <1>6, <1>7 DEF RegionInv
<1>9. LineAfter' = LineAfter
  BY <1>2, <1>6 DEF LineAfter
<1>10. /\ CleanIsSame(Now)' /\ LatestKept'
       /\ dcache' = dcache \ Touched(region.start, size)
  BY <1>1, <1>2, <1>9, FlushedBack
<1>11. RegionLines' \subseteq Touched(region.start, size)
  <2>1. \A b \in region.start..region.start + size - 1 :
          LineOf(b) \in Touched(region.start, size)
    BY <1>3, <1>4, TouchedLines
  <2>2. InRegion' = region.start..region.start + size - 1
    BY <1>6 DEF InRegion
  <2> QED
    BY <2>1, <2>2 DEF RegionLines, LineOf
<1>12. AwayKept'
  BY <1>10, <1>11 DEF AwayKept
<1>13. CodeInv'
  BY <1>6 DEF CodeInv
<1> QED
  BY <1>8, <1>10, <1>12, <1>13 DEF CachesInv

\* The region is only called something else.
LEMMA Renamed ==
  ASSUME CachesInv, region.kind = "uncached", NEW kind \in {"shared", "free"},
         region' = [region EXCEPT !.kind = kind], UNCHANGED <<dataVars, codeVars>>
  PROVE  CachesInv'
<1>1. RegionInv /\ CleanIsSame(Now) /\ LatestKept
  BY DEF CachesInv
<1>2. region' = [start |-> region.start, len |-> region.len,
                 kind |-> kind, owner |-> region.owner]
  BY <1>1 DEF RegionInv
<1>3. /\ region'.start = region.start /\ region'.len = region.len
      /\ region'.kind = kind /\ region'.owner = region.owner
  BY <1>2
<1>4. region.owner = "program"
  BY <1>1 DEF RegionInv
<1>5. RegionInv'
  BY <1>1, <1>2, <1>3, <1>4 DEF RegionInv
<1>6. LineAfter' = LineAfter
  BY <1>1, <1>3, SameRegion
<1>7. CleanIsSame(Now)' /\ LatestKept'
  BY <1>1, <1>6, SameData
<1>8. AwayKept' /\ CodeInv'
  BY <1>3, <1>4 DEF AwayKept, Away, CodeInv
<1> QED
  BY <1>5, <1>7, <1>8 DEF CachesInv

-----------------------------------------------------------------------------
(* At the start the caches are empty. *)

LEMMA CachesStart == CachesInit => CachesInv
<1> SUFFICES ASSUME CachesInit
             PROVE  CachesInv
  OBVIOUS
<1>1. PICK r \in CacheRegions, kind \in {"shared", "code", "free"} :
        region = [start |-> r[1], len |-> r[2], kind |-> kind, owner |-> "program"]
  BY DEF CachesInit
<1>2. memFresh = Bytes /\ dcache = {} /\ dFresh = {} /\ dirty = {}
  BY DEF CachesInit
<1>3. r[1] \in Nat /\ r[2] \in Nat \ {0} /\ r[1] + r[2] <= MemoryLines * CacheLine
  BY CachesAssumption
<1>4. /\ region.start = r[1] /\ region.len = r[2]
      /\ region.kind = kind /\ region.owner = "program"
  BY <1>1
<1>5. RegionInv
  BY <1>1, <1>3, <1>4 DEF RegionInv
<1>6. CleanIsSame(Now) /\ LatestKept
  BY <1>2 DEF CleanIsSame, Now, LatestKept, Latest
<1>7. AwayKept /\ CodeInv
  BY <1>2, <1>4 DEF AwayKept, CodeInv
<1> QED
  BY <1>5, <1>6, <1>7 DEF CachesInv

LEMMA CachesStep == CachesInv /\ [CachesNext]_cachesVars => CachesInv'
<1> SUFFICES ASSUME CachesInv, [CachesNext]_cachesVars
             PROVE  CachesInv'
  OBVIOUS
<1>1. CASE alt_remap_cached
  BY <1>1, Renamed DEF alt_remap_cached
<1>2. CASE alt_uncached_free
  BY <1>2, Renamed DEF alt_uncached_free
<1>3. CASE UNCHANGED cachesVars
  BY <1>3 DEF cachesVars, dataVars, codeVars, CachesInv, RegionInv, CleanIsSame, Now,
              LatestKept, Latest, LineAfter, AwayKept, Away, RegionLines, InRegion,
              CodeInv, BytesOf, Bytes, LineOf
<1> QED
  BY <1>1, <1>2, <1>3, CpuWritesKeeps, CpuReadsKeeps, MasterWritesKeeps, FetchKeeps,
     alt_dcache_flushKeeps, alt_dcache_flush_no_writebackKeeps, alt_icache_flushKeeps,
     alt_loadKeeps, RewriteKeeps, alt_uncached_mallocKeeps
  DEF CachesNext

\* The caches hold what memory doesn't and nothing of what is handed over, in
\* every state of the program, the other master and the processor.
THEOREM CachesInvariant == CachesSpec => []CachesInv
BY CachesStart, CachesStep, PTL DEF CachesSpec

\* What a byte's reader finds there is what was written last, whether the reader
\* is the program, the other master or the processor that executes it, and no
\* value is lost but in the line after an unaligned region.
THEOREM AlwaysCoherent == CachesSpec => []CachesCoherent
<1>1. CachesInv => CachesCoherent
  <2> SUFFICES ASSUME CachesInv
               PROVE  CachesCoherent
    OBVIOUS
  <2>1. RegionInv /\ CleanIsSame(Now) /\ CodeInv /\ LatestKept /\ AwayKept
    BY DEF CachesInv
  <2>2. InRegion \subseteq Bytes /\ InRegion \cap LineAfter = {}
    BY <2>1, RegionFacts
  <2>3. \A address \in Bytes \ LineAfter :
          IF LineOf(address) \in dcache THEN address \in dFresh ELSE address \in memFresh
    BY <2>1 DEF LatestKept, Latest, Now
  <2>4. \A address \in InRegion : LineOf(address) \in RegionLines
    BY DEF RegionLines
  <2>5. Away => InRegion \subseteq memFresh /\ RegionLines \cap dcache = {}
    BY <2>1, <2>2, <2>3, <2>4 DEF AwayKept
  <2>6. dirty \subseteq dcache
    BY <2>1 DEF CleanIsSame, Now
  <2> QED
    BY <2>1, <2>2, <2>3, <2>5, <2>6 DEF CachesCoherent, Away, CodeInv, RegionLines
<1> QED
  BY <1>1, CachesInvariant, PTL
=============================================================================
