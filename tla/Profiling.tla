------------------------------- MODULE Profiling -------------------------------
(***************************************************************************)
(* The HAL's profiler: mcount (alt_mcount.S) counts every call from a      *)
(* caller (from_pc) to a function (self_pc) in lists that alt_gmon.c makes *)
(* longer, and samples the program counter at every tick.  Both take their *)
(* memory from sbrk, as malloc does.                                       *)
(*                                                                         *)
(* The program and a handler that interrupts it anywhere run the same      *)
(* code; nothing interrupts the handler, so each of its calls is one step. *)
(* Entries are only ever put at a list's head: a search that has read the  *)
(* head sees the list of that moment and is one step, too.  The functions  *)
(* are those of one hash bucket.  Lists are written oldest first and       *)
(* searched from their end; a pointer is a position, and 0 is NULL.        *)
(***************************************************************************)
EXTENDS Integers, Sequences, SequencesExt, FiniteSetsExt

CONSTANTS
  SelfPcs, FromPcs,          \* functions, and where they are called from
  MCOUNT_SLAB_INCREMENT,     \* 1020
  EntryBytes,                \* of a mcount_fn_entry, and of a mcount_fn_arc (12)
  heap_start, heap_limit,    \* of the linker script
  Increments,                \* what malloc asks sbrk for
  TextBytes,                 \* etext - stext
  PCSAMPLE_BYTES_PER_BUCKET, \* 32
  ProgramCalls, HandlerCalls \* bounds: calls of mcount

ASSUME ProfilingAssumption ==
  /\ EntryBytes \in Nat /\ EntryBytes % 4 = 0
  /\ MCOUNT_SLAB_INCREMENT \in Nat /\ MCOUNT_SLAB_INCREMENT >= EntryBytes
  /\ heap_start \in Nat /\ heap_limit \in Nat /\ Increments \subseteq Nat
  /\ TextBytes \in Nat \ {0} /\ PCSAMPLE_BYTES_PER_BUCKET \in Nat \ {0}

VARIABLES
  mem,                       \* heap_end, mcount_slab_ptr, mcount_slab_size; and,
                             \* as history, the pieces of memory in use and
                             \* whether there was ever no room
  fns,                       \* self_pc of the functions' entries
  arcs,                      \* [fn, from_pc, count]
  pcsample_need_init, s_pcsamples,
  clock,                     \* the timer is going, and its rate is known
  mcount,                    \* the program's call, and what it has in registers
  called,                    \* history: calls made, by whom
  bucket                     \* history: where the last sample went

listVars == <<mem, fns, arcs, called>>
samplerVars == <<pcsample_need_init, s_pcsamples, clock, bucket>>
profilingVars == <<listVars, samplerVars, mcount>>

Pairs == SelfPcs \X FromPcs

Idle == [pc |-> "idle"]

NoRoom == -1                 \* what sbrk returns then

ProfilingInit ==
  /\ mem = [heap_end |-> heap_start, slab_ptr |-> 0, slab_size |-> 0,
            pieces |-> {}, short |-> FALSE]
  /\ fns = <<>> /\ arcs = <<>>
  /\ pcsample_need_init = TRUE /\ s_pcsamples = 0
  /\ clock = FALSE
  /\ mcount = Idle
  /\ called = [who \in {"program", "handler"} |-> [p \in Pairs |-> 0]]
  /\ bucket = 0

-----------------------------------------------------------------------------
(* Memory: mem after a call, and what sbrk returns. *)

Aligned(address) == ((address + 3) \div 4) * 4

\* Interrupts are disabled; the stack's limit is checked in other builds only.
ALT_SBRK(m, incr) ==
  LET from == Aligned(m.heap_end)
  IN  IF from + incr > heap_limit
      THEN [data |-> NoRoom, mem |-> [m EXCEPT !.heap_end = from, !.short = TRUE]]
      ELSE [data |-> from, mem |-> [m EXCEPT !.heap_end = from + incr]]

InUse(m, data, size) == [m EXCEPT !.pieces = @ \cup {<<data, data + size>>}]

\* Mutant: a slab is used up only when nothing is left of it.
mcount_allocate_ToTheEnd(m, size) ==
  LET block == ALT_SBRK(m, MCOUNT_SLAB_INCREMENT)
      slab  == IF m.slab_size = 0
               THEN [block.mem EXCEPT !.slab_ptr = block.data,
                                      !.slab_size = MCOUNT_SLAB_INCREMENT]
               ELSE m
  IN  InUse([slab EXCEPT !.slab_ptr = @ + size,
                         !.slab_size = IF size > @ THEN 0 ELSE @ - size],
            slab.slab_ptr, size)

\* From a new slab, whether or not sbrk has one, when the old one is too short.
mcount_allocate(m, size) ==
  LET block == ALT_SBRK(m, MCOUNT_SLAB_INCREMENT)
      slab  == IF size > m.slab_size
               THEN [block.mem EXCEPT !.slab_ptr = block.data,
                                      !.slab_size = MCOUNT_SLAB_INCREMENT]
               ELSE m
  IN  InUse([slab EXCEPT !.slab_ptr = @ + size, !.slab_size = @ - size],
            slab.slab_ptr, size)

malloc ==
  \E incr \in Increments :
    LET block == ALT_SBRK(mem, incr)
    IN  /\ block.data # NoRoom
        /\ mem' = InUse(block.mem, block.data, incr)
        /\ UNCHANGED <<fns, arcs, called, samplerVars, mcount>>

-----------------------------------------------------------------------------
(* The lists and the sampler. *)

FindFn(self_pc) == SelectLastInSeq(fns, LAMBDA f : f = self_pc)

FindArc(fn_entry, from_pc) ==
  SelectLastInSeq(arcs, LAMBDA a : a.fn = fn_entry /\ a.from_pc = from_pc)

\* __mcount_record from where it has disabled interrupts: an entry for the
\* function unless the search found one, and an arc.
Record(m, self_pc, from_pc, fn_entry) ==
  LET entry == IF fn_entry = 0 THEN mcount_allocate(m, EntryBytes) ELSE m
  IN  /\ mem' = mcount_allocate(entry, EntryBytes)
      /\ fns' = IF fn_entry = 0 THEN Append(fns, self_pc) ELSE fns
      /\ arcs' = Append(arcs, [fn |-> IF fn_entry = 0 THEN Len(fns) + 1 ELSE fn_entry,
                               from_pc |-> from_pc, count |-> 1])

Histogram == TextBytes \div PCSAMPLE_BYTES_PER_BUCKET

\* nios2_pcsample_init fails until the timer is going.  Then it takes memory for
\* the histogram and starts the sampler's alarm.
SamplerInit ==
  /\ pcsample_need_init' = ~clock
  /\ s_pcsamples' = IF clock THEN ALT_SBRK(mem, 2 * Histogram).data ELSE s_pcsamples
  /\ UNCHANGED <<clock, bucket>>

AfterSamplerInit ==
  LET block == ALT_SBRK(mem, 2 * Histogram)
  IN  IF clock THEN InUse(block.mem, block.data, 2 * Histogram) ELSE mem

Counted(who, self_pc, from_pc) ==
  called' = [called EXCEPT ![who][<<self_pc, from_pc>>] = @ + 1]

Made(who) == MapThenSumSet(LAMBDA p : called[who][p], Pairs)

-----------------------------------------------------------------------------
(* The program's mcount, instruction by instruction where it matters. *)

SearchFn ==
  /\ mcount = Idle /\ Made("program") < ProgramCalls
  /\ \E p \in Pairs :
       mcount' = [pc |-> IF FindFn(p[1]) = 0 THEN "record" ELSE "search",
                  self_pc |-> p[1], from_pc |-> p[2], fn_entry |-> FindFn(p[1])]
  /\ UNCHANGED <<listVars, samplerVars>>

SearchArc ==
  /\ mcount.pc = "search"
  /\ LET arc == FindArc(mcount.fn_entry, mcount.from_pc)
     IN  mcount' = IF arc = 0 THEN [mcount EXCEPT !.pc = "record"]
                   ELSE [pc |-> "store", arc |-> arc, r2 |-> arcs[arc].count + 1,
                         self_pc |-> mcount.self_pc, from_pc |-> mcount.from_pc]
  /\ UNCHANGED <<listVars, samplerVars>>

\* .Lfound_arc: the count was loaded before, and is stored now.
StoreCount ==
  /\ mcount.pc = "store"
  /\ arcs' = [arcs EXCEPT ![mcount.arc].count = mcount.r2]
  /\ Counted("program", mcount.self_pc, mcount.from_pc)
  /\ mcount' = Idle
  /\ UNCHANGED <<mem, fns, samplerVars>>

\* if (pcsample_need_init)
TestInit ==
  /\ mcount.pc = "record"
  /\ mcount' = [mcount EXCEPT !.pc = IF pcsample_need_init THEN "init" ELSE "insert"]
  /\ UNCHANGED <<listVars, samplerVars>>

InitSampler ==
  /\ mcount.pc = "init"
  /\ SamplerInit
  /\ mem' = AfterSamplerInit
  /\ mcount' = [mcount EXCEPT !.pc = "insert"]
  /\ UNCHANGED <<fns, arcs, called>>

Insert ==
  /\ mcount.pc = "insert"
  /\ Record(mem, mcount.self_pc, mcount.from_pc, mcount.fn_entry)
  /\ Counted("program", mcount.self_pc, mcount.from_pc)
  /\ mcount' = Idle
  /\ UNCHANGED samplerVars

-----------------------------------------------------------------------------
(* Interrupts. *)

\* A function of the handler, or of a callback, is called: the whole of mcount.
HandlerMcount ==
  \E p \in Pairs :
    LET fn_entry == FindFn(p[1])
        arc == FindArc(fn_entry, p[2])
    IN  /\ Made("handler") < HandlerCalls
        /\ IF arc # 0
           THEN /\ arcs' = [arcs EXCEPT ![arc].count = @ + 1]
                /\ UNCHANGED <<mem, fns, samplerVars>>
           ELSE IF pcsample_need_init
           THEN /\ SamplerInit
                /\ Record(AfterSamplerInit, p[1], p[2], fn_entry)
           ELSE /\ Record(mem, p[1], p[2], fn_entry)
                /\ UNCHANGED samplerVars
        /\ Counted("handler", p[1], p[2])
        /\ UNCHANGED mcount

\* nios2_pcsample, with the program counter anywhere in the text.
nios2_pcsample ==
  /\ s_pcsamples # 0
  /\ \E pc \in 0..TextBytes-1 :
       bucket' = pc \div PCSAMPLE_BYTES_PER_BUCKET
  /\ UNCHANGED <<listVars, pcsample_need_init, s_pcsamples, clock, mcount>>

TimerStarts ==
  /\ ~clock
  /\ clock' = TRUE
  /\ UNCHANGED <<listVars, pcsample_need_init, s_pcsamples, bucket, mcount>>

\* The bounds are reached.
ProfilingEnds ==
  /\ Made("program") = ProgramCalls /\ mcount = Idle
  /\ UNCHANGED profilingVars

ProfilingNext ==
  \/ SearchFn \/ SearchArc \/ StoreCount \/ TestInit \/ InitSampler \/ Insert
  \/ HandlerMcount \/ nios2_pcsample \/ TimerStarts
  \/ malloc \/ ProfilingEnds

ProfilingSpec == ProfilingInit /\ [][ProfilingNext]_profilingVars

-----------------------------------------------------------------------------
(* Properties. *)

Copies(self_pc, from_pc) ==
  {i \in DOMAIN arcs : fns[arcs[i].fn] = self_pc /\ arcs[i].from_pc = from_pc}

\* Whenever the handler comes between the program's search and what it does with
\* the result: every call of the program is counted once in one of an arc's
\* copies, which the host adds up; only calls of the handler can be lost, when
\* the program stores the count it had loaded before.  There are two entries of
\* a function at most, and two copies of an arc in each.
\* As long as sbrk has had room, which nobody looks at, no two pieces of memory
\* overlap.  A sample falls into the histogram, unless the last bucket is one
\* that the text fills in part only: there is no room for that one.
ProfileKept ==
  /\ \A p \in Pairs :
       LET recorded == MapThenSumSet(LAMBDA i : arcs[i].count, Copies(p[1], p[2]))
       IN  /\ called["program"][p] <= recorded
           /\ recorded <= called["program"][p] + called["handler"][p]
           /\ called["handler"][p] = 0 => recorded = called["program"][p]
  /\ \A f \in SelfPcs : Cardinality({i \in DOMAIN fns : fns[i] = f}) <= 2
  /\ \A i \in DOMAIN arcs :
       Cardinality({j \in DOMAIN arcs : /\ arcs[j].fn = arcs[i].fn
                                        /\ arcs[j].from_pc = arcs[i].from_pc}) <= 2
  /\ ~mem.short =>
       \A p, q \in mem.pieces :
         p # q => (p[2] <= q[1] \/ q[2] <= p[1]) /\ p[2] <= mem.heap_end
  /\ TextBytes % PCSAMPLE_BYTES_PER_BUCKET = 0 => bucket < Histogram
=============================================================================
