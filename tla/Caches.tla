-------------------------------- MODULE Caches --------------------------------
(***************************************************************************)
(* The HAL's functions for a processor with caches, against a data cache   *)
(* that writes back and an instruction cache, both direct mapped, and      *)
(* another master of the memory: the program hands it a region by          *)
(* alt_dcache_flush and takes it back by alt_dcache_flush_no_writeback, or  *)
(* has got the region from alt_uncached_malloc, or writes code there and   *)
(* executes it.  (The processor of this system has no caches: most of the  *)
(* functions are empty there, and alt_dcache_flush_no_writeback, which     *)
(* isn't, would go on for ever with lines of no bytes.)                    *)
(*                                                                         *)
(* Of the data only this is kept: which copies of a byte hold what was     *)
(* written to it last.                                                     *)
(***************************************************************************)
EXTENDS Integers, FiniteSets

CONSTANTS
  CacheLine,          \* NIOS2_DCACHE_LINE_SIZE, NIOS2_ICACHE_LINE_SIZE, a power of 2
  CacheSets,          \* lines in each cache
  MemoryLines,
  CacheRegions        \* of <<start, length>>, what the program asks for

ASSUME CachesAssumption ==
  /\ CacheLine \in Nat \ {0} /\ CacheSets \in Nat \ {0}
  /\ MemoryLines \in Nat \ {0}
  /\ \A r \in CacheRegions :
       r[1] \in Nat /\ r[2] \in Nat \ {0} /\ r[1] + r[2] <= MemoryLines * CacheLine

VARIABLES
  region,             \* [start, len, kind, owner]
  memFresh,           \* the bytes of which memory has the last value
  dcache, dFresh,     \* lines in the data cache; bytes it has the last value of
  dirty,              \* lines that were written to
  icache, iFresh      \* the same for the instruction cache

dataVars == <<memFresh, dcache, dFresh, dirty>>
codeVars == <<icache, iFresh>>
cachesVars == <<region, dataVars, codeVars>>

Bytes == 0..MemoryLines * CacheLine - 1
LineOf(address) == address \div CacheLine
BytesOf(lines) == {address \in Bytes : LineOf(address) \in lines}
SameSet(line) == {l \in 0..MemoryLines-1 : l % CacheSets = line % CacheSets}

InRegion == region.start..region.start + region.len - 1
WholeLines(r) == r.start % CacheLine = 0 /\ r.len % CacheLine = 0

-----------------------------------------------------------------------------
(* Which lines the loops touch. *)

\* Mutant: the loop alone.
Touched_Aligned(start, len) ==
  {LineOf(start + n * CacheLine) : n \in 0..((len + CacheLine - 1) \div CacheLine) - 1}

\* One address in every CacheLine bytes, and one more unless the first was the
\* beginning of a line.
Touched(start, len) ==
  LET turns == (len + CacheLine - 1) \div CacheLine
  IN  {LineOf(start + n * CacheLine) :
         n \in 0..(IF start % CacheLine # 0 THEN turns ELSE turns - 1)}

\* Instructions are flushed by their place in the cache, whatever is there.
TouchedSets(start, len) ==
  LET most == CacheSets * CacheLine
      lines == Touched(start, IF len > most THEN most ELSE len)
  IN  UNION {SameSet(line) : line \in lines}

-----------------------------------------------------------------------------
(* The data cache: what the instructions and the accesses do to it. *)

\* The lines are written back if they are dirty, and leave the cache.
WriteBack(lines) ==
  LET back == BytesOf(lines \cap dirty)
  IN  [memFresh |-> (memFresh \ back) \cup (back \cap dFresh),
       dcache |-> dcache \ lines, dFresh |-> dFresh \ BytesOf(lines),
       dirty |-> dirty \ lines]

\* They leave the cache as they are.
Discard(lines) ==
  [memFresh |-> memFresh, dcache |-> dcache \ lines,
   dFresh |-> dFresh \ BytesOf(lines), dirty |-> dirty \ lines]

\* A line comes in, and the one in its place goes.
Allocate(line) ==
  LET c == WriteBack(SameSet(line) \ {line})
  IN  IF line \in dcache THEN [memFresh |-> memFresh, dcache |-> dcache,
                               dFresh |-> dFresh, dirty |-> dirty]
      ELSE [c EXCEPT !.dcache = @ \cup {line},
                     !.dFresh = @ \cup (BytesOf({line}) \cap c.memFresh)]

DataBecomes(c) ==
  /\ memFresh' = c.memFresh /\ dcache' = c.dcache
  /\ dFresh' = c.dFresh /\ dirty' = c.dirty

\* What the program may use: its own bytes, and the region's while it has it.  If
\* the region does not begin and end with a line, the program keeps its hands off
\* the rest of those lines.
MayUse(address) ==
  IF address \in InRegion THEN region.owner = "program" /\ region.kind # "uncached"
  ELSE WholeLines(region) \/ LineOf(address) \notin {LineOf(b) : b \in InRegion}

CpuWrites ==
  \E address \in Bytes :
    LET c == Allocate(LineOf(address))
    IN  /\ MayUse(address)
        /\ DataBecomes([c EXCEPT !.memFresh = @ \ {address},
                              !.dFresh = @ \cup {address},
                              !.dirty = @ \cup {LineOf(address)}])
        /\ iFresh' = iFresh \ {address}
        /\ UNCHANGED <<region, icache>>

CpuReads ==
  \E address \in Bytes :
    /\ MayUse(address)
    /\ DataBecomes(Allocate(LineOf(address)))
    /\ UNCHANGED <<region, codeVars>>

\* Past the cache, by either master.
MasterWrites ==
  \E address \in InRegion :
    /\ \/ region.owner = "master"
       \/ region.kind = "uncached" /\ region.owner = "program"
    /\ memFresh' = memFresh \cup {address}
    /\ dFresh' = dFresh \ {address} /\ iFresh' = iFresh \ {address}
    /\ UNCHANGED <<region, dcache, dirty, icache>>

\* An instruction of the region's code.
Fetch ==
  \E address \in InRegion :
    LET line == LineOf(address)
    IN  /\ region.owner = "executes" /\ line \notin icache
        /\ icache' = (icache \ SameSet(line)) \cup {line}
        /\ iFresh' = (iFresh \ BytesOf(SameSet(line)))
                       \cup (BytesOf({line}) \cap memFresh)
        /\ UNCHANGED <<region, dataVars>>

-----------------------------------------------------------------------------
(* The program's calls. *)

HandOver(owner) == region' = [region EXCEPT !.owner = owner]

alt_dcache_flush ==
  /\ region.kind = "shared" /\ region.owner = "program"
  /\ DataBecomes(WriteBack(Touched(region.start, region.len)))
  /\ HandOver("master")
  /\ UNCHANGED codeVars

alt_dcache_flush_no_writeback ==
  /\ region.kind = "shared" /\ region.owner = "master"
  /\ DataBecomes(Discard(Touched(region.start, region.len)))
  /\ HandOver("program")
  /\ UNCHANGED codeVars

\* New code: the data cache first, then the instruction cache.
alt_icache_flush ==
  /\ region.kind = "code" /\ region.owner = "program"
  /\ DataBecomes(WriteBack(Touched(region.start, region.len)))
  /\ icache' = icache \ TouchedSets(region.start, region.len)
  /\ iFresh' = iFresh \ BytesOf(TouchedSets(region.start, region.len))
  /\ HandOver("executes")

alt_dcache_flush_all == WriteBack(dcache)
alt_icache_flush_all == TouchedSets(0, CacheSets * CacheLine)

\* The sections that the program has copied with CpuWrites are executed.
alt_load ==
  /\ region.kind = "code" /\ region.owner = "program"
  /\ DataBecomes(alt_dcache_flush_all)
  /\ icache' = icache \ alt_icache_flush_all
  /\ iFresh' = iFresh \ BytesOf(alt_icache_flush_all)
  /\ HandOver("executes")

\* The program writes the next version of the code.
Rewrite ==
  /\ region.owner = "executes"
  /\ HandOver("program")
  /\ UNCHANGED <<dataVars, codeVars>>

aligned_size(size) == ((size + CacheLine - 1) \div CacheLine) * CacheLine

\* memalign gives a piece that begins with a line, which alt_dcache_flush removes
\* from the cache.
alt_uncached_malloc ==
  /\ region.kind = "free"
  /\ region.start % CacheLine = 0
  /\ region.start + aligned_size(region.len) - 1 \in Bytes
  /\ region' = [region EXCEPT !.len = aligned_size(@), !.kind = "uncached"]
  /\ DataBecomes(WriteBack(Touched(region.start, aligned_size(region.len))))
  /\ UNCHANGED codeVars

\* The same bytes, with the data cache from now on.
alt_remap_cached ==
  /\ region.kind = "uncached"
  /\ region' = [region EXCEPT !.kind = "shared"]
  /\ UNCHANGED <<dataVars, codeVars>>

alt_uncached_free ==
  /\ region.kind = "uncached"
  /\ region' = [region EXCEPT !.kind = "free"]
  /\ UNCHANGED <<dataVars, codeVars>>

CachesInit ==
  /\ \E r \in CacheRegions, kind \in {"shared", "code", "free"} :
       region = [start |-> r[1], len |-> r[2], kind |-> kind, owner |-> "program"]
  /\ memFresh = Bytes
  /\ dcache = {} /\ dFresh = {} /\ dirty = {}
  /\ icache = {} /\ iFresh = {}

CachesNext ==
  \/ CpuWrites \/ CpuReads \/ MasterWrites \/ Fetch
  \/ alt_dcache_flush \/ alt_dcache_flush_no_writeback
  \/ alt_icache_flush \/ alt_load \/ Rewrite
  \/ alt_uncached_malloc \/ alt_remap_cached \/ alt_uncached_free

CachesSpec == CachesInit /\ [][CachesNext]_cachesVars

-----------------------------------------------------------------------------
(* Properties. *)

\* What the unaligned form of alt_dcache_flush_no_writeback throws away beyond
\* the region: the line after it.
LineAfter ==
  IF region.start % CacheLine = 0 THEN {}
  ELSE BytesOf({LineOf(region.start + region.len - 1) + 1})

\* Who reads, reads what was written last: the other master in the region it was
\* handed, with nothing in the cache that could be written over it later; the
\* program what it reads from the cache; the processor the code it executes;
\* and either of them an uncached region, which never comes into the cache.  No
\* value that was written is lost, except from the line after an unaligned
\* region, which the function's extra turn may discard.
CachesCoherent ==
  LET lines == {LineOf(b) : b \in InRegion}
      Latest(address) == IF LineOf(address) \in dcache THEN address \in dFresh
                                                       ELSE address \in memFresh
  IN  /\ region.owner = "master" => /\ InRegion \subseteq memFresh
                                    /\ WholeLines(region) => lines \cap dirty = {}
      /\ region.kind = "uncached" => InRegion \subseteq memFresh /\ lines \cap dcache = {}
      /\ region.owner # "master" /\ region.kind # "uncached" =>
           \A address \in InRegion : Latest(address)
      /\ region.owner = "executes" =>
           \A address \in InRegion : LineOf(address) \in icache => address \in iFresh
      /\ \A address \in Bytes \ (InRegion \cup LineAfter) : Latest(address)
=============================================================================
