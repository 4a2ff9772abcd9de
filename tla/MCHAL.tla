-------------------------------- MODULE MCHAL --------------------------------
(* The HAL: what it does about files, interrupts and time, and what else it  *)
(* does for the program and the processor, its profiler, log, exceptions,    *)
(* lists of devices and caches.  "part" says which of them runs; the others  *)
(* stay as they begin, where no fairness asks anything of them.              *)
EXTENDS FileDescriptors, Interrupts, Clock, Profiling, Logging, Exceptions,
        Devices, Caches, TLC

VARIABLE part

CONSTANTS a, b              \* threads

MCDevices == {"null", "uart", "other"}
MCFileSystems == {"fs"}

MCTimesOfDay == [tv_sec : {0, 1, 5}, tv_usec : {0, 3, 7}]

\* Signed with and without zeros and a width, and unsigned in every base.
MCConversions ==
  {[zero |-> z, width |-> w, base |-> 10, signed |-> TRUE] :
     z \in BOOLEAN, w \in {-1, 5}}
  \cup {[zero |-> FALSE, width |-> -1, base |-> n, signed |-> FALSE] :
          n \in {8, 10, 16}}

MCTexts == {<<>>, <<"a">>, <<"a", "EOT", "b">>, <<"EOT", "a", "b", "c", "d", "e">>}

MCProgram == <<"plain", "divide", "misaligned", "illegal">>

\* A root, names with a common beginning, and a mount point written both ways.
MCDeviceNames == {<<"/">>, <<"/", "f">>, <<"/", "f", "/">>, <<"/", "f", "g">>}
MCFileNames == {<<"/", "f">>, <<"/", "f", "/">>, <<"/", "f", "g">>,
                <<"/", "f", "/", "g">>, <<"f">>}
MCNoName == <<"NULL">>

\* Whole lines, parts of one and more than the cache.
MCCacheRegions == {<<0, 4>>, <<2, 2>>, <<1, 2>>, <<3, 1>>, <<2, 5>>, <<0, 3>>, <<1, 4>>}

hostVars     == <<irqVars, clockVars>>
servicesVars == <<profilingVars, logVars, exceptionsVars, devicesVars, cachesVars>>

MCInit ==
  /\ part \in {"files", "interrupts", "alarms", "time", "sleep", "profiling", "log",
               "exceptions", "devices", "caches"}
  /\ FilesInit /\ IrqInit /\ ClockInit
  /\ ProfilingInit /\ LoggingInit /\ ExceptionsInit /\ DevicesInit /\ CachesInit
  \* One beginning is enough for what doesn't run.
  /\ part # "exceptions" =>
       build = [ALT_EXCEPTION_STACK |-> TRUE, emulates |-> FALSE, divides |-> {}]
  /\ part # "caches" => region = [start |-> 0, len |-> 4, kind |-> "free",
                                  owner |-> "program"]

\* What has to do with files, interrupts and time.
HostNext ==
  /\ UNCHANGED servicesVars
  /\ \/ /\ part = "files" /\ FilesNext
        /\ UNCHANGED hostVars
     \/ /\ part = "interrupts" /\ IrqNext
        /\ UNCHANGED <<filesVars, clockVars>>
     \/ /\ \/ part = "alarms" /\ AlarmsRun
           \/ part = "time" /\ TimeRuns
           \/ part = "sleep" /\ SleepRuns
        /\ UNCHANGED <<filesVars, irqVars>>

ServicesNext ==
  /\ UNCHANGED <<filesVars, hostVars>>
  /\ \/ /\ part = "profiling" /\ ProfilingNext
        /\ UNCHANGED <<logVars, exceptionsVars, devicesVars, cachesVars>>
     \/ /\ part = "log" /\ LoggingNext
        /\ UNCHANGED <<profilingVars, exceptionsVars, devicesVars, cachesVars>>
     \/ /\ part = "exceptions" /\ ExceptionsNext
        /\ UNCHANGED <<profilingVars, logVars, devicesVars, cachesVars>>
     \/ /\ part = "devices" /\ DevicesNext
        /\ UNCHANGED <<profilingVars, logVars, exceptionsVars, cachesVars>>
     \/ /\ part = "caches" /\ CachesNext
        /\ UNCHANGED <<profilingVars, logVars, exceptionsVars, devicesVars>>

MCNext == UNCHANGED part /\ (HostNext \/ ServicesNext)

MCSpec ==
  /\ MCInit /\ [][MCNext]_<<part, filesVars, hostVars, servicesVars>>
  /\ FilesFairness /\ IrqFairness /\ AlarmsFairness

\* Nothing gets stuck: the semaphore is given back, the most urgent interrupt is
\* served, and alt_tick returns, whatever the others do.
NothingStuck == SemaphoreReturned /\ MostUrgentServed /\ TickReturns
=============================================================================
