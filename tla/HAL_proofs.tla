------------------------------ MODULE HAL_proofs ------------------------------
(***************************************************************************)
(* Theorems about the HAL: its file descriptors, for any number of         *)
(* threads, of descriptors, devices and file systems; its clock, for any   *)
(* alarms, counters of any width, and any rates and times; its profiler,   *)
(* for any functions, callers, sizes and numbers of calls; and its lists   *)
(* of devices, for any names and any number of devices.                    *)
(***************************************************************************)
EXTENDS FileDescriptors, Clock, Profiling, Devices, FiniteSetTheorems, SequenceTheorems,
        NaturalsInduction, WellFoundedInduction, TLAPS

-----------------------------------------------------------------------------
(***************************************************************************)
(* The file descriptors.                                                   *)
(***************************************************************************)

\* Where a call works on the entry fd[t], which is in nobody's hands yet, or no
\* longer.
Working == {"set_flags", "file_locked", "open", "redirect", "release",
            "release_rest"}

Works(t) == pc[t] \in Working

\* Where open() still knows what was asked for.
Asking(t) == pc[t] \in {"get_fd", "search", "set_flags", "file_locked", "open"}

-----------------------------------------------------------------------------
(* The inductive invariant. *)

\* What an open asks for: start-up for the console, a thread for what threads
\* open.
AskInv ==
  \A t \in Threads :
    /\ pc[t] = "idle" \/ booted = 3 => replaces[t] = -1
    /\ pc[t] = "redirect" => replaces[t] >= 0
    /\ replaces[t] >= 0 => want[t].dev = Stdio
    /\ replaces[t] < 0 /\ Asking(t) => want[t].dev \in Openable

\* Start-up: one standard descriptor after the other is replaced, by one thread,
\* before anything else is opened or locked.
BootInv ==
  /\ \A f \in StdFds : dev(f) \in {Stdio, alt_dev_null}
  /\ \A k \in 1..booted : dev(Redirected[k]) = Stdio
  /\ booted < 3 =>
       /\ \A t \in Threads \ {Main} : pc[t] = "idle"
       /\ pc[Main] \notin {"fd_lock", "look"}
       /\ pc[Main] # "idle" => replaces[Main] = Redirected[booted + 1]
       /\ pc[Main] = "search" => i[Main] <= 3
       /\ pc[Main] \in {"release", "release_rest"} =>
            dev(Redirected[booted + 1]) = Stdio
       /\ \A f \in Fds : "EXCL" \notin fd_flags(f) /\ held[f].by = Nobody
       /\ \A f \in Fds \ StdFds :
            dev(f) = NoDev \/ (Works(Main) /\ fd[Main] = f)

\* What is free is marked free, and no entry in use is above alt_max_fd.
EntryInv ==
  \A f \in Fds \ StdFds :
    /\ dev(f) = NoDev => fd_flags(f) = {}
    /\ dev(f) # NoDev => f <= alt_max_fd

\* An entry above the standard ones has one owner: the thread that has it open
\* or the one that works on it.
OwnInv ==
  /\ \A t \in Threads : Works(t) => held[fd[t]].by = Nobody
  /\ \A t, u \in Threads :
       Works(t) /\ Works(u) /\ fd[t] = fd[u] /\ fd[t] \notin StdFds => t = u

\* An entry refers to d, as open() marked it.
Intact(f, d, mode) ==
  /\ dev(f) = d
  /\ fd_flags(f) \cap AccessModes = {mode}
  /\ ("DEV" \in fd_flags(f)) = (d \in Devices)

HeldInv ==
  \A f \in Fds : held[f].by # Nobody =>
    /\ f \notin StdFds
    /\ held[f].dev \in Openable
    /\ Intact(f, held[f].dev, held[f].mode)

\* How far a thread has come with the entry it works on.
WorkInv ==
  \A t \in Threads : Works(t) =>
    /\ fd[t] \in StdFds => pc[t] \in {"release", "release_rest"}
    /\ fd[t] \notin StdFds =>
         /\ dev(fd[t]) # NoDev
         /\ pc[t] \in {"set_flags", "release_rest"} => fd_flags(fd[t]) = {}
    /\ pc[t] = "set_flags" => dev(fd[t]) = want[t].dev
    /\ pc[t] \in {"file_locked", "open"} =>
         Intact(fd[t], want[t].dev, want[t].mode)
    /\ pc[t] = "redirect" => dev(fd[t]) = Stdio
    /\ pc[t] \in {"file_locked", "open", "redirect"} =>
         "EXCL" \notin fd_flags(fd[t])

\* What a thread is about to lock.
CallInv ==
  \A t \in Threads : pc[t] \in {"fd_lock", "look"} =>
    /\ fd[t] \in StdFds \/ held[fd[t]].by = t
    /\ dev(fd[t]) \in Devices

SemaphoreInv ==
  \A t \in Threads : (pc[t] \in {"search", "look"}) = (alt_fd_list_lock = t)

\* The search that grants a lock: nothing it has passed is open on the device.
LookInv ==
  \A t \in Threads : pc[t] = "look" =>
    \A h \in Fds : h < i[t] /\ h # fd[t] => dev(h) # dev(fd[t])

\* The search for a lock has passed the entry f and has not found one.
Passed(t, f) == pc[t] = "open" \/ (pc[t] = "file_locked" /\ f < i[t])

\* A device that is locked is found by every search that passes it, and what was
\* there before is seen by the search that grants the lock, but for the entry
\* alt_max_fd.
ExclInv ==
  \A f \in Fds : "EXCL" \in fd_flags(f) =>
    /\ dev(f) \in Devices
    /\ \A g \in Fds : g # f /\ dev(g) = dev(f) =>
         /\ held[g].by # Nobody => g = lockedAt[f]
         /\ \A t \in Threads : fd[t] = g /\ Passed(t, f) => g = lockedAt[f]

FilesInv ==
  /\ FilesTypeOK
  /\ AskInv /\ BootInv
  /\ EntryInv /\ OwnInv /\ HeldInv /\ WorkInv /\ CallInv
  /\ SemaphoreInv /\ LookInv /\ ExclInv

-----------------------------------------------------------------------------
(* Types. *)

\* What the proofs use of the constants.
LEMMA Constants ==
  /\ Main \in Threads /\ Nobody \notin Threads
  /\ ALT_MAX_FD \in Nat /\ ALT_MAX_FD > 3
  /\ alt_dev_null \in Devices /\ Stdio \in Devices /\ Stdio # alt_dev_null
  /\ Openable \subseteq Targets
  /\ Stdio \notin Openable /\ alt_dev_null \notin Openable
  /\ OpenModes \subseteq AccessModes
  /\ \A d \in FileSystems : d \notin Devices
  /\ NoDev \notin Devices /\ NoDev \notin FileSystems
BY FilesAssumption DEF FilesAssumption, AccessModes, Targets

TableType ==
  alt_fd_list \in [Fds -> Entry] /\ alt_max_fd \in -1..ALT_MAX_FD-1

Labels == {"idle", "get_fd", "search", "set_flags", "file_locked",
           "open", "redirect", "release", "release_rest", "fd_lock", "look"}

CallsType ==
  /\ alt_fd_list_lock \in Threads \cup {Nobody}
  /\ pc \in [Threads -> Labels]
  /\ i \in [Threads -> 0..ALT_MAX_FD] /\ fd \in [Threads -> Fds]
  /\ want \in [Threads -> [dev : Targets, mode : AccessModes]]
  /\ replaces \in [Threads -> -1..2] /\ booted \in 0..3

HistoryType ==
  /\ held \in [Fds -> [by : Threads \cup {Nobody}, dev : Targets \cup {NoDev},
                       mode : AccessModes]]
  /\ lockedAt \in [Fds -> -1..ALT_MAX_FD-1]

LEMMA TypeParts == FilesTypeOK <=> TableType /\ CallsType /\ HistoryType
BY DEF FilesTypeOK, TableType, CallsType, HistoryType, Labels

\* What writing one field of an entry does to the table.
LEMMA DevWritten ==
  ASSUME FilesTypeOK, NEW f \in Fds, NEW d \in Targets \cup {NoDev},
         alt_fd_list' = [alt_fd_list EXCEPT ![f].dev = d]
  PROVE  /\ alt_fd_list' \in [Fds -> Entry]
         /\ \A g \in Fds : /\ dev(g)' = IF g = f THEN d ELSE dev(g)
                           /\ fd_flags(g)' = fd_flags(g)
<1>1. alt_fd_list \in [Fds -> Entry]
  BY DEF FilesTypeOK
<1>2. [alt_fd_list[f] EXCEPT !.dev = d] \in Entry
  BY <1>1 DEF Entry
<1>3. alt_fd_list' = [alt_fd_list EXCEPT ![f] = [alt_fd_list[f] EXCEPT !.dev = d]]
  OBVIOUS
<1>4. /\ alt_fd_list' \in [Fds -> Entry]
      /\ \A g \in Fds : alt_fd_list'[g] =
           IF g = f THEN [alt_fd_list[f] EXCEPT !.dev = d] ELSE alt_fd_list[g]
  BY <1>1, <1>2, <1>3
<1> QED
  BY <1>1, <1>4 DEF dev, fd_flags, Entry

LEMMA FlagsWritten ==
  ASSUME FilesTypeOK, NEW f \in Fds,
         NEW flags \in SUBSET ({"DEV", "EXCL"} \cup Settable \cup AccessModes),
         alt_fd_list' = [alt_fd_list EXCEPT ![f].fd_flags = flags]
  PROVE  /\ alt_fd_list' \in [Fds -> Entry]
         /\ \A g \in Fds : /\ dev(g)' = dev(g)
                           /\ fd_flags(g)' = IF g = f THEN flags
                                                      ELSE fd_flags(g)
<1>1. alt_fd_list \in [Fds -> Entry]
  BY DEF FilesTypeOK
<1>2. [alt_fd_list[f] EXCEPT !.fd_flags = flags] \in Entry
  BY <1>1 DEF Entry
<1>3. alt_fd_list' =
        [alt_fd_list EXCEPT ![f] = [alt_fd_list[f] EXCEPT !.fd_flags = flags]]
  OBVIOUS
<1>4. /\ alt_fd_list' \in [Fds -> Entry]
      /\ \A g \in Fds : alt_fd_list'[g] =
           IF g = f THEN [alt_fd_list[f] EXCEPT !.fd_flags = flags]
                    ELSE alt_fd_list[g]
  BY <1>1, <1>2, <1>3
<1> QED
  BY <1>1, <1>4 DEF dev, fd_flags, Entry

\* The fields of an entry have their types.
LEMMA FieldTypes ==
  ASSUME FilesTypeOK, NEW f \in Fds
  PROVE  /\ dev(f) \in Targets \cup {NoDev}
         /\ fd_flags(f) \in SUBSET ({"DEV", "EXCL"} \cup Settable \cup AccessModes)
BY DEF FilesTypeOK, Entry, dev, fd_flags

-----------------------------------------------------------------------------
(* What the steps that write the table do to it. *)

LEMMA SameTable ==
  ASSUME alt_fd_list' = alt_fd_list
  PROVE  \A g \in Fds : dev(g)' = dev(g) /\ fd_flags(g)' = fd_flags(g)
BY DEF dev, fd_flags

LEMMA TakeTable ==
  ASSUME FilesTypeOK, NEW t \in Threads, GetFdTake(t)
  PROVE  /\ i[t] \in Fds
         /\ \A g \in Fds : /\ dev(g)' = IF g = i[t] THEN want[t].dev ELSE dev(g)
                           /\ fd_flags(g)' = fd_flags(g)
<1>1. i[t] \in Fds /\ want[t].dev \in Targets
  BY Constants DEF GetFdTake, FilesTypeOK, Fds
<1> QED
  BY <1>1, DevWritten DEF GetFdTake

LEMMA SetFlagsTable ==
  ASSUME FilesTypeOK, NEW t \in Threads, SetFlags(t)
  PROVE  \A g \in Fds :
           /\ dev(g)' = dev(g)
           /\ fd_flags(g)' =
                IF g = fd[t]
                THEN {want[t].mode}
                       \cup (IF want[t].dev \in FileSystems THEN {} ELSE {"DEV"})
                ELSE fd_flags(g)
<1> DEFINE flags == {want[t].mode}
                      \cup (IF want[t].dev \in FileSystems THEN {} ELSE {"DEV"})
<1>1. fd[t] \in Fds /\ want[t].mode \in AccessModes
  BY DEF FilesTypeOK
<1>2. flags \in SUBSET ({"DEV", "EXCL"} \cup Settable \cup AccessModes)
  BY <1>1
<1>3. alt_fd_list' = [alt_fd_list EXCEPT ![fd[t]].fd_flags = flags]
  BY DEF SetFlags
<1> HIDE DEF flags
<1>4. \A g \in Fds : /\ dev(g)' = dev(g)
                     /\ fd_flags(g)' = IF g = fd[t] THEN flags ELSE fd_flags(g)
  BY <1>1, <1>2, <1>3, FlagsWritten
<1> QED
  BY <1>4 DEF flags

LEMMA ReleaseFirstTable ==
  ASSUME FilesTypeOK, NEW t \in Threads, ReleaseFirst(t)
  PROVE  \A g \in Fds :
           /\ dev(g)' = dev(g)
           /\ fd_flags(g)' = IF g = fd[t] /\ g > 2 THEN {} ELSE fd_flags(g)
<1>1. fd[t] \in Fds
  BY DEF FilesTypeOK
<1>2. CASE fd[t] <= 2
  BY <1>1, <1>2, Constants, SameTable DEF ReleaseFirst, Cleared, Fds
<1>3. CASE ~(fd[t] <= 2)
  <2>1. alt_fd_list' = [alt_fd_list EXCEPT ![fd[t]].fd_flags = {}]
    BY <1>3 DEF ReleaseFirst, Cleared, ReleaseOrder
  <2> QED
    <3>1. \A g \in Fds : /\ dev(g)' = dev(g)
                         /\ fd_flags(g)' = IF g = fd[t] THEN {} ELSE fd_flags(g)
      BY <1>1, <2>1, FlagsWritten
    <3> QED
      BY <1>1, <1>3, <3>1, Constants DEF Fds
<1> QED
  BY <1>2, <1>3

LEMMA ReleaseRestTable ==
  ASSUME FilesTypeOK, NEW t \in Threads, ReleaseRest(t)
  PROVE  \A g \in Fds :
           /\ dev(g)' = IF g = fd[t] /\ g > 2 THEN NoDev ELSE dev(g)
           /\ fd_flags(g)' = fd_flags(g)
<1>1. fd[t] \in Fds
  BY DEF FilesTypeOK
<1>2. CASE fd[t] <= 2
  BY <1>1, <1>2, Constants, SameTable DEF ReleaseRest, Cleared, Fds
<1>3. CASE ~(fd[t] <= 2)
  <2>1. alt_fd_list' = [alt_fd_list EXCEPT ![fd[t]].dev = NoDev]
    BY <1>3 DEF ReleaseRest, Cleared, ReleaseOrder
  <2> QED
    <3>1. \A g \in Fds : /\ dev(g)' = IF g = fd[t] THEN NoDev ELSE dev(g)
                         /\ fd_flags(g)' = fd_flags(g)
      BY <1>1, <2>1, DevWritten
    <3> QED
      BY <1>1, <1>3, <3>1, Constants DEF Fds
<1> QED
  BY <1>2, <1>3

LEMMA RedirectTable ==
  ASSUME FilesTypeOK, NEW t \in Threads, Redirect(t), replaces[t] >= 0
  PROVE  /\ replaces[t] \in StdFds
         /\ \A g \in Fds :
              /\ dev(g)' = IF g = replaces[t] THEN dev(fd[t]) ELSE dev(g)
              /\ fd_flags(g)' = IF g = replaces[t] THEN fd_flags(fd[t])
                                                   ELSE fd_flags(g)
<1>1. replaces[t] \in StdFds /\ replaces[t] \in Fds
  BY Constants DEF FilesTypeOK, StdFds, Fds
<1> QED
  BY <1>1 DEF Redirect, FilesTypeOK, dev, fd_flags

LEMMA GrantTable ==
  ASSUME FilesTypeOK, NEW t \in Threads, LockGrant(t)
  PROVE  \A g \in Fds :
           /\ dev(g)' = dev(g)
           /\ fd_flags(g)' = IF g = fd[t] THEN fd_flags(g) \cup {"EXCL"}
                                          ELSE fd_flags(g)
<1> DEFINE flags == fd_flags(fd[t]) \cup {"EXCL"}
<1>1. fd[t] \in Fds
  BY DEF FilesTypeOK
<1>2. flags \in SUBSET ({"DEV", "EXCL"} \cup Settable \cup AccessModes)
  BY <1>1, FieldTypes
<1>3. alt_fd_list' = [alt_fd_list EXCEPT ![fd[t]].fd_flags = flags]
  BY DEF LockGrant, fd_flags
<1> HIDE DEF flags
<1>4. \A g \in Fds : /\ dev(g)' = dev(g)
                     /\ fd_flags(g)' = IF g = fd[t] THEN flags ELSE fd_flags(g)
  BY <1>1, <1>2, <1>3, FlagsWritten
<1> QED
  BY <1>4 DEF flags

\* Unlock and Fcntl: the flags of one entry, in the hands of t, change.
LEMMA UnlockTable ==
  ASSUME FilesTypeOK, NEW t \in Threads, Unlock(t)
  PROVE  \E f \in Fds :
           /\ f \in Usable(t)
           /\ lockedAt' = [lockedAt EXCEPT ![f] = -1]
           /\ \A g \in Fds :
                /\ dev(g)' = dev(g)
                /\ fd_flags(g)' = IF g = f THEN fd_flags(g) \ {"EXCL"}
                                           ELSE fd_flags(g)
<1>1. PICK f \in Usable(t) :
        /\ alt_fd_list' = [alt_fd_list EXCEPT ![f].fd_flags = @ \ {"EXCL"}]
        /\ lockedAt' = [lockedAt EXCEPT ![f] = -1]
  BY DEF Unlock
<1> DEFINE flags == fd_flags(f) \ {"EXCL"}
<1>2. f \in Fds
  BY Constants DEF Usable, Opened, StdFds, Fds
<1>3. flags \in SUBSET ({"DEV", "EXCL"} \cup Settable \cup AccessModes)
  BY <1>2, FieldTypes
<1>4. alt_fd_list' = [alt_fd_list EXCEPT ![f].fd_flags = flags]
  BY <1>1 DEF fd_flags
<1> HIDE DEF flags
<1>5. \A g \in Fds : /\ dev(g)' = dev(g)
                     /\ fd_flags(g)' = IF g = f THEN flags ELSE fd_flags(g)
  BY <1>2, <1>3, <1>4, FlagsWritten
<1> QED
  BY <1>1, <1>2, <1>5 DEF flags

LEMMA FcntlTable ==
  ASSUME FilesTypeOK, NEW t \in Threads, Fcntl(t)
  PROVE  \E f \in Fds, arg \in SUBSET Settable :
           /\ held[f].by = t
           /\ \A g \in Fds :
                /\ dev(g)' = dev(g)
                /\ fd_flags(g)' = IF g = f THEN (fd_flags(g) \ Settable) \cup arg
                                           ELSE fd_flags(g)
<1>1. PICK f \in Opened(t), arg \in SUBSET Settable :
        alt_fd_list' = [alt_fd_list EXCEPT ![f].fd_flags =
                          (@ \ Settable) \cup arg]
  BY DEF Fcntl
<1> DEFINE flags == (fd_flags(f) \ Settable) \cup arg
<1>2. f \in Fds /\ held[f].by = t
  BY DEF Opened
<1>3. flags \in SUBSET ({"DEV", "EXCL"} \cup Settable \cup AccessModes)
  BY <1>2, FieldTypes
<1>4. alt_fd_list' = [alt_fd_list EXCEPT ![f].fd_flags = flags]
  BY <1>1 DEF fd_flags
<1> HIDE DEF flags
<1>5. \A g \in Fds : /\ dev(g)' = dev(g)
                     /\ fd_flags(g)' = IF g = f THEN flags ELSE fd_flags(g)
  BY <1>2, <1>3, <1>4, FlagsWritten
<1> QED
  BY <1>1, <1>2, <1>5 DEF flags

-----------------------------------------------------------------------------
(* Every step keeps the types. *)

LEMMA UsableFds == ASSUME NEW t \in Threads PROVE Usable(t) \subseteq Fds
BY Constants DEF Usable, Opened, StdFds, Fds

\* A call that returns leaves nothing behind; only start-up counts it.
LEMMA ReturnType ==
  ASSUME FilesTypeOK, AskInv, NEW t \in Threads, Return(t),
         alt_fd_list_lock' \in Threads \cup {Nobody}
  PROVE  CallsType'
<1>1. pc' \in [Threads -> Labels]
  BY DEF Return, GoTo, FilesTypeOK, Labels
<1>2. i' \in [Threads -> 0..ALT_MAX_FD] /\ fd' \in [Threads -> Fds]
  BY Constants DEF Return, FilesTypeOK, Fds
<1>3. want' \in [Threads -> [dev : Targets, mode : AccessModes]]
  <2>1. NoWant \in [dev : Targets, mode : AccessModes]
    BY Constants DEF NoWant, Targets, AccessModes
  <2> QED
    BY <2>1 DEF Return, FilesTypeOK
<1>4. replaces' \in [Threads -> -1..2]
  BY DEF Return, FilesTypeOK
<1>5. booted' \in 0..3
  BY DEF Return, FilesTypeOK, AskInv
<1> QED
  BY <1>1, <1>2, <1>3, <1>4, <1>5 DEF CallsType

LEMMA BeginType ==
  ASSUME FilesTypeOK, NEW t \in Threads, NEW d \in Targets,
         NEW mode \in AccessModes, NEW std \in -1..2,
         Begin_open(t, d, mode, std), booted' = booted
  PROVE  CallsType'
BY DEF Begin_open, GoTo, FilesTypeOK, CallsType, Labels

LEMMA TableTypeStep ==
  ASSUME FilesTypeOK, AskInv, FilesNext
  PROVE  TableType'
<1>1. CASE UNCHANGED table
  BY <1>1 DEF table, FilesTypeOK, TableType
<1>2. ASSUME NEW t \in Threads, GetFdTake(t) PROVE TableType'
  <2>1. i[t] \in Fds /\ want[t].dev \in Targets
    BY <1>2, Constants DEF GetFdTake, FilesTypeOK, Fds
  <2>2. alt_fd_list' \in [Fds -> Entry]
    BY <1>2, <2>1, DevWritten DEF GetFdTake
  <2> QED
    BY <1>2, <2>1, <2>2, Constants DEF GetFdTake, TableType, FilesTypeOK, Fds
<1>3. ASSUME NEW t \in Threads, SetFlags(t) PROVE TableType'
  <2> DEFINE flags == {want[t].mode}
                        \cup (IF want[t].dev \in FileSystems THEN {} ELSE {"DEV"})
  <2>1. fd[t] \in Fds /\ want[t].mode \in AccessModes
    BY DEF FilesTypeOK
  <2>2. flags \in SUBSET ({"DEV", "EXCL"} \cup Settable \cup AccessModes)
    BY <2>1
  <2>3. /\ alt_fd_list' = [alt_fd_list EXCEPT ![fd[t]].fd_flags = flags]
        /\ alt_max_fd' = alt_max_fd
    BY <1>3 DEF SetFlags
  <2> HIDE DEF flags
  <2>4. alt_fd_list' \in [Fds -> Entry]
    BY <2>1, <2>2, <2>3, FlagsWritten
  <2> QED
    BY <2>3, <2>4 DEF TableType, FilesTypeOK
<1>4. ASSUME NEW t \in Threads, NEW field, alt_fd_list' = Cleared(fd[t], field),
             alt_max_fd' = alt_max_fd
      PROVE  TableType'
  <2>1. fd[t] \in Fds
    BY DEF FilesTypeOK
  <2>2. \/ alt_fd_list' = alt_fd_list
        \/ alt_fd_list' = [alt_fd_list EXCEPT ![fd[t]].dev = NoDev]
        \/ alt_fd_list' = [alt_fd_list EXCEPT ![fd[t]].fd_flags = {}]
    BY <1>4 DEF Cleared
  <2>3. alt_fd_list' \in [Fds -> Entry]
    <3>1. alt_fd_list' = [alt_fd_list EXCEPT ![fd[t]].dev = NoDev] =>
            alt_fd_list' \in [Fds -> Entry]
      BY <2>1, DevWritten
    <3>2. alt_fd_list' = [alt_fd_list EXCEPT ![fd[t]].fd_flags = {}] =>
            alt_fd_list' \in [Fds -> Entry]
      <4>1. {} \in SUBSET ({"DEV", "EXCL"} \cup Settable \cup AccessModes)
        OBVIOUS
      <4> QED
        BY <2>1, <4>1, FlagsWritten
    <3> QED
      BY <2>2, <3>1, <3>2 DEF FilesTypeOK
  <2> QED
    BY <1>4, <2>3 DEF TableType, FilesTypeOK
<1>5. ASSUME NEW t \in Threads, Redirect(t) PROVE TableType'
  <2>1. replaces[t] \in Fds
    <3>1. replaces[t] \in -1..2 /\ replaces[t] >= 0
      BY <1>5 DEF Redirect, At, AskInv, FilesTypeOK
    <3> QED
      BY <3>1, Constants DEF Fds
  <2> QED
    BY <1>5, <2>1 DEF Redirect, TableType, FilesTypeOK
<1>6. ASSUME NEW f \in Fds,
             NEW flags \in SUBSET ({"DEV", "EXCL"} \cup Settable \cup AccessModes),
             alt_fd_list' = [alt_fd_list EXCEPT ![f].fd_flags = flags],
             alt_max_fd' = alt_max_fd
      PROVE  TableType'
  BY <1>6, FlagsWritten DEF TableType, FilesTypeOK
<1>7. ASSUME NEW t \in Threads, LockGrant(t) PROVE TableType'
  <2>1. fd[t] \in Fds
    BY DEF FilesTypeOK
  <2>2. fd_flags(fd[t]) \cup {"EXCL"}
          \in SUBSET ({"DEV", "EXCL"} \cup Settable \cup AccessModes)
    BY <2>1, FieldTypes
  <2> QED
    BY <1>6, <1>7, <2>1, <2>2 DEF LockGrant, fd_flags
<1>8. ASSUME NEW t \in Threads, Unlock(t) \/ Fcntl(t) PROVE TableType'
  <2>1. PICK f \in Fds, arg \in SUBSET Settable :
          /\ \/ alt_fd_list' = [alt_fd_list EXCEPT ![f].fd_flags = @ \ {"EXCL"}]
             \/ alt_fd_list' = [alt_fd_list EXCEPT ![f].fd_flags =
                                  (@ \ Settable) \cup arg]
          /\ alt_max_fd' = alt_max_fd
    BY <1>8, Constants DEF Unlock, Fcntl, Usable, Opened, StdFds, Fds
  <2>2. /\ fd_flags(f) \ {"EXCL"}
             \in SUBSET ({"DEV", "EXCL"} \cup Settable \cup AccessModes)
        /\ (fd_flags(f) \ Settable) \cup arg
             \in SUBSET ({"DEV", "EXCL"} \cup Settable \cup AccessModes)
    BY FieldTypes
  <2> QED
    BY <1>6, <2>1, <2>2 DEF fd_flags
<1> QED
  BY <1>1, <1>2, <1>3, <1>4, <1>5, <1>7, <1>8
     DEF FilesNext, Opening, Locking, Releasing, Calls, BootOpen, Begin_open,
         GetFdPend, GetFdSkip, GetFdNone, FileLocked, DriverOpens, DriverRefuses,
         LockPend, LockLook, ReleaseFirst, ReleaseRest, Open, Close, Lock, table

LEMMA CallsTypeStep ==
  ASSUME FilesTypeOK, AskInv, FilesNext
  PROVE  CallsType'
<1> USE DEF At, GoTo, Labels
<1>1. CASE BootOpen
  <2>1. booted \in 0..2 /\ Redirected[booted + 1] \in -1..2
    BY <1>1 DEF BootOpen, FilesTypeOK, Redirected
  <2>2. Stdio \in Targets /\ {"O_RDONLY", "O_WRONLY"} \subseteq AccessModes
    BY Constants DEF Targets, AccessModes
  <2> QED
    BY <1>1, <2>1, <2>2, Constants, BeginType DEF BootOpen
<1>2. ASSUME NEW t \in Threads, Open(t) PROVE CallsType'
  <2>1. PICK d \in Openable, mode \in OpenModes : Begin_open(t, d, mode, -1)
    BY <1>2 DEF Open
  <2> QED
    BY <1>2, <2>1, Constants, BeginType DEF Open
<1>3. ASSUME NEW t \in Threads, GetFdPend(t) \/ LockPend(t) PROVE CallsType'
  <2>1. 0 \in 0..ALT_MAX_FD
    BY Constants
  <2>2. CASE GetFdPend(t)
    BY <2>1, <2>2 DEF GetFdPend, FilesTypeOK, CallsType
  <2>3. CASE LockPend(t)
    BY <2>1, <2>3 DEF LockPend, FilesTypeOK, CallsType
  <2> QED
    BY <1>3, <2>2, <2>3
<1>4. ASSUME NEW t \in Threads, GetFdSkip(t) PROVE CallsType'
  BY <1>4, Constants DEF GetFdSkip, FilesTypeOK, CallsType
<1>5. ASSUME NEW t \in Threads, GetFdTake(t) PROVE CallsType'
  <2>1. i[t] \in Fds
    BY <1>5, Constants DEF GetFdTake, FilesTypeOK, Fds
  <2> QED
    BY <1>5, <2>1 DEF GetFdTake, FilesTypeOK, CallsType
<1>6. ASSUME NEW t \in Threads, SetFlags(t) PROVE CallsType'
  BY <1>6, Constants DEF SetFlags, FilesTypeOK, CallsType
<1>7. ASSUME NEW t \in Threads, FileLocked(t) PROVE CallsType'
  <2>1. UNCHANGED <<alt_fd_list_lock, fd, want, replaces, booted>>
    BY <1>7 DEF FileLocked
  <2>2. pc' \in [Threads -> Labels]
    BY <1>7 DEF FileLocked, FilesTypeOK
  <2>3. i' \in [Threads -> 0..ALT_MAX_FD]
    <3>1. i' = i \/ (i[t] <= alt_max_fd /\ i' = [i EXCEPT ![t] = i[t] + 1])
      BY <1>7, Constants DEF FileLocked, FilesTypeOK
    <3>2. i[t] <= alt_max_fd => i[t] + 1 \in 0..ALT_MAX_FD
      BY Constants DEF FilesTypeOK
    <3> QED
      BY <3>1, <3>2 DEF FilesTypeOK
  <2> QED
    BY <2>1, <2>2, <2>3 DEF FilesTypeOK, CallsType
<1>8. ASSUME NEW t \in Threads, DriverRefuses(t) \/ Redirect(t) \/ ReleaseFirst(t)
      PROVE  CallsType'
  BY <1>8 DEF DriverRefuses, Redirect, ReleaseFirst, FilesTypeOK, CallsType
<1>9. ASSUME NEW t \in Threads, Return(t),
             alt_fd_list_lock' \in {alt_fd_list_lock, Nobody}
      PROVE  CallsType'
  BY <1>9, ReturnType DEF FilesTypeOK
<1>10. ASSUME NEW t \in Threads, DriverOpens(t) PROVE CallsType'
  <2>1. CASE replaces[t] >= 0
    BY <1>10, <2>1 DEF DriverOpens, FilesTypeOK, CallsType
  <2>2. CASE ~(replaces[t] >= 0)
    BY <1>9, <1>10, <2>2 DEF DriverOpens
  <2> QED
    BY <2>1, <2>2
<1>11. ASSUME NEW t \in Threads, Close(t) \/ Lock(t) PROVE CallsType'
  <2>1. PICK f \in Usable(t) : fd' = [fd EXCEPT ![t] = f]
    BY <1>11 DEF Close, Lock
  <2>2. f \in Fds
    BY UsableFds
  <2> QED
    BY <1>11, <2>1, <2>2 DEF Close, Lock, FilesTypeOK, CallsType
<1>12. ASSUME NEW t \in Threads, LockLook(t) PROVE CallsType'
  <2>1. CASE i[t] # fd[t] /\ dev(i[t]) = dev(fd[t])
    BY <1>9, <1>12, <2>1 DEF LockLook
  <2>2. CASE ~(i[t] # fd[t] /\ dev(i[t]) = dev(fd[t]))
    <3>1. /\ i' = [i EXCEPT ![t] = i[t] + 1]
          /\ UNCHANGED <<pc, alt_fd_list_lock, fd, want, replaces, booted>>
      BY <1>12, <2>2 DEF LockLook
    <3>2. i[t] + 1 \in 0..ALT_MAX_FD
      BY <1>12, Constants DEF LockLook, FilesTypeOK
    <3> QED
      BY <3>1, <3>2 DEF FilesTypeOK, CallsType
  <2> QED
    BY <2>1, <2>2
<1>13. ASSUME NEW t \in Threads, Unlock(t) \/ Fcntl(t) PROVE CallsType'
  BY <1>13 DEF Unlock, Fcntl, FilesTypeOK, CallsType
<1>14. ASSUME NEW t \in Threads, GetFdNone(t) \/ ReleaseRest(t) \/ LockGrant(t)
       PROVE  CallsType'
  BY <1>9, <1>14 DEF GetFdNone, ReleaseRest, LockGrant
<1> QED
  BY <1>1, <1>2, <1>3, <1>4, <1>5, <1>6, <1>7, <1>8, <1>10, <1>11, <1>12, <1>13,
     <1>14 DEF FilesNext, Opening, Locking, Releasing, Calls

LEMMA HistoryTypeStep ==
  ASSUME FilesTypeOK, FilesNext
  PROVE  HistoryType'
<1>1. CASE UNCHANGED history
  BY <1>1 DEF history, FilesTypeOK, HistoryType
<1>2. ASSUME NEW f \in Fds, NEW k \in -1..ALT_MAX_FD-1,
             lockedAt' = [lockedAt EXCEPT ![f] = k], held' = held
      PROVE  HistoryType'
  BY <1>2 DEF FilesTypeOK, HistoryType
<1>3. ASSUME NEW t \in Threads, LockGrant(t) \/ ReleaseRest(t) PROVE HistoryType'
  <2>1. fd[t] \in Fds /\ alt_max_fd \in -1..ALT_MAX_FD-1 /\ -1 \in -1..ALT_MAX_FD-1
    BY Constants DEF FilesTypeOK
  <2> QED
    BY <1>2, <1>3, <2>1 DEF LockGrant, ReleaseRest
<1>4. ASSUME NEW t \in Threads, Unlock(t) PROVE HistoryType'
  <2>1. PICK f \in Usable(t) : lockedAt' = [lockedAt EXCEPT ![f] = -1]
    BY <1>4 DEF Unlock
  <2>2. f \in Fds /\ -1 \in -1..ALT_MAX_FD-1
    BY Constants, UsableFds
  <2> QED
    BY <1>2, <1>4, <2>1, <2>2 DEF Unlock
<1>5. ASSUME NEW t \in Threads, DriverOpens(t) PROVE HistoryType'
  <2>1. fd[t] \in Fds /\ want[t] \in [dev : Targets, mode : AccessModes]
    BY DEF FilesTypeOK
  <2>2. [by |-> t, dev |-> want[t].dev, mode |-> want[t].mode]
          \in [by : Threads \cup {Nobody}, dev : Targets \cup {NoDev},
               mode : AccessModes]
    BY <2>1
  <2> QED
    BY <1>5, <2>1, <2>2 DEF DriverOpens, FilesTypeOK, HistoryType
<1>6. ASSUME NEW t \in Threads, Close(t) PROVE HistoryType'
  <2>1. PICK f \in Usable(t) : held' = [held EXCEPT ![f] = NotHeld]
    BY <1>6 DEF Close
  <2>2. NotHeld \in [by : Threads \cup {Nobody}, dev : Targets \cup {NoDev},
                     mode : AccessModes]
    BY DEF NotHeld, AccessModes
  <2> QED
    BY <1>6, <2>1, <2>2, UsableFds DEF Close, FilesTypeOK, HistoryType
<1> QED
  BY <1>1, <1>3, <1>4, <1>5, <1>6
     DEF FilesNext, Opening, Locking, Releasing, Calls, BootOpen, Begin_open,
         GetFdPend, GetFdSkip, GetFdTake, GetFdNone, SetFlags, FileLocked,
         DriverRefuses, Redirect, LockPend, LockLook, ReleaseFirst, Open, Lock,
         Fcntl, history

LEMMA FilesTypeStep == ASSUME FilesTypeOK, AskInv, FilesNext PROVE FilesTypeOK'
BY TableTypeStep, CallsTypeStep, HistoryTypeStep, TypeParts, PTL
-----------------------------------------------------------------------------
(* A step is one thread's. *)

StepOf(t) ==
  \/ t = Main /\ BootOpen
  \/ Opening(t) \/ Locking(t) \/ Releasing(t) \/ Calls(t)

LEMMA OneThread == FilesNext <=> \E t \in Threads : StepOf(t)
BY Constants DEF FilesNext, StepOf

\* What the calls leave alone.
LEMMA TableKept ==
  ASSUME NEW t \in Threads,
         \/ BootOpen \/ GetFdPend(t) \/ GetFdSkip(t) \/ GetFdNone(t)
         \/ FileLocked(t) \/ DriverOpens(t) \/ DriverRefuses(t)
         \/ LockPend(t) \/ LockLook(t) \/ Open(t) \/ Close(t) \/ Lock(t)
  PROVE  /\ alt_fd_list' = alt_fd_list /\ alt_max_fd' = alt_max_fd
         /\ \A g \in Fds : dev(g)' = dev(g) /\ fd_flags(g)' = fd_flags(g)
<1>1. UNCHANGED table
  BY DEF BootOpen, Begin_open, GetFdPend, GetFdSkip, GetFdNone, FileLocked,
         DriverOpens, DriverRefuses, LockPend, LockLook, Open, Close, Lock
<1> QED
  BY <1>1, SameTable DEF table

LEMMA HeldKept ==
  ASSUME NEW t \in Threads, StepOf(t), ~DriverOpens(t), ~Close(t)
  PROVE  held' = held
BY DEF StepOf, Opening, Locking, Releasing, Calls, BootOpen, Begin_open,
       GetFdPend, GetFdSkip, GetFdTake, GetFdNone, SetFlags, FileLocked,
       DriverRefuses, Redirect, LockPend, LockLook, LockGrant, ReleaseFirst,
       ReleaseRest, Open, Lock, Unlock, Fcntl, history

\* A step of one thread leaves the others where they are.
LEMMA OthersStand ==
  ASSUME FilesTypeOK, NEW t \in Threads, StepOf(t), NEW u \in Threads, u # t
  PROVE  /\ pc'[u] = pc[u] /\ i'[u] = i[u] /\ fd'[u] = fd[u]
         /\ want'[u] = want[u] /\ replaces'[u] = replaces[u]
<1> USE DEF FilesTypeOK, GoTo
<1>1. CASE Return(t)
  BY <1>1 DEF Return
<1>2. ASSUME NEW d, NEW mode, NEW std, Begin_open(t, d, mode, std)
      PROVE  /\ pc'[u] = pc[u] /\ i'[u] = i[u] /\ fd'[u] = fd[u]
             /\ want'[u] = want[u] /\ replaces'[u] = replaces[u]
  BY <1>2 DEF Begin_open
<1>3. CASE (t = Main /\ BootOpen) \/ Open(t)
  BY <1>2, <1>3 DEF BootOpen, Open
<1>4. CASE GetFdNone(t) \/ ReleaseRest(t) \/ LockGrant(t)
  BY <1>1, <1>4 DEF GetFdNone, ReleaseRest, LockGrant
<1>5. CASE DriverOpens(t)
  BY <1>1, <1>5 DEF DriverOpens
<1>6. CASE LockLook(t)
  BY <1>1, <1>6 DEF LockLook
<1>7. CASE GetFdPend(t) \/ GetFdSkip(t) \/ GetFdTake(t) \/ LockPend(t)
  BY <1>7 DEF GetFdPend, GetFdSkip, GetFdTake, LockPend
<1>8. CASE SetFlags(t) \/ FileLocked(t) \/ DriverRefuses(t)
  BY <1>8 DEF SetFlags, FileLocked, DriverRefuses
<1>9. CASE Redirect(t) \/ ReleaseFirst(t) \/ Close(t) \/ Lock(t) \/ Unlock(t)
           \/ Fcntl(t)
  BY <1>9 DEF Redirect, ReleaseFirst, Close, Lock, Unlock, Fcntl
<1> QED
  BY <1>3, <1>4, <1>5, <1>6, <1>7, <1>8, <1>9
     DEF StepOf, Opening, Locking, Releasing, Calls

\* No entry in use above the standard ones changes but by its owner's step.
LEMMA OwnersOnly ==
  ASSUME FilesInv, NEW t \in Threads, StepOf(t), NEW f \in Fds \ StdFds,
         dev(f) # NoDev, ~(Works(t) /\ fd[t] = f), held[f].by # t
  PROVE  /\ dev(f)' = dev(f) /\ fd_flags(f)' = fd_flags(f)
         /\ held'[f] = held[f]
<1>1. FilesTypeOK /\ AskInv /\ CallInv /\ f \in Fds /\ f \notin StdFds
  BY DEF FilesInv
<1>2. held'[f] = held[f]
  <2>1. CASE DriverOpens(t)
    BY <1>1, <2>1 DEF DriverOpens, At, Works, Working, FilesTypeOK
  <2>2. CASE Close(t)
    BY <1>1, <2>2 DEF Close, Usable, Opened, FilesTypeOK
  <2> QED
    BY <2>1, <2>2, HeldKept
<1>3. dev(f)' = dev(f) /\ fd_flags(f)' = fd_flags(f)
  <2>1. CASE GetFdTake(t)
    BY <1>1, <2>1, TakeTable DEF GetFdTake
  <2>2. CASE SetFlags(t)
    BY <1>1, <2>2, SetFlagsTable DEF SetFlags, At, Works, Working
  <2>3. CASE ReleaseFirst(t)
    BY <1>1, <2>3, ReleaseFirstTable DEF ReleaseFirst, At, Works, Working
  <2>4. CASE ReleaseRest(t)
    BY <1>1, <2>4, ReleaseRestTable DEF ReleaseRest, At, Works, Working
  <2>5. CASE Redirect(t)
    <3>1. replaces[t] >= 0
      BY <1>1, <2>5 DEF Redirect, At, AskInv
    <3> QED
      BY <1>1, <2>5, <3>1, RedirectTable
  <2>6. CASE LockGrant(t)
    <3>1. fd[t] # f
      BY <1>1, <2>6 DEF LockGrant, At, CallInv
    <3> QED
      BY <1>1, <2>6, <3>1, GrantTable
  <2>7. CASE Unlock(t)
    BY <1>1, <2>7, UnlockTable DEF Usable, Opened
  <2>8. CASE Fcntl(t)
    BY <1>1, <2>8, FcntlTable
  <2> QED
    BY <1>1, <2>1, <2>2, <2>3, <2>4, <2>5, <2>6, <2>7, <2>8, TableKept
       DEF StepOf, Opening, Locking, Releasing, Calls
<1> QED
  BY <1>2, <1>3

\* A free entry stays free until a search takes it.
LEMMA FreeStays ==
  ASSUME FilesInv, NEW t \in Threads, StepOf(t), NEW f \in Fds \ StdFds,
         dev(f) = NoDev, ~(GetFdTake(t) /\ i[t] = f)
  PROVE  dev(f)' = NoDev /\ fd_flags(f)' = fd_flags(f)
<1>1. /\ FilesTypeOK /\ AskInv /\ CallInv /\ WorkInv /\ HeldInv
      /\ f \in Fds /\ f \notin StdFds
  BY DEF FilesInv
<1>2. Works(t) => fd[t] # f
  BY <1>1 DEF WorkInv
<1>3. held[f].by # t
  BY <1>1, Constants DEF HeldInv, Intact, Targets
<1>4. CASE GetFdTake(t)
  BY <1>1, <1>4, TakeTable
<1>5. CASE SetFlags(t)
  BY <1>1, <1>2, <1>5, SetFlagsTable DEF SetFlags, At, Works, Working
<1>6. CASE ReleaseFirst(t)
  BY <1>1, <1>2, <1>6, ReleaseFirstTable DEF ReleaseFirst, At, Works, Working
<1>7. CASE ReleaseRest(t)
  BY <1>1, <1>2, <1>7, ReleaseRestTable DEF ReleaseRest, At, Works, Working
<1>8. CASE Redirect(t)
  <2>1. replaces[t] >= 0
    BY <1>1, <1>8 DEF Redirect, At, AskInv
  <2> QED
    BY <1>1, <1>8, <2>1, RedirectTable
<1>9. CASE LockGrant(t)
  <2>1. fd[t] # f
    BY <1>1, <1>3, <1>9 DEF LockGrant, At, CallInv
  <2> QED
    BY <1>1, <1>9, <2>1, GrantTable
<1>10. CASE Unlock(t)
  BY <1>1, <1>3, <1>10, UnlockTable DEF Usable, Opened
<1>11. CASE Fcntl(t)
  BY <1>1, <1>3, <1>11, FcntlTable
<1> QED
  BY <1>1, <1>4, <1>5, <1>6, <1>7, <1>8, <1>9, <1>10, <1>11, TableKept
     DEF StepOf, Opening, Locking, Releasing, Calls

\* A standard descriptor changes its device only when it is redirected.
LEMMA StandardStays ==
  ASSUME FilesInv, NEW t \in Threads, StepOf(t), NEW f \in StdFds
  PROVE  \/ dev(f)' = dev(f)
         \/ Redirect(t) /\ f = replaces[t] /\ dev(f)' = Stdio
<1>1. /\ FilesTypeOK /\ AskInv /\ WorkInv /\ BootInv /\ f \in Fds /\ f <= 2
      /\ f \in Int
  BY Constants DEF FilesInv, StdFds, Fds
<1>2. CASE GetFdTake(t)
  <2>1. dev(f) # NoDev
    BY <1>1, Constants DEF BootInv
  <2> QED
    BY <1>1, <1>2, <2>1, TakeTable DEF GetFdTake
<1>3. CASE SetFlags(t) \/ ReleaseFirst(t) \/ LockGrant(t) \/ Unlock(t) \/ Fcntl(t)
  <2>1. CASE SetFlags(t) \/ ReleaseFirst(t) \/ LockGrant(t)
    BY <1>1, <2>1, SetFlagsTable, ReleaseFirstTable, GrantTable
  <2>2. CASE Unlock(t)
    BY <1>1, <2>2, UnlockTable
  <2>3. CASE Fcntl(t)
    BY <1>1, <2>3, FcntlTable
  <2> QED
    BY <1>3, <2>1, <2>2, <2>3
<1>4. CASE ReleaseRest(t)
  BY <1>1, <1>4, ReleaseRestTable
<1>5. CASE Redirect(t)
  <2>1. replaces[t] >= 0 /\ dev(fd[t]) = Stdio
    BY <1>1, <1>5 DEF Redirect, At, AskInv, WorkInv, Works, Working
  <2> QED
    BY <1>1, <1>5, <2>1, RedirectTable
<1>6. CASE \/ BootOpen \/ GetFdPend(t) \/ GetFdSkip(t) \/ GetFdNone(t)
           \/ FileLocked(t) \/ DriverOpens(t) \/ DriverRefuses(t)
           \/ LockPend(t) \/ LockLook(t) \/ Open(t) \/ Close(t) \/ Lock(t)
  <2>1. \A g \in Fds : dev(g)' = dev(g)
    BY <1>6, TableKept
  <2> QED
    BY <1>1, <2>1
<1> QED
  BY <1>2, <1>3, <1>4, <1>5, <1>6
     DEF StepOf, Opening, Locking, Releasing, Calls

-----------------------------------------------------------------------------
(* Every step keeps the invariant, part by part. *)

\* What start-up is doing while it has descriptors left to redirect.
LEMMA BootStep ==
  ASSUME FilesInv, NEW t \in Threads, StepOf(t), booted < 3
  PROVE  /\ t = Main
         /\ \/ BootOpen \/ GetFdPend(t) \/ GetFdSkip(t) \/ GetFdTake(t)
            \/ SetFlags(t) \/ FileLocked(t) \/ DriverOpens(t) \/ Redirect(t)
            \/ ReleaseFirst(t) \/ ReleaseRest(t)
         /\ ~BootOpen => replaces[t] = Redirected[booted + 1]
         /\ Redirected[booted + 1] \in StdFds
<1>1. /\ FilesTypeOK /\ AskInv /\ BootInv /\ booted \in 0..2 /\ booted # 3
  BY DEF FilesInv, FilesTypeOK
<1>2. Redirected[booted + 1] \in StdFds
  BY <1>1 DEF Redirected, StdFds
<1>3. ~Calls(t)
  BY <1>1 DEF Calls, Open, Close, Lock, Unlock, Fcntl
<1>4. ~Locking(t)
  BY <1>1 DEF Locking, LockPend, LockLook, LockGrant, At, BootInv
<1>5. t = Main /\ (~BootOpen => pc[t] # "idle")
  BY <1>1, <1>3, <1>4
     DEF StepOf, Opening, Releasing, BootInv, At, BootOpen, GetFdPend, GetFdSkip,
         GetFdTake, GetFdNone, SetFlags, FileLocked, DriverOpens, DriverRefuses,
         Redirect, ReleaseFirst, ReleaseRest
<1>6. ~BootOpen => replaces[t] = Redirected[booted + 1]
  BY <1>1, <1>5 DEF BootInv
<1>7. ~GetFdNone(t)
  BY <1>1, <1>5, Constants DEF GetFdNone, At, BootInv
<1>8. ~DriverRefuses(t)
  <2> SUFFICES ASSUME DriverRefuses(t) PROVE FALSE
    OBVIOUS
  <2>1. pc[t] = "open" /\ want[t].dev # Stdio
    BY DEF DriverRefuses, At
  <2>2. replaces[t] >= 0
    BY <1>1, <1>2, <1>5, <2>1 DEF BootInv, StdFds
  <2> QED
    BY <1>1, <2>1, <2>2 DEF AskInv
<1> QED
  BY <1>2, <1>3, <1>4, <1>5, <1>6, <1>7, <1>8 DEF StepOf, Opening, Releasing

\* Only the return of an open that start-up has made is counted.
LEMMA BootCounts ==
  ASSUME FilesInv, NEW t \in Threads, StepOf(t)
  PROVE  \/ booted' = booted
         \/ booted < 3 /\ booted' = booted + 1 /\ ReleaseRest(t)
<1>1. FilesTypeOK /\ AskInv /\ BootInv /\ booted \in 0..3
  BY DEF FilesInv, FilesTypeOK
<1>2. CASE booted < 3
  <2>1. CASE ReleaseRest(t)
    BY <1>2, <2>1 DEF ReleaseRest, Return
  <2>2. CASE DriverOpens(t)
    <3>1. replaces[t] \in StdFds
      BY <1>2, <2>2, BootStep DEF DriverOpens, BootOpen, At
    <3> QED
      BY <2>2, <3>1 DEF DriverOpens, StdFds
  <2> QED
    BY <1>2, <2>1, <2>2, BootStep
       DEF BootOpen, GetFdPend, GetFdSkip, GetFdTake, SetFlags, FileLocked,
           Redirect, ReleaseFirst
<1>3. CASE booted = 3
  <2>1. ~BootOpen /\ ~(replaces[t] >= 0)
    BY <1>1, <1>3 DEF BootOpen, AskInv
  <2> QED
    BY <2>1 DEF StepOf, Opening, Locking, Releasing, Calls, GetFdPend, GetFdSkip,
         GetFdTake, GetFdNone, SetFlags, FileLocked, DriverOpens, DriverRefuses,
         Redirect, LockPend, LockLook, LockGrant, ReleaseFirst, ReleaseRest, Open,
         Close, Lock, Unlock, Fcntl, Return
<1> QED
  BY <1>1, <1>2, <1>3

LEMMA AskInvStep == ASSUME FilesInv, FilesNext PROVE AskInv'
<1> SUFFICES ASSUME NEW t \in Threads, StepOf(t), NEW u \in Threads
             PROVE  (/\ pc[u] = "idle" \/ booted = 3 => replaces[u] = -1
                     /\ pc[u] = "redirect" => replaces[u] >= 0
                     /\ replaces[u] >= 0 => want[u].dev = Stdio
                     /\ replaces[u] < 0 /\ Asking(u) => want[u].dev \in Openable)'
  BY OneThread DEF AskInv
<1>1. FilesTypeOK /\ AskInv /\ BootInv /\ booted \in 0..3
  BY DEF FilesInv, FilesTypeOK
<1>2. CASE u # t
  <2>1. /\ pc'[u] = pc[u] /\ want'[u] = want[u] /\ replaces'[u] = replaces[u]
    BY <1>1, <1>2, OthersStand
  <2>2. booted' # booted => replaces[u] = -1
    <3>1. booted' # booted => booted < 3 /\ t = Main
      BY BootCounts, BootStep
    <3> QED
      BY <1>1, <1>2, <3>1 DEF BootInv, AskInv
  <2> QED
    BY <1>1, <2>1, <2>2 DEF AskInv, Asking
<1>3. CASE u = t
  <2> USE <1>1, <1>3 DEF At, GoTo, FilesTypeOK, Asking
  <2>1. CASE Return(t)
    BY <2>1 DEF Return
  <2>2. CASE t = Main /\ BootOpen
    <3>1. Redirected[booted + 1] \in 0..2
      BY <2>2, BootStep DEF BootOpen, StdFds
    <3> QED
      BY <2>2, <3>1 DEF BootOpen, Begin_open
  <2>3. CASE Open(t)
    BY <2>3 DEF Open, Begin_open, AskInv
  <2>4. CASE DriverOpens(t)
    BY <2>1, <2>4 DEF DriverOpens, AskInv
  <2>5. CASE GetFdNone(t) \/ ReleaseRest(t) \/ LockGrant(t)
    BY <2>1, <2>5 DEF GetFdNone, ReleaseRest, LockGrant
  <2>6. CASE LockLook(t)
    BY <2>1, <2>6 DEF LockLook, AskInv
  <2>7. CASE GetFdPend(t) \/ GetFdSkip(t) \/ GetFdTake(t) \/ SetFlags(t)
    BY <2>7 DEF GetFdPend, GetFdSkip, GetFdTake, SetFlags, AskInv
  <2>8. CASE FileLocked(t) \/ DriverRefuses(t) \/ Redirect(t) \/ ReleaseFirst(t)
    BY <2>8 DEF FileLocked, DriverRefuses, Redirect, ReleaseFirst, AskInv
  <2>9. CASE LockPend(t) \/ Close(t) \/ Lock(t) \/ Unlock(t) \/ Fcntl(t)
    BY <2>9 DEF LockPend, Close, Lock, Unlock, Fcntl, AskInv
  <2> QED
    BY <2>2, <2>3, <2>4, <2>5, <2>6, <2>7, <2>8, <2>9
       DEF StepOf, Opening, Locking, Releasing, Calls
<1> QED
  BY <1>2, <1>3

LEMMA EntryInvStep == ASSUME FilesInv, FilesNext PROVE EntryInv'
<1> SUFFICES ASSUME NEW t \in Threads, StepOf(t), NEW f \in Fds \ StdFds
             PROVE  (/\ dev(f) = NoDev => fd_flags(f) = {}
                     /\ dev(f) # NoDev => f <= alt_max_fd)'
  BY OneThread DEF EntryInv
<1>1. /\ FilesTypeOK /\ EntryInv /\ WorkInv /\ f \in Fds /\ f \in Int
      /\ alt_max_fd \in Int
  <2>1. FilesTypeOK /\ EntryInv /\ WorkInv
    BY DEF FilesInv
  <2>2. alt_max_fd \in -1..ALT_MAX_FD-1
    BY <2>1 DEF FilesTypeOK
  <2>3. alt_max_fd \in Int
    BY <2>2, Constants
  <2>4. f \in Fds /\ f \in Int
    BY Constants DEF Fds
  <2> QED
    BY <2>1, <2>3, <2>4
<1>2. alt_max_fd' \in Int /\ alt_max_fd <= alt_max_fd'
  <2>1. CASE GetFdTake(t)
    BY <1>1, <2>1 DEF GetFdTake, FilesTypeOK
  <2>2. ~GetFdTake(t) => alt_max_fd' = alt_max_fd
    BY DEF StepOf, Opening, Locking, Releasing, Calls, BootOpen, Begin_open,
       GetFdPend, GetFdSkip, GetFdNone, SetFlags, FileLocked, DriverOpens,
       DriverRefuses, Redirect, LockPend, LockLook, LockGrant, ReleaseFirst,
       ReleaseRest, Open, Close, Lock, Unlock, Fcntl, table
  <2> QED
    BY <1>1, <2>1, <2>2
<1>3. CASE GetFdTake(t) /\ i[t] = f
  <2>1. dev(f) = NoDev /\ f <= alt_max_fd'
    BY <1>1, <1>3 DEF GetFdTake, FilesTypeOK
  <2>2. dev(f)' = want[t].dev /\ fd_flags(f)' = fd_flags(f)
    BY <1>1, <1>3, TakeTable
  <2>3. fd_flags(f)' = {}
    BY <1>1, <2>1, <2>2 DEF EntryInv
  <2> QED
    BY <2>1, <2>3
<1>4. CASE dev(f) = NoDev /\ ~(GetFdTake(t) /\ i[t] = f)
  BY <1>1, <1>4, FreeStays DEF EntryInv
<1>5. CASE dev(f) # NoDev
  <2>1. f <= alt_max_fd'
    BY <1>1, <1>2, <1>5 DEF EntryInv
  <2>2. dev(f)' = NoDev => fd_flags(f)' = {}
    <3>1. CASE ReleaseRest(t) /\ fd[t] = f
      BY <1>1, <3>1, ReleaseRestTable
         DEF ReleaseRest, At, WorkInv, Works, Working
    <3>2. CASE ReleaseRest(t) /\ fd[t] # f
      BY <1>1, <1>5, <3>2, ReleaseRestTable
    <3>3. CASE GetFdTake(t)
      BY <1>1, <1>5, <3>3, TakeTable DEF GetFdTake
    <3>4. CASE Redirect(t)
      <4>1. replaces[t] >= 0
        BY <3>4 DEF Redirect, At, FilesInv, AskInv
      <4> QED
        BY <1>1, <1>5, <3>4, <4>1, RedirectTable
    <3>5. CASE SetFlags(t) \/ ReleaseFirst(t) \/ LockGrant(t) \/ Unlock(t)
               \/ Fcntl(t)
      BY <1>1, <1>5, <3>5, SetFlagsTable, ReleaseFirstTable, GrantTable,
         UnlockTable, FcntlTable
    <3> QED
      BY <1>1, <1>5, <3>1, <3>2, <3>3, <3>4, <3>5, TableKept
         DEF StepOf, Opening, Locking, Releasing, Calls
  <2> QED
    BY <2>1, <2>2
<1> QED
  BY <1>3, <1>4, <1>5

\* An entry that a thread has open is changed by that thread alone: by close(),
\* by fcntl() and by its locks.
LEMMA HeldInvStep == ASSUME FilesInv, FilesNext PROVE HeldInv'
<1> SUFFICES ASSUME NEW t \in Threads, StepOf(t), NEW f \in Fds,
                    held'[f].by # Nobody
             PROVE  (/\ f \notin StdFds
                     /\ held[f].dev \in Openable
                     /\ Intact(f, held[f].dev, held[f].mode))'
  BY OneThread DEF HeldInv
<1>1. /\ FilesTypeOK /\ AskInv /\ BootInv /\ OwnInv /\ HeldInv /\ WorkInv
      /\ CallInv
  BY DEF FilesInv
<1>2. CASE DriverOpens(t) /\ fd[t] = f /\ ~(replaces[t] >= 0)
  <2>1. pc[t] = "open" /\ Works(t)
    BY <1>2 DEF DriverOpens, At, Works, Working
  <2>2. /\ f \notin StdFds
        /\ Intact(f, want[t].dev, want[t].mode)
    BY <1>1, <1>2, <2>1 DEF WorkInv
  <2>3. want[t].dev \in Openable
    BY <1>1, <1>2, <2>1 DEF AskInv, Asking, FilesTypeOK
  <2>4. held'[f].dev = want[t].dev /\ held'[f].mode = want[t].mode
    BY <1>1, <1>2 DEF DriverOpens, FilesTypeOK
  <2>5. dev(f)' = dev(f) /\ fd_flags(f)' = fd_flags(f)
    BY <1>2, TableKept
  <2> QED
    BY <2>2, <2>3, <2>4, <2>5 DEF Intact
<1>3. CASE ~(DriverOpens(t) /\ fd[t] = f /\ ~(replaces[t] >= 0))
  <2>1. held'[f] = held[f]
    <3>1. CASE DriverOpens(t)
      BY <1>1, <1>3, <3>1 DEF DriverOpens, FilesTypeOK
    <3>2. CASE Close(t)
      BY <1>1, <3>2 DEF Close, NotHeld, FilesTypeOK
    <3> QED
      BY <3>1, <3>2, HeldKept
  <2>2. /\ held[f].by # Nobody
        /\ f \notin StdFds
        /\ held[f].dev \in Openable
        /\ Intact(f, held[f].dev, held[f].mode)
    BY <1>1, <2>1 DEF HeldInv
  <2>3. dev(f) # NoDev /\ ~(Works(t) /\ fd[t] = f)
    BY <1>1, <2>2, Constants DEF OwnInv, Intact, Targets
  <2>4. CASE held[f].by # t
    <3>1. dev(f)' = dev(f) /\ fd_flags(f)' = fd_flags(f)
      BY <2>2, <2>3, <2>4, OwnersOnly
    <3> QED
      BY <2>1, <2>2, <3>1 DEF Intact
  <2>5. /\ dev(f)' = dev(f)
        /\ fd_flags(f)' \cap AccessModes = fd_flags(f) \cap AccessModes
        /\ "DEV" \in fd_flags(f)' <=> "DEV" \in fd_flags(f)
    <3> USE <1>1, <2>2, <2>3
    <3>1. CASE GetFdTake(t)
      BY <3>1, TakeTable DEF GetFdTake
    <3>2. CASE SetFlags(t)
      BY <3>2, SetFlagsTable DEF SetFlags, At, Works, Working
    <3>3. CASE ReleaseFirst(t)
      BY <3>3, ReleaseFirstTable DEF ReleaseFirst, At, Works, Working
    <3>4. CASE ReleaseRest(t)
      BY <3>4, ReleaseRestTable DEF ReleaseRest, At, Works, Working
    <3>5. CASE Redirect(t)
      <4>1. replaces[t] >= 0
        BY <3>5 DEF Redirect, At, AskInv
      <4> QED
        BY <3>5, <4>1, RedirectTable
    <3>6. CASE LockGrant(t)
      BY <3>6, GrantTable DEF AccessModes
    <3>7. CASE Unlock(t)
      BY <3>7, UnlockTable DEF AccessModes
    <3>8. CASE Fcntl(t)
      BY <3>8, FcntlTable DEF AccessModes, Settable
    <3> QED
      BY <3>1, <3>2, <3>3, <3>4, <3>5, <3>6, <3>7, <3>8, TableKept
         DEF StepOf, Opening, Locking, Releasing, Calls
  <2> QED
    BY <2>1, <2>2, <2>5 DEF Intact
<1> QED
  BY <1>2, <1>3

\* No two calls work on the same entry, and none on one that is open.
LEMMA OwnInvStep == ASSUME FilesInv, FilesNext PROVE OwnInv'
<1> PICK t \in Threads : StepOf(t)
  BY OneThread
<1>1. /\ FilesTypeOK /\ AskInv /\ BootInv /\ OwnInv /\ HeldInv /\ WorkInv
      /\ CallInv
  BY DEF FilesInv
<1>2. HeldInv' /\ FilesTypeOK'
  BY HeldInvStep, FilesTypeStep DEF FilesInv
\* How a thread comes to work on an entry.
<1>3. Works(t)' =>
        \/ Works(t) /\ fd'[t] = fd[t] /\ held'[fd[t]] = held[fd[t]]
        \/ GetFdTake(t) /\ fd'[t] = i[t] /\ i[t] \in Fds /\ held' = held
        \/ Close(t) /\ fd'[t] \in Usable(t) /\ held'[fd'[t]] = NotHeld
  <2> USE <1>1 DEF At, GoTo, Works, Working, FilesTypeOK
  <2>1. CASE Return(t)
    BY <2>1 DEF Return
  <2>2. CASE GetFdTake(t)
    <3>1. i[t] \in Fds
      BY <2>2, TakeTable
    <3> QED
      BY <2>2, <3>1 DEF GetFdTake, history
  <2>3. CASE Close(t)
    BY <2>3, UsableFds DEF Close
  <2>4. CASE SetFlags(t) \/ FileLocked(t) \/ DriverRefuses(t) \/ Redirect(t)
             \/ ReleaseFirst(t)
    BY <2>4 DEF SetFlags, FileLocked, DriverRefuses, Redirect, ReleaseFirst,
                history
  <2>5. CASE DriverOpens(t)
    BY <2>1, <2>5 DEF DriverOpens
  <2>6. CASE GetFdNone(t) \/ ReleaseRest(t) \/ LockGrant(t)
    BY <2>1, <2>6 DEF GetFdNone, ReleaseRest, LockGrant
  <2>7. CASE LockLook(t)
    BY <2>1, <2>7 DEF LockLook
  <2>8. CASE (t = Main /\ BootOpen) \/ Open(t)
    BY <2>8 DEF BootOpen, Open, Begin_open
  <2>9. CASE GetFdPend(t) \/ GetFdSkip(t) \/ LockPend(t) \/ Lock(t) \/ Unlock(t)
             \/ Fcntl(t)
    BY <2>9 DEF GetFdPend, GetFdSkip, LockPend, Lock, Unlock, Fcntl
  <2> QED
    BY <2>2, <2>3, <2>4, <2>5, <2>6, <2>7, <2>8, <2>9
       DEF StepOf, Opening, Locking, Releasing, Calls
<1>4. ASSUME NEW u \in Threads, Works(u)' PROVE held'[fd'[u]].by = Nobody
  <2>1. CASE u # t
    <3>1. Works(u) /\ fd'[u] = fd[u] /\ fd[u] \in Fds /\ held[fd[u]].by = Nobody
      BY <1>1, <1>4, <2>1, OthersStand DEF Works, OwnInv, FilesTypeOK
    <3>2. CASE fd[u] \in StdFds
      BY <1>2, <3>1, <3>2 DEF HeldInv
    <3>3. CASE fd[u] \notin StdFds
      <4>1. dev(fd[u]) # NoDev
        BY <1>1, <3>1, <3>3 DEF WorkInv
      <4>2. ~(Works(t) /\ fd[t] = fd[u])
        BY <1>1, <2>1, <3>1, <3>3 DEF OwnInv
      <4>3. held[fd[u]].by # t
        BY <3>1, Constants
      <4> QED
        BY <3>1, <3>3, <4>1, <4>2, <4>3, OwnersOnly
    <3> QED
      BY <3>2, <3>3
  <2>2. CASE u = t
    <3>1. CASE Works(t) /\ fd'[t] = fd[t] /\ held'[fd[t]] = held[fd[t]]
      BY <1>1, <2>2, <3>1 DEF OwnInv
    <3>2. CASE GetFdTake(t) /\ fd'[t] = i[t] /\ i[t] \in Fds /\ held' = held
      <4>1. dev(i[t]) = NoDev
        BY <3>2 DEF GetFdTake
      <4> QED
        BY <1>1, <2>2, <3>2, <4>1, Constants DEF HeldInv, Intact, Targets
    <3>3. CASE Close(t) /\ fd'[t] \in Usable(t) /\ held'[fd'[t]] = NotHeld
      BY <2>2, <3>3 DEF NotHeld
    <3> QED
      BY <1>3, <1>4, <2>2, <3>1, <3>2, <3>3
  <2> QED
    BY <2>1, <2>2
<1>5. ASSUME NEW u \in Threads, u # t, Works(u)', Works(t)', fd'[u] = fd'[t],
             fd'[u] \notin StdFds
      PROVE  FALSE
  <2>1. /\ Works(u) /\ fd'[u] = fd[u] /\ fd[u] \in Fds /\ fd[u] \notin StdFds
        /\ held[fd[u]].by = Nobody /\ dev(fd[u]) # NoDev
    BY <1>1, <1>5, OthersStand DEF Works, OwnInv, WorkInv, FilesTypeOK
  <2>2. CASE Works(t) /\ fd'[t] = fd[t]
    BY <1>1, <1>5, <2>1, <2>2 DEF OwnInv
  <2>3. CASE GetFdTake(t) /\ fd'[t] = i[t]
    BY <1>5, <2>1, <2>3 DEF GetFdTake
  <2>4. CASE fd'[t] \in Usable(t)
    BY <1>5, <2>1, <2>4, Constants DEF Usable, Opened
  <2> QED
    BY <1>3, <1>5, <2>2, <2>3, <2>4
<1>6. ASSUME NEW u \in Threads, NEW v \in Threads, u # t, v # t, Works(u)',
             Works(v)', fd'[u] = fd'[v], fd'[u] \notin StdFds
      PROVE  u = v
  BY <1>1, <1>6, OthersStand DEF OwnInv, Works
<1> QED
  BY <1>4, <1>5, <1>6 DEF OwnInv

LEMMA WorkInvStep == ASSUME FilesInv, FilesNext PROVE WorkInv'
<1> SUFFICES ASSUME NEW t \in Threads, StepOf(t), NEW u \in Threads, Works(u)'
             PROVE  (/\ fd[u] \in StdFds => pc[u] \in {"release", "release_rest"}
                     /\ fd[u] \notin StdFds =>
                          /\ dev(fd[u]) # NoDev
                          /\ pc[u] \in {"set_flags", "release_rest"} =>
                               fd_flags(fd[u]) = {}
                     /\ pc[u] = "set_flags" => dev(fd[u]) = want[u].dev
                     /\ pc[u] \in {"file_locked", "open"} =>
                          Intact(fd[u], want[u].dev, want[u].mode)
                     /\ pc[u] = "redirect" => dev(fd[u]) = Stdio
                     /\ pc[u] \in {"file_locked", "open", "redirect"} =>
                          "EXCL" \notin fd_flags(fd[u]))'
  BY OneThread DEF WorkInv
<1>1. /\ FilesTypeOK /\ AskInv /\ BootInv /\ EntryInv /\ OwnInv /\ HeldInv
      /\ WorkInv /\ CallInv
  BY DEF FilesInv
<1>2. CASE u # t
  <2>1. /\ pc'[u] = pc[u] /\ fd'[u] = fd[u] /\ want'[u] = want[u]
        /\ Works(u) /\ fd[u] \in Fds
    BY <1>1, <1>2, OthersStand DEF Works, FilesTypeOK
  <2>2. CASE fd[u] \in StdFds
    BY <1>1, <2>1, <2>2 DEF WorkInv
  <2>3. CASE fd[u] \notin StdFds
    <3>1. dev(fd[u]) # NoDev /\ held[fd[u]].by # t
      BY <1>1, <2>1, <2>3, Constants DEF WorkInv, OwnInv
    <3>2. ~(Works(t) /\ fd[t] = fd[u])
      BY <1>1, <1>2, <2>1, <2>3 DEF OwnInv
    <3> DEFINE f == fd[u]
    <3>3. dev(f)' = dev(f) /\ fd_flags(f)' = fd_flags(f)
      <4>1. \A g \in Fds \ StdFds : g = fd[u] =>
              dev(g)' = dev(g) /\ fd_flags(g)' = fd_flags(g)
        BY <3>1, <3>2, OwnersOnly
      <4> QED
        BY <2>1, <2>3, <4>1
    <3> QED
      BY <1>1, <2>1, <2>3, <3>3 DEF WorkInv, Intact
  <2> QED
    BY <2>2, <2>3
<1>3. CASE u = t
  <2> USE <1>1, <1>3 DEF At, GoTo
  <2>1. fd[t] \in Fds /\ want[t] \in [dev : Targets, mode : AccessModes]
    BY DEF FilesTypeOK
  <2>2. CASE GetFdTake(t)
    <3>1. /\ pc'[t] = "set_flags" /\ fd'[t] = i[t] /\ want'[t] = want[t]
          /\ dev(i[t]) = NoDev
      BY <2>2 DEF GetFdTake, FilesTypeOK
    <3>2. /\ i[t] \in Fds
          /\ \A g \in Fds : /\ dev(g)' = IF g = i[t] THEN want[t].dev ELSE dev(g)
                            /\ fd_flags(g)' = fd_flags(g)
      BY <2>2, TakeTable
    <3>3. i[t] \notin StdFds
      BY <3>1, <3>2, Constants DEF BootInv
    <3>4. want[t].dev # NoDev /\ fd_flags(i[t]) = {}
      BY <2>1, <3>1, <3>2, <3>3, Constants DEF EntryInv, Targets
    <3> QED
      BY <3>1, <3>2, <3>3, <3>4
  <2>3. CASE SetFlags(t)
    <3>1. /\ pc'[t] \in {"open", "file_locked"} /\ fd'[t] = fd[t]
          /\ want'[t] = want[t] /\ pc[t] = "set_flags"
      BY <2>3 DEF SetFlags, FilesTypeOK
    <3>2. /\ dev(fd[t])' = dev(fd[t]) /\ fd[t] \notin StdFds
          /\ dev(fd[t]) = want[t].dev /\ dev(fd[t]) # NoDev
          /\ fd_flags(fd[t])' =
               {want[t].mode}
                 \cup (IF want[t].dev \in FileSystems THEN {} ELSE {"DEV"})
      BY <2>1, <2>3, <3>1, SetFlagsTable DEF WorkInv, Works, Working
    <3>3. Intact(fd[t], want[t].dev, want[t].mode)'
      BY <2>1, <3>1, <3>2, Constants DEF Intact, Targets, AccessModes
    <3>4. "EXCL" \notin fd_flags(fd[t])'
      BY <2>1, <3>2 DEF AccessModes
    <3> QED
      BY <3>1, <3>2, <3>3, <3>4
  <2>4. CASE FileLocked(t) \/ DriverRefuses(t) \/ DriverOpens(t)
    <3>1. /\ pc[t] \in {"file_locked", "open"} /\ Works(t) /\ fd[t] \notin StdFds
          /\ \/ pc'[t] = "idle"
             \/ /\ pc'[t] \in {"file_locked", "open", "redirect", "release"}
                /\ fd'[t] = fd[t] /\ want'[t] = want[t]
                /\ pc'[t] = "redirect" => replaces[t] >= 0
      BY <2>4 DEF FileLocked, DriverRefuses, DriverOpens, Return, WorkInv, Works,
                  Working, FilesTypeOK
    <3>2. \A g \in Fds : dev(g)' = dev(g) /\ fd_flags(g)' = fd_flags(g)
      BY <2>4, TableKept
    <3>3. dev(fd[t]) # NoDev /\ Intact(fd[t], want[t].dev, want[t].mode)
          /\ "EXCL" \notin fd_flags(fd[t])
      BY <3>1 DEF WorkInv
    <3>4. pc'[t] \in {"file_locked", "open", "redirect", "release"}
          /\ fd'[t] = fd[t] /\ want'[t] = want[t]
      BY <3>1 DEF Works, Working
    <3>5. Intact(fd[t], want[t].dev, want[t].mode)'
      BY <2>1, <3>2, <3>3, <3>4 DEF Intact
    <3>6. pc'[t] = "redirect" => dev(fd[t])' = Stdio
      BY <2>1, <3>1, <3>2, <3>3, <3>4 DEF AskInv, Intact
    <3> QED
      BY <2>1, <3>1, <3>2, <3>3, <3>4, <3>5, <3>6
  <2>5. CASE Redirect(t)
    <3>1. /\ pc[t] = "redirect" /\ pc'[t] = "release" /\ fd'[t] = fd[t]
          /\ replaces[t] >= 0
      BY <2>5 DEF Redirect, AskInv, FilesTypeOK
    <3>2. fd[t] \notin StdFds /\ dev(fd[t]) # NoDev
      BY <3>1 DEF WorkInv, Works, Working
    <3>3. dev(fd[t])' = dev(fd[t])
      BY <2>1, <2>5, <3>1, <3>2, RedirectTable
    <3> QED
      BY <3>1, <3>2, <3>3
  <2>6. CASE ReleaseFirst(t)
    <3>1. pc[t] = "release" /\ pc'[t] = "release_rest" /\ fd'[t] = fd[t]
      BY <2>6 DEF ReleaseFirst, FilesTypeOK
    <3>2. fd[t] \notin StdFds => dev(fd[t]) # NoDev /\ fd[t] > 2
      BY <2>1, <3>1, Constants DEF WorkInv, Works, Working, StdFds, Fds
    <3>3. /\ dev(fd[t])' = dev(fd[t])
          /\ fd[t] \notin StdFds => fd_flags(fd[t])' = {}
      BY <2>1, <2>6, <3>1, <3>2, ReleaseFirstTable
    <3> QED
      BY <3>1, <3>2, <3>3
  <2>7. CASE Close(t)
    <3>1. PICK f \in Usable(t) : fd' = [fd EXCEPT ![t] = f]
      BY <2>7 DEF Close
    <3>2. pc'[t] = "release" /\ fd'[t] = f /\ f \in Fds
      BY <2>7, <3>1, UsableFds DEF Close, FilesTypeOK
    <3>3. f \notin StdFds => dev(f) # NoDev
      BY <3>1, <3>2, Constants DEF Usable, Opened, HeldInv, Intact, Targets
    <3>4. dev(f)' = dev(f)
      BY <2>7, <3>2, TableKept
    <3> QED
      BY <3>2, <3>3, <3>4
  <2>8. CASE Unlock(t) \/ Fcntl(t)
    BY <2>8 DEF Unlock, Fcntl, Works, Working
  <2>9. CASE \/ (t = Main /\ BootOpen) \/ Open(t) \/ GetFdPend(t) \/ GetFdSkip(t)
             \/ GetFdNone(t) \/ LockPend(t) \/ LockLook(t) \/ LockGrant(t)
             \/ ReleaseRest(t) \/ Lock(t)
    <3>1. CASE Return(t)
      BY <3>1 DEF Return, Works, Working, FilesTypeOK
    <3>2. CASE GetFdNone(t) \/ LockGrant(t) \/ ReleaseRest(t)
      BY <3>1, <3>2 DEF GetFdNone, LockGrant, ReleaseRest
    <3>3. CASE LockLook(t)
      BY <3>1, <3>3 DEF LockLook, Works, Working
    <3>4. CASE (t = Main /\ BootOpen) \/ Open(t)
      BY <3>4 DEF BootOpen, Open, Begin_open, Works, Working, FilesTypeOK
    <3>5. CASE GetFdPend(t) \/ GetFdSkip(t) \/ LockPend(t) \/ Lock(t)
      BY <3>5 DEF GetFdPend, GetFdSkip, LockPend, Lock, Works, Working, FilesTypeOK
    <3> QED
      BY <2>9, <3>2, <3>3, <3>4, <3>5
  <2> QED
    BY <2>2, <2>3, <2>4, <2>5, <2>6, <2>7, <2>8, <2>9
       DEF StepOf, Opening, Locking, Releasing, Calls
<1> QED
  BY <1>2, <1>3

\* Start-up goes on, one standard descriptor after the other.
LEMMA BootInvStep == ASSUME FilesInv, FilesNext PROVE BootInv'
<1> PICK t \in Threads : StepOf(t)
  BY OneThread
<1>1. /\ FilesTypeOK /\ AskInv /\ BootInv /\ EntryInv /\ OwnInv /\ HeldInv
      /\ WorkInv /\ booted \in 0..3
  BY DEF FilesInv, FilesTypeOK
<1>0. StdFds \subseteq Fds /\ 3 \in Fds /\ 3 \notin StdFds
  BY Constants DEF StdFds, Fds
<1>2. (\A f \in StdFds : dev(f) \in {Stdio, alt_dev_null})'
  BY <1>1, StandardStays DEF BootInv
<1>3. ASSUME NEW f \in StdFds, dev(f) = Stdio PROVE dev(f)' = Stdio
  BY <1>3, StandardStays
<1>4. (\A k \in 1..booted : dev(Redirected[k]) = Stdio)'
  <2>1. ASSUME NEW k \in 1..booted PROVE dev(Redirected[k])' = Stdio
    <3>1. Redirected[k] \in StdFds /\ dev(Redirected[k]) = Stdio
      BY <1>1, <2>1 DEF BootInv, Redirected, StdFds
    <3> QED
      BY <1>3, <3>1
  <2>2. ASSUME NEW k \in 1..3, k = booted + 1, booted < 3, ReleaseRest(t)
        PROVE  dev(Redirected[k])' = Stdio
    <3>1. t = Main /\ pc[Main] = "release_rest" /\ Redirected[k] \in StdFds
      BY <2>2, BootStep DEF ReleaseRest, At
    <3>2. dev(Redirected[k]) = Stdio
      BY <1>1, <2>2, <3>1 DEF BootInv
    <3> QED
      BY <1>3, <3>1, <3>2
  <2>3. CASE booted' = booted
    BY <2>1, <2>3
  <2>4. CASE booted < 3 /\ booted' = booted + 1 /\ ReleaseRest(t)
    BY <1>1, <2>1, <2>2, <2>4
  <2> QED
    BY <2>3, <2>4, BootCounts
<1>5. ASSUME booted' < 3
      PROVE  (/\ \A u \in Threads \ {Main} : pc[u] = "idle"
              /\ pc[Main] \notin {"fd_lock", "look"}
              /\ pc[Main] # "idle" => replaces[Main] = Redirected[booted + 1]
              /\ pc[Main] = "search" => i[Main] <= 3
              /\ pc[Main] \in {"release", "release_rest"} =>
                   dev(Redirected[booted + 1]) = Stdio
              /\ \A f \in Fds : "EXCL" \notin fd_flags(f) /\ held[f].by = Nobody
              /\ \A f \in Fds \ StdFds :
                   dev(f) = NoDev \/ (Works(Main) /\ fd[Main] = f))'
  <2>1. booted < 3
    BY <1>1, <1>5, BootCounts
  <2>2. /\ t = Main
        /\ \/ BootOpen \/ GetFdPend(t) \/ GetFdSkip(t) \/ GetFdTake(t)
           \/ SetFlags(t) \/ FileLocked(t) \/ DriverOpens(t) \/ Redirect(t)
           \/ ReleaseFirst(t) \/ ReleaseRest(t)
        /\ ~BootOpen => replaces[t] = Redirected[booted + 1]
        /\ Redirected[booted + 1] \in StdFds
    BY <2>1, BootStep
  <2>3. /\ \A f \in Fds : "EXCL" \notin fd_flags(f) /\ held[f].by = Nobody
        /\ \A f \in Fds \ StdFds :
             dev(f) = NoDev \/ (Works(Main) /\ fd[Main] = f)
        /\ pc[Main] = "search" => i[Main] <= 3
        /\ pc[Main] \in {"release", "release_rest"} =>
             dev(Redirected[booted + 1]) = Stdio
    BY <1>1, <2>1 DEF BootInv
  <2>4. (\A u \in Threads \ {Main} : pc[u] = "idle")'
    BY <1>1, <2>1, <2>2, OthersStand DEF BootInv
  <2>5. \A f \in Fds : held'[f].by = Nobody
    <3>1. CASE DriverOpens(t)
      <4>1. replaces[t] >= 0
        BY <2>2, <3>1 DEF DriverOpens, BootOpen, At, StdFds
      <4> QED
        BY <2>3, <3>1, <4>1 DEF DriverOpens
    <3>2. ~Close(t)
      BY <1>1, <2>1 DEF Close
    <3> QED
      BY <2>3, <3>1, <3>2, HeldKept
  <2>6. \A f \in Fds : "EXCL" \notin fd_flags(f)'
    <3>1. CASE GetFdTake(t)
      BY <1>1, <2>3, <3>1, TakeTable
    <3>2. CASE SetFlags(t)
      <4>1. want[t].mode # "EXCL"
        BY <1>1 DEF FilesTypeOK, AccessModes
      <4> QED
        BY <1>1, <2>3, <3>2, <4>1, SetFlagsTable
    <3>3. CASE Redirect(t)
      <4>1. replaces[t] >= 0 /\ fd[t] \in Fds
        BY <1>1, <3>3 DEF Redirect, At, AskInv, FilesTypeOK
      <4> QED
        BY <1>1, <2>3, <3>3, <4>1, RedirectTable
    <3>4. CASE ReleaseFirst(t)
      BY <1>1, <2>3, <3>4, ReleaseFirstTable
    <3>5. CASE ReleaseRest(t)
      BY <1>1, <2>3, <3>5, ReleaseRestTable
    <3> QED
      BY <2>2, <2>3, <3>1, <3>2, <3>3, <3>4, <3>5, TableKept
  <2>7. /\ pc'[t] \notin {"fd_lock", "look"}
        /\ pc'[t] # "idle" =>
             replaces'[t] = Redirected[booted + 1] /\ booted' = booted
        /\ pc'[t] = "search" => i'[t] <= 3
        /\ pc'[t] \in {"release", "release_rest"} =>
              Redirect(t) \/ ReleaseFirst(t)
    <3> USE DEF At, GoTo
    <3>0. /\ FilesTypeOK
          /\ pc[t] # "idle" => replaces[t] = Redirected[booted + 1]
      BY <1>1, <2>2 DEF BootOpen
    <3>1. CASE BootOpen
      <4>1. PICK mode : Begin_open(t, Stdio, mode, Redirected[booted + 1])
        BY <2>2, <3>1 DEF BootOpen
      <4>2. booted' = booted
        BY <3>1 DEF BootOpen
      <4> QED
        BY <3>0, <4>1, <4>2 DEF Begin_open, FilesTypeOK
    <3>2. CASE GetFdPend(t)
      BY <3>0, <3>2 DEF GetFdPend, FilesTypeOK
    <3>3. CASE GetFdTake(t) \/ SetFlags(t)
      BY <3>0, <3>3 DEF GetFdTake, SetFlags, FilesTypeOK
    <3>4. CASE GetFdSkip(t)
      <4>1. i[t] # 3 /\ i[t] <= 3 /\ i[t] \in Int
        BY <1>0, <2>2, <2>3, <3>0, <3>4 DEF GetFdSkip, Works, Working, FilesTypeOK
      <4>2. i'[t] = i[t] + 1 /\ i[t] + 1 <= 3
        BY <3>0, <3>4, <4>1 DEF GetFdSkip, FilesTypeOK
      <4> QED
        BY <3>0, <3>4, <4>2 DEF GetFdSkip
    <3>5. CASE FileLocked(t)
      <4>1. pc'[t] # "release"
        <5>1. i[t] <= alt_max_fd => i[t] \in Fds
          BY <3>0, Constants DEF FilesTypeOK, Fds
        <5>2. i[t] <= alt_max_fd => "EXCL" \notin fd_flags(i[t])
          BY <2>3, <5>1
        <5>3. i[t] \in Int /\ alt_max_fd \in Int
          BY <3>0, Constants DEF FilesTypeOK
        <5> QED
          BY <3>0, <3>5, <5>2, <5>3 DEF FileLocked, FilesTypeOK
      <4> QED
        BY <3>0, <3>5, <4>1 DEF FileLocked, FilesTypeOK
    <3>6. CASE DriverOpens(t)
      <4>1. replaces[t] = Redirected[booted + 1] /\ replaces[t] >= 0
        BY <2>2, <3>0, <3>6 DEF DriverOpens, StdFds
      <4> QED
        BY <3>0, <3>6, <4>1 DEF DriverOpens, FilesTypeOK
    <3>7. CASE Redirect(t) \/ ReleaseFirst(t)
      BY <3>0, <3>7 DEF Redirect, ReleaseFirst, FilesTypeOK
    <3>8. CASE ReleaseRest(t)
      BY <3>0, <3>8 DEF ReleaseRest, Return, FilesTypeOK
    <3> QED
      BY <2>2, <3>1, <3>2, <3>3, <3>4, <3>5, <3>6, <3>7, <3>8
  <2>8. pc'[Main] \in {"release", "release_rest"} =>
          dev(Redirected[booted + 1])' = Stdio
    <3> SUFFICES ASSUME pc'[Main] \in {"release", "release_rest"}
                 PROVE  dev(Redirected[booted + 1])' = Stdio
      OBVIOUS
    <3>1. booted' = booted /\ (Redirect(t) \/ ReleaseFirst(t))
      BY <2>2, <2>7
    <3>2. \A f \in StdFds : f = Redirected[booted + 1] => dev(f)' = Stdio
      <4>1. CASE Redirect(t)
        <5>1. replaces[t] >= 0 /\ dev(fd[t]) = Stdio
          BY <1>1, <4>1 DEF Redirect, At, AskInv, WorkInv, Works, Working
        <5>2. replaces[t] = Redirected[booted + 1]
          BY <2>2, <4>1 DEF Redirect, BootOpen, At
        <5> QED
          BY <1>0, <1>1, <4>1, <5>1, <5>2, RedirectTable
      <4>2. CASE ReleaseFirst(t)
        <5>1. dev(Redirected[booted + 1]) = Stdio
          BY <2>2, <2>3, <4>2 DEF ReleaseFirst, At
        <5> QED
          BY <1>3, <5>1
      <4> QED
        BY <3>1, <4>1, <4>2
    <3> QED
      BY <2>2, <3>1, <3>2
  <2>9. \A f \in Fds \ StdFds :
          dev(f)' = NoDev \/ (Works(Main)' /\ fd'[Main] = f)
    <3> SUFFICES ASSUME NEW f \in Fds \ StdFds
                 PROVE  dev(f)' = NoDev \/ (Works(t)' /\ fd'[t] = f)
      BY <2>2
    <3>1. CASE GetFdTake(t)
      BY <1>1, <2>2, <2>3, <3>1, TakeTable
         DEF GetFdTake, GoTo, At, Works, Working, FilesTypeOK
    <3>2. CASE dev(f) = NoDev /\ ~GetFdTake(t)
      BY <3>2, FreeStays
    <3>3. CASE dev(f) # NoDev /\ ~GetFdTake(t)
      <4>1. Works(t) /\ fd[t] = f
        BY <2>2, <2>3, <3>3
      <4>2. CASE ReleaseRest(t)
        <5>1. f > 2
          BY Constants DEF Fds, StdFds
        <5> QED
          BY <1>1, <4>1, <4>2, <5>1, ReleaseRestTable
      <4>3. CASE DriverOpens(t)
        <5>1. replaces[t] >= 0
          BY <2>2, <4>3 DEF DriverOpens, BootOpen, At, StdFds
        <5> QED
          BY <1>1, <4>1, <4>3, <5>1 DEF DriverOpens, GoTo, Works, Working, FilesTypeOK
      <4>4. CASE SetFlags(t) \/ FileLocked(t) \/ Redirect(t) \/ ReleaseFirst(t)
        BY <1>1, <4>1, <4>4 DEF SetFlags, FileLocked, Redirect, ReleaseFirst, GoTo,
           At, Works, Working, FilesTypeOK
      <4>5. ~BootOpen /\ ~GetFdPend(t) /\ ~GetFdSkip(t)
        BY <2>2, <4>1 DEF BootOpen, GetFdPend, GetFdSkip, At, Works, Working
      <4> QED
        BY <2>2, <3>3, <4>2, <4>3, <4>4, <4>5
    <3> QED
      BY <3>1, <3>2, <3>3
  <2>10. pc'[Main] # "idle" => booted' = booted
    BY <2>2, <2>7
  <2> QED
    BY <2>2, <2>4, <2>5, <2>6, <2>7, <2>8, <2>9, <2>10
<1> QED
  BY <1>2, <1>4, <1>5 DEF BootInv

LEMMA CallInvStep == ASSUME FilesInv, FilesNext PROVE CallInv'
<1> SUFFICES ASSUME NEW t \in Threads, StepOf(t), NEW u \in Threads,
                    pc'[u] \in {"fd_lock", "look"}
             PROVE  (/\ fd[u] \in StdFds \/ held[fd[u]].by = u
                     /\ dev(fd[u]) \in Devices)'
  BY OneThread DEF CallInv
<1>1. /\ FilesTypeOK /\ BootInv /\ OwnInv /\ HeldInv /\ CallInv
  BY DEF FilesInv
<1>2. \A f \in StdFds : dev(f)' \in Devices
  <2>1. BootInv'
    BY BootInvStep
  <2> QED
    BY <2>1, Constants DEF BootInv
<1>3. CASE u # t
  <2>1. /\ fd'[u] = fd[u] /\ fd[u] \in Fds
        /\ fd[u] \in StdFds \/ held[fd[u]].by = u
        /\ dev(fd[u]) \in Devices
    BY <1>1, <1>3, OthersStand DEF CallInv, FilesTypeOK
  <2>2. CASE fd[u] \in StdFds
    BY <1>2, <2>1, <2>2
  <2>3. CASE fd[u] \notin StdFds
    <3>1. held[fd[u]].by # t /\ held[fd[u]].by # Nobody /\ dev(fd[u]) # NoDev
      BY <1>3, <2>1, <2>3, Constants
    <3>2. ~(Works(t) /\ fd[t] = fd[u])
      BY <1>1, <3>1 DEF OwnInv
    <3>3. \A g \in Fds \ StdFds : g = fd[u] =>
            dev(g)' = dev(g) /\ held'[g] = held[g]
      BY <3>1, <3>2, OwnersOnly
    <3> QED
      BY <2>1, <2>3, <3>3
  <2> QED
    BY <2>2, <2>3
<1>4. CASE u = t
  <2> USE DEF At, GoTo
  <2>1. CASE Lock(t)
    <3>1. PICK f \in Usable(t) :
            "DEV" \in fd_flags(f) /\ fd' = [fd EXCEPT ![t] = f]
      BY <2>1 DEF Lock
    <3>2. f \in Fds /\ (f \in StdFds \/ held[f].by = t)
      BY UsableFds, <3>1 DEF Usable, Opened
    <3>3. f \notin StdFds => dev(f) \in Devices
      BY <1>1, <3>1, <3>2, Constants DEF HeldInv, Intact
    <3>4. dev(f)' = dev(f) /\ held' = held /\ fd'[t] = f
      <4>1. \A g \in Fds : dev(g)' = dev(g)
        BY <2>1, TableKept
      <4> QED
        BY <1>1, <2>1, <3>1, <3>2, <4>1 DEF Lock, history, FilesTypeOK
    <3> QED
      BY <1>2, <1>4, <3>2, <3>3, <3>4
  <2>2. CASE LockPend(t) \/ LockLook(t)
    <3>1. \A g \in Fds : dev(g)' = dev(g)
      BY <2>2, TableKept
    <3>2. pc[t] \in {"fd_lock", "look"} /\ held' = held
      BY <2>2 DEF LockPend, LockLook, history
    <3>3. fd'[t] = fd[t] /\ fd[t] \in Fds
      BY <1>1, <1>4, <2>2 DEF LockPend, LockLook, Return, FilesTypeOK
    <3> QED
      BY <1>1, <1>4, <3>1, <3>2, <3>3 DEF CallInv
  <2>3. CASE Return(t)
    BY <1>1, <1>4, <2>3 DEF Return, FilesTypeOK
  <2>4. CASE GetFdNone(t) \/ ReleaseRest(t) \/ LockGrant(t) \/ DriverOpens(t)
    BY <1>1, <1>4, <2>3, <2>4
       DEF GetFdNone, ReleaseRest, LockGrant, DriverOpens, FilesTypeOK
  <2>5. CASE \/ (t = Main /\ BootOpen) \/ Open(t) \/ GetFdPend(t) \/ GetFdSkip(t)
             \/ GetFdTake(t) \/ SetFlags(t)
    BY <1>1, <1>4, <2>5 DEF BootOpen, Open, Begin_open, GetFdPend, GetFdSkip,
       GetFdTake, SetFlags, FilesTypeOK
  <2>6. CASE FileLocked(t) \/ DriverRefuses(t) \/ Redirect(t) \/ ReleaseFirst(t)
    BY <1>1, <1>4, <2>6 DEF FileLocked, DriverRefuses, Redirect, ReleaseFirst,
       FilesTypeOK
  <2>7. CASE Close(t) \/ Unlock(t) \/ Fcntl(t)
    BY <1>1, <1>4, <2>7 DEF Close, Unlock, Fcntl, FilesTypeOK
  <2> QED
    BY <2>1, <2>2, <2>4, <2>5, <2>6, <2>7
       DEF StepOf, Opening, Locking, Releasing, Calls
<1> QED
  BY <1>3, <1>4

\* Who searches or grants has the semaphore, and nobody else.
LEMMA SemaphoreInvStep == ASSUME FilesInv, FilesNext PROVE SemaphoreInv'
<1> SUFFICES ASSUME NEW t \in Threads, StepOf(t), NEW u \in Threads
             PROVE  (pc'[u] \in {"search", "look"}) = (alt_fd_list_lock' = u)
  BY OneThread DEF SemaphoreInv
<1>1. FilesTypeOK /\ SemaphoreInv
  BY DEF FilesInv
<1>2. Nobody \notin Threads /\ u # Nobody /\ t # Nobody
  BY Constants
<1>3. /\ (pc[u] \in {"search", "look"}) = (alt_fd_list_lock = u)
      /\ (pc[t] \in {"search", "look"}) = (alt_fd_list_lock = t)
  BY <1>1 DEF SemaphoreInv
<1>4. u # t => pc'[u] = pc[u]
  BY <1>1, OthersStand
<1> USE DEF At, GoTo, FilesTypeOK
<1>5. CASE GetFdPend(t) \/ LockPend(t)
  BY <1>1, <1>2, <1>3, <1>4, <1>5 DEF GetFdPend, LockPend
<1>6. CASE Return(t) /\ pc[t] \in {"search", "look"} /\ alt_fd_list_lock' = Nobody
  <2>1. pc'[t] = "idle"
    BY <1>1, <1>6 DEF Return
  <2> QED
    BY <1>2, <1>3, <1>4, <1>6, <2>1
<1>7. CASE GetFdTake(t)
  BY <1>1, <1>2, <1>3, <1>4, <1>7 DEF GetFdTake
<1>8. CASE /\ (pc[t] \in {"search", "look"}) = (pc'[t] \in {"search", "look"})
           /\ alt_fd_list_lock' = alt_fd_list_lock
  BY <1>3, <1>4, <1>8
<1>9. CASE GetFdNone(t) \/ LockGrant(t)
  BY <1>6, <1>9 DEF GetFdNone, LockGrant
<1>10. CASE LockLook(t)
  BY <1>6, <1>8, <1>10 DEF LockLook
<1>11. CASE ReleaseRest(t) \/ DriverOpens(t)
  <2>1. /\ pc[t] \notin {"search", "look"} /\ pc'[t] \notin {"search", "look"}
        /\ alt_fd_list_lock' = alt_fd_list_lock
    BY <1>1, <1>11 DEF ReleaseRest, DriverOpens, Return
  <2> QED
    BY <1>8, <2>1
<1>12. CASE (t = Main /\ BootOpen) \/ Open(t)
  BY <1>1, <1>8, <1>12 DEF BootOpen, Open, Begin_open
<1>13. CASE GetFdSkip(t) \/ SetFlags(t) \/ FileLocked(t) \/ DriverRefuses(t)
  BY <1>1, <1>8, <1>13 DEF GetFdSkip, SetFlags, FileLocked, DriverRefuses
<1>14. CASE \/ Redirect(t) \/ ReleaseFirst(t) \/ Close(t) \/ Lock(t) \/ Unlock(t)
            \/ Fcntl(t)
  BY <1>1, <1>8, <1>14 DEF Redirect, ReleaseFirst, Close, Lock, Unlock, Fcntl
<1> QED
  BY <1>5, <1>7, <1>9, <1>10, <1>11, <1>12, <1>13, <1>14
     DEF StepOf, Opening, Locking, Releasing, Calls

\* While the semaphore is held for a lock no other entry comes to the device.
LEMMA LookInvStep == ASSUME FilesInv, FilesNext PROVE LookInv'
<1> SUFFICES ASSUME NEW t \in Threads, StepOf(t), NEW u \in Threads,
                    pc'[u] = "look", NEW h \in Fds, h < i'[u], h # fd'[u],
                    dev(h)' = dev(fd[u])'
             PROVE  FALSE
  BY OneThread DEF LookInv
<1>1. FilesTypeOK /\ BootInv /\ CallInv /\ SemaphoreInv /\ LookInv
  BY DEF FilesInv
<1>2. dev(fd[u])' \in Devices
  BY CallInvStep DEF CallInv
\* How a thread comes to search.
<1>3. u = t =>
        \/ LockPend(t) /\ i'[t] = 0
        \/ /\ LockLook(t) /\ pc[t] = "look" /\ fd'[t] = fd[t]
           /\ i[t] = fd[t] \/ dev(i[t]) # dev(fd[t])
           /\ i'[t] = i[t] + 1
  <2> SUFFICES ASSUME u = t
               PROVE  \/ LockPend(t) /\ i'[t] = 0
                      \/ /\ LockLook(t) /\ pc[t] = "look" /\ fd'[t] = fd[t]
                         /\ i[t] = fd[t] \/ dev(i[t]) # dev(fd[t])
                         /\ i'[t] = i[t] + 1
    OBVIOUS
  <2> USE <1>1 DEF At, GoTo
  <2>1. CASE Return(t)
    BY <2>1 DEF Return, FilesTypeOK
  <2>2. CASE GetFdNone(t) \/ ReleaseRest(t) \/ LockGrant(t) \/ DriverOpens(t)
    BY <2>1, <2>2 DEF GetFdNone, ReleaseRest, LockGrant, DriverOpens, FilesTypeOK
  <2>3. CASE LockPend(t)
    BY <2>3 DEF LockPend, FilesTypeOK
  <2>4. CASE LockLook(t)
    BY <2>1, <2>4 DEF LockLook, FilesTypeOK
  <2>5. CASE \/ (t = Main /\ BootOpen) \/ Open(t) \/ GetFdPend(t) \/ GetFdSkip(t)
             \/ GetFdTake(t) \/ SetFlags(t)
    BY <2>5 DEF BootOpen, Open, Begin_open, GetFdPend, GetFdSkip, GetFdTake,
                SetFlags, FilesTypeOK
  <2>6. CASE FileLocked(t) \/ DriverRefuses(t) \/ Redirect(t) \/ ReleaseFirst(t)
    BY <2>6 DEF FileLocked, DriverRefuses, Redirect, ReleaseFirst, FilesTypeOK
  <2>7. CASE Close(t) \/ Lock(t) \/ Unlock(t) \/ Fcntl(t)
    BY <2>7 DEF Close, Lock, Unlock, Fcntl, FilesTypeOK
  <2> QED
    BY <2>2, <2>3, <2>4, <2>5, <2>6, <2>7
       DEF StepOf, Opening, Locking, Releasing, Calls
<1>4. h \in Int /\ i[u] \in Int
  BY <1>1, Constants DEF FilesTypeOK, Fds
<1>5. CASE u = t /\ LockPend(t) /\ i'[t] = 0
  BY <1>4, <1>5, Constants DEF Fds
<1>6. CASE u = t /\ LockLook(t)
  <2>1. /\ pc[t] = "look" /\ fd'[t] = fd[t]
        /\ i[t] = fd[t] \/ dev(i[t]) # dev(fd[t])
        /\ i'[t] = i[t] + 1
    BY <1>3, <1>6 DEF LockPend, LockLook, At
  <2>2. dev(h)' = dev(h) /\ dev(fd[u])' = dev(fd[u])
    <3>1. \A g \in Fds : dev(g)' = dev(g)
      BY <1>6, TableKept
    <3> QED
      BY <1>1, <1>6, <2>1, <3>1 DEF FilesTypeOK
  <2>3. h < i[t] \/ h = i[t]
    BY <1>4, <1>6, <2>1
  <2> QED
    BY <1>1, <1>6, <2>1, <2>2, <2>3 DEF LookInv
<1>7. CASE u # t
  <2>1. pc[u] = "look" /\ i'[u] = i[u] /\ fd'[u] = fd[u] /\ fd[u] \in Fds
    BY <1>1, <1>7, OthersStand DEF FilesTypeOK
  <2>2. alt_fd_list_lock = u /\ pc[t] \notin {"search", "look"}
    BY <1>1, <1>7, <2>1 DEF SemaphoreInv
  <2>3. ~GetFdTake(t)
    BY <2>2 DEF GetFdTake, At
  <2>4. ~Redirect(t)
    <3>1. booted = 3
      BY <1>1, <2>1 DEF BootInv, FilesTypeOK
    <3>2. pc[t] # "redirect"
      BY <3>1 DEF FilesInv, AskInv
    <3> QED
      BY <3>2 DEF Redirect, At
  <2>5. \A g \in Fds : dev(g)' = dev(g) \/ dev(g)' = NoDev
    <3>1. CASE SetFlags(t) \/ ReleaseFirst(t) \/ ReleaseRest(t) \/ LockGrant(t)
      BY <1>1, <3>1, SetFlagsTable, ReleaseFirstTable, ReleaseRestTable, GrantTable
    <3>2. CASE Unlock(t)
      BY <1>1, <3>2, UnlockTable
    <3>3. CASE Fcntl(t)
      BY <1>1, <3>3, FcntlTable
    <3> QED
      BY <2>3, <2>4, <3>1, <3>2, <3>3, TableKept
         DEF StepOf, Opening, Locking, Releasing, Calls
  <2>6. dev(fd[u])' = dev(fd[u]) /\ dev(h)' = dev(h)
    BY <1>2, <2>1, <2>5, Constants
  <2> QED
    BY <1>1, <2>1, <2>6 DEF LookInv
<1> QED
  BY <1>3, <1>5, <1>6, <1>7

\* Whose entry is locked stays as it is, unless the step locks it.
LEMMA LockStays ==
  ASSUME FilesInv, NEW t \in Threads, StepOf(t), NEW f \in Fds,
         "EXCL" \in fd_flags(f)', ~(LockGrant(t) /\ fd[t] = f)
  PROVE  /\ "EXCL" \in fd_flags(f) /\ dev(f)' = dev(f)
         /\ f \notin StdFds => lockedAt'[f] = lockedAt[f]
<1>1. /\ FilesTypeOK /\ AskInv /\ BootInv /\ EntryInv /\ WorkInv
      /\ f \in Int /\ fd[t] \in Fds
  <2>1. FilesTypeOK /\ AskInv /\ BootInv /\ EntryInv /\ WorkInv
    BY DEF FilesInv
  <2>2. f \in Int
    BY Constants DEF Fds
  <2> QED
    BY <2>1, <2>2 DEF FilesTypeOK
<1>2. CASE GetFdTake(t)
  <2>1. "EXCL" \in fd_flags(f)
    BY <1>1, <1>2, TakeTable
  <2>2. dev(f) # NoDev
    BY <1>1, <2>1, Constants DEF EntryInv, BootInv
  <2> QED
    BY <1>1, <1>2, <2>1, <2>2, TakeTable DEF GetFdTake, history
<1>3. CASE SetFlags(t)
  <2>1. want[t].mode # "EXCL"
    BY <1>1 DEF FilesTypeOK, AccessModes
  <2>2. f # fd[t]
    BY <1>1, <1>3, <2>1, SetFlagsTable
  <2> QED
    BY <1>1, <1>3, <2>2, SetFlagsTable DEF SetFlags, history
<1>4. CASE ReleaseFirst(t)
  BY <1>1, <1>4, ReleaseFirstTable DEF ReleaseFirst, history
<1>5. CASE ReleaseRest(t)
  <2>1. "EXCL" \in fd_flags(f)
    BY <1>1, <1>5, ReleaseRestTable
  <2>2. f \notin StdFds => f # fd[t]
    BY <1>1, <1>5, <2>1 DEF ReleaseRest, At, WorkInv, Works, Working
  <2>3. f \in StdFds => ~(f > 2)
    BY DEF StdFds
  <2>4. dev(f)' = dev(f)
    BY <1>1, <1>5, <2>2, <2>3, ReleaseRestTable
  <2>5. f \notin StdFds => lockedAt'[f] = lockedAt[f]
    BY <1>1, <1>5, <2>2 DEF ReleaseRest, FilesTypeOK
  <2> QED
    BY <2>1, <2>4, <2>5
<1>6. CASE Redirect(t)
  <2>1. replaces[t] >= 0
    BY <1>1, <1>6 DEF Redirect, At, AskInv
  <2>2. booted < 3
    BY <1>1, <2>1 DEF AskInv, FilesTypeOK
  <2>3. \A g \in Fds : "EXCL" \notin fd_flags(g)
    BY <1>1, <2>2 DEF BootInv
  <2> QED
    BY <1>1, <1>6, <2>1, <2>3, RedirectTable
<1>7. CASE LockGrant(t)
  BY <1>1, <1>7, GrantTable DEF LockGrant, FilesTypeOK
<1>8. CASE Unlock(t)
  <2>1. PICK g \in Fds :
          /\ lockedAt' = [lockedAt EXCEPT ![g] = -1]
          /\ \A h \in Fds :
               /\ dev(h)' = dev(h)
               /\ fd_flags(h)' = IF h = g THEN fd_flags(h) \ {"EXCL"}
                                          ELSE fd_flags(h)
    BY <1>1, <1>8, UnlockTable
  <2>2. f # g
    BY <2>1
  <2> QED
    BY <1>1, <2>1, <2>2 DEF FilesTypeOK
<1>9. CASE Fcntl(t)
  <2>1. lockedAt' = lockedAt
    BY <1>9 DEF Fcntl, history
  <2> QED
    BY <1>1, <1>9, <2>1, FcntlTable DEF Settable
<1>10. CASE \/ BootOpen \/ GetFdPend(t) \/ GetFdSkip(t) \/ GetFdNone(t)
            \/ FileLocked(t) \/ DriverOpens(t) \/ DriverRefuses(t)
            \/ LockPend(t) \/ LockLook(t) \/ Open(t) \/ Close(t) \/ Lock(t)
  <2>1. \A g \in Fds : dev(g)' = dev(g) /\ fd_flags(g)' = fd_flags(g)
    BY <1>10, TableKept
  <2>2. lockedAt' = lockedAt
    BY <1>10 DEF BootOpen, Begin_open, GetFdPend, GetFdSkip, GetFdNone, FileLocked,
       DriverOpens, DriverRefuses, LockPend, LockLook, Open, Close, Lock, history
  <2> QED
    BY <2>1, <2>2
<1> QED
  BY <1>2, <1>3, <1>4, <1>5, <1>6, <1>7, <1>8, <1>9, <1>10
     DEF StepOf, Opening, Locking, Releasing, Calls

\* Nothing is open that a lock has not seen, but for the entry it does not look
\* at, and no search has passed a lock.
LEMMA ExclInvStep == ASSUME FilesInv, FilesNext PROVE ExclInv'
<1> SUFFICES ASSUME NEW t \in Threads, StepOf(t), NEW f \in Fds,
                    "EXCL" \in fd_flags(f)'
             PROVE  /\ dev(f)' \in Devices
                    /\ \A g \in Fds : g # f /\ dev(g)' = dev(f)' =>
                         /\ held'[g].by # Nobody => g = lockedAt'[f]
                         /\ \A u \in Threads :
                              fd'[u] = g /\ Passed(u, f)' => g = lockedAt'[f]
  BY OneThread DEF ExclInv
<1>1. /\ FilesTypeOK /\ AskInv /\ BootInv /\ EntryInv /\ OwnInv /\ HeldInv
      /\ WorkInv /\ CallInv /\ LookInv /\ ExclInv
  BY DEF FilesInv
<1>2. FilesTypeOK' /\ AskInv' /\ BootInv' /\ HeldInv' /\ WorkInv'
  BY <1>1, FilesTypeStep, AskInvStep, BootInvStep, HeldInvStep, WorkInvStep
\* A search that has passed f works on an entry that refers to what it opens.
<1>3. ASSUME NEW u \in Threads, Passed(u, f)
      PROVE  fd[u] \notin StdFds /\ dev(fd[u]) # NoDev /\ dev(fd[u]) = want[u].dev
  BY <1>1, <1>3 DEF Passed, WorkInv, Works, Working, Intact
<1>4. ASSUME NEW u \in Threads, Passed(u, f)'
      PROVE  dev(fd[u])' = want'[u].dev /\ want'[u].dev \in Openable
  <2>1. booted' = 3
    BY <1>2 DEF BootInv, FilesTypeOK
  <2> QED
    BY <1>2, <1>4, <2>1
       DEF Passed, WorkInv, Works, Working, Intact, AskInv, Asking, FilesTypeOK
<1>5. CASE LockGrant(t) /\ fd[t] = f
  <2>1. /\ pc[t] = "look" /\ pc'[t] = "idle" /\ i[t] >= alt_max_fd
        /\ lockedAt'[f] = alt_max_fd /\ held' = held
    BY <1>1, <1>5 DEF LockGrant, At, Return, GoTo, FilesTypeOK
  <2>2. \A g \in Fds : dev(g)' = dev(g)
    BY <1>1, <1>5, GrantTable
  <2>3. dev(f) \in Devices
    BY <1>1, <1>5, <2>1 DEF CallInv
  <2>4. ASSUME NEW g \in Fds, g # f, dev(g) = dev(f), g \notin StdFds
        PROVE  g = alt_max_fd
    <3>1. g <= alt_max_fd
      BY <1>1, <2>3, <2>4, Constants DEF EntryInv
    <3>2. ~(g < i[t])
      BY <1>1, <1>5, <2>1, <2>4 DEF LookInv
    <3>3. g \in Int /\ i[t] \in Int /\ alt_max_fd \in Int
      BY <1>1, Constants DEF FilesTypeOK, Fds
    <3> QED
      BY <2>1, <3>1, <3>2, <3>3
  <2>5. ASSUME NEW g \in Fds, g # f, dev(g)' = dev(f)', held'[g].by # Nobody
        PROVE  g = lockedAt'[f]
    BY <1>1, <2>1, <2>2, <2>4, <2>5 DEF HeldInv
  <2>6. ASSUME NEW g \in Fds, g # f, dev(g)' = dev(f)', NEW u \in Threads,
               fd'[u] = g, Passed(u, f)'
        PROVE  g = lockedAt'[f]
    <3>1. u # t
      BY <2>1, <2>6 DEF Passed
    <3>2. fd[u] = g /\ Passed(u, f)
      BY <1>1, <2>6, <3>1, OthersStand DEF Passed
    <3>3. g \notin StdFds
      BY <1>3, <3>2
    <3> QED
      BY <2>1, <2>2, <2>4, <2>6, <3>3
  <2> QED
    BY <2>2, <2>3, <2>5, <2>6
<1>6. CASE ~(LockGrant(t) /\ fd[t] = f)
  <2>1. /\ "EXCL" \in fd_flags(f) /\ dev(f)' = dev(f)
        /\ f \notin StdFds => lockedAt'[f] = lockedAt[f]
    BY <1>6, LockStays
  <2>2. dev(f) \in Devices
    BY <1>1, <2>1 DEF ExclInv
  <2>3. f \in StdFds => dev(f) \notin Openable
    BY <1>1, Constants DEF BootInv
  <2>4. ASSUME NEW g \in Fds, g # f, dev(g)' = dev(f)', held'[g].by # Nobody
        PROVE  g = lockedAt'[f]
    <3>1. dev(g)' \in Openable /\ dev(g)' = held'[g].dev
      BY <1>2, <2>4 DEF HeldInv, Intact
    <3>2. lockedAt'[f] = lockedAt[f]
      BY <2>1, <2>3, <2>4, <3>1
    <3>3. CASE held'[g] = held[g]
      <4>1. dev(g) = held[g].dev
        BY <1>1, <2>4, <3>3 DEF HeldInv, Intact
      <4>2. held[g].by # Nobody /\ dev(g) = dev(f)
        BY <2>1, <2>4, <3>1, <3>3, <4>1
      <4> QED
        BY <1>1, <2>1, <2>4, <3>2, <4>2 DEF ExclInv
    <3>4. CASE held'[g] # held[g]
      <4>1. DriverOpens(t) \/ Close(t)
        BY <3>4, HeldKept
      <4>2. ~Close(t)
        BY <1>1, <2>4, <3>4 DEF Close, NotHeld, FilesTypeOK
      <4>3. fd[t] = g /\ Passed(t, f)
        BY <1>1, <3>4, <4>1, <4>2 DEF DriverOpens, At, Passed, FilesTypeOK
      <4>4. \A h \in Fds : dev(h)' = dev(h)
        BY <4>1, <4>2, TableKept
      <4> QED
        BY <1>1, <2>1, <2>4, <3>2, <4>3, <4>4 DEF ExclInv
    <3> QED
      BY <3>3, <3>4
  <2>5. ASSUME NEW g \in Fds, g # f, dev(g)' = dev(f)', NEW u \in Threads,
               fd'[u] = g, Passed(u, f)'
        PROVE  g = lockedAt'[f]
    <3>1. dev(g)' = want'[u].dev /\ want'[u].dev \in Openable
      BY <1>4, <2>5
    <3>2. lockedAt'[f] = lockedAt[f] /\ f \notin StdFds
      BY <2>1, <2>3, <2>5, <3>1
    <3>3. CASE u # t
      <4>1. fd[u] = g /\ Passed(u, f) /\ want'[u] = want[u]
        BY <1>1, <2>5, <3>3, OthersStand DEF Passed
      <4>2. dev(g) = dev(f)
        BY <1>3, <2>1, <2>5, <3>1, <4>1
      <4> QED
        BY <1>1, <2>1, <2>5, <3>2, <4>1, <4>2 DEF ExclInv
    <3>4. CASE u = t /\ FileLocked(t)
      <4>1. /\ pc[t] = "file_locked" /\ fd[t] = g
            /\ \/ pc'[t] = "open" /\ i[t] > alt_max_fd
               \/ /\ i'[t] = i[t] + 1 /\ pc'[t] = "file_locked"
                  /\ ~(/\ i[t] # fd[t] /\ dev(i[t]) = dev(fd[t])
                       /\ "EXCL" \in fd_flags(i[t]))
        <5>1. pc'[t] # "release"
          BY <2>5, <3>4 DEF Passed
        <5> QED
          BY <1>1, <2>5, <3>4, <5>1 DEF FileLocked, At, GoTo, FilesTypeOK
      <4>2. dev(g) = dev(f)
        <5>1. \A h \in Fds : dev(h)' = dev(h)
          BY <3>4, TableKept
        <5> QED
          BY <2>5, <5>1
      <4>3. /\ f \in Int /\ i[t] \in Int /\ alt_max_fd \in Int
            /\ f <= alt_max_fd
        BY <1>1, <2>2, <3>2, Constants DEF EntryInv, FilesTypeOK, Fds
      <4>4. f < i[t]
        BY <2>1, <2>5, <3>4, <4>1, <4>2, <4>3 DEF Passed
      <4> QED
        BY <1>1, <2>1, <2>5, <3>2, <3>4, <4>1, <4>2, <4>4 DEF ExclInv, Passed
    <3>5. CASE u = t /\ SetFlags(t)
      <4>1. want[t].dev \in FileSystems /\ want'[t] = want[t]
        <5>1. ~(f < 0)
          BY Constants DEF Fds
        <5> QED
          BY <1>1, <2>5, <3>5, <5>1 DEF SetFlags, GoTo, Passed, FilesTypeOK
      <4> QED
        BY <2>1, <2>2, <2>5, <3>1, <3>5, <4>1, Constants
    <3>6. u = t => FileLocked(t) \/ SetFlags(t)
      <4> SUFFICES ASSUME u = t, ~FileLocked(t), ~SetFlags(t) PROVE FALSE
        OBVIOUS
      <4>1. pc'[t] \in {"open", "file_locked"}
        BY <2>5 DEF Passed
      <4> USE <1>1, <4>1 DEF At, GoTo
      <4>2. CASE Return(t)
        BY <4>2 DEF Return, FilesTypeOK
      <4>3. CASE \/ GetFdNone(t) \/ ReleaseRest(t) \/ LockGrant(t) \/ DriverOpens(t)
                 \/ LockLook(t)
        BY <4>2, <4>3 DEF GetFdNone, ReleaseRest, LockGrant, DriverOpens, LockLook,
           FilesTypeOK
      <4>4. CASE \/ (t = Main /\ BootOpen) \/ Open(t) \/ GetFdPend(t)
                 \/ GetFdSkip(t) \/ GetFdTake(t) \/ LockPend(t)
        BY <4>4 DEF BootOpen, Open, Begin_open, GetFdPend, GetFdSkip, GetFdTake,
           LockPend, FilesTypeOK
      <4>5. CASE \/ DriverRefuses(t) \/ Redirect(t) \/ ReleaseFirst(t) \/ Close(t)
                 \/ Lock(t) \/ Unlock(t) \/ Fcntl(t)
        BY <4>5 DEF DriverRefuses, Redirect, ReleaseFirst, Close, Lock, Unlock,
           Fcntl, FilesTypeOK
      <4> QED
        BY <4>3, <4>4, <4>5 DEF StepOf, Opening, Locking, Releasing, Calls
    <3> QED
      BY <3>3, <3>4, <3>5, <3>6
  <2> QED
    BY <2>1, <2>2, <2>4, <2>5
<1> QED
  BY <1>5, <1>6

-----------------------------------------------------------------------------
(* The theorems. *)

LEMMA FilesInitially == FilesInit => FilesInv
<1> SUFFICES ASSUME FilesInit PROVE FilesInv
  OBVIOUS
<1>1. FilesTypeOK
  <2>1. /\ Free \in Entry /\ [dev |-> alt_dev_null, fd_flags |-> {"O_RDONLY"}] \in Entry
        /\ NotHeld \in [by : Threads \cup {Nobody}, dev : Targets \cup {NoDev},
                        mode : AccessModes]
        /\ NoWant \in [dev : Targets, mode : AccessModes]
    BY Constants DEF Free, Entry, NotHeld, NoWant, AccessModes, Targets
  <2>2. 0 \in Fds /\ 0 \in 0..ALT_MAX_FD /\ -1 \in -1..ALT_MAX_FD-1
    BY Constants DEF Fds
  <2> QED
    BY <2>1, <2>2, Constants DEF FilesInit, FilesTypeOK
<1>2. \A f \in Fds : /\ dev(f) = IF f \in StdFds THEN alt_dev_null ELSE NoDev
                     /\ "EXCL" \notin fd_flags(f) /\ held[f].by = Nobody
                     /\ f \notin StdFds => fd_flags(f) = {}
  BY DEF FilesInit, Free, NotHeld, dev, fd_flags
<1>3. /\ \A t \in Threads : pc[t] = "idle" /\ replaces[t] = -1
      /\ booted = 0 /\ alt_fd_list_lock = Nobody /\ StdFds \subseteq Fds
  BY Constants DEF FilesInit, StdFds, Fds
<1>4. AskInv /\ BootInv
  BY <1>2, <1>3, Constants DEF AskInv, BootInv, Asking
<1>5. EntryInv /\ HeldInv /\ ExclInv
  BY <1>2 DEF EntryInv, HeldInv, ExclInv
<1>6. OwnInv /\ WorkInv /\ CallInv /\ SemaphoreInv /\ LookInv
  BY <1>3, Constants
     DEF OwnInv, WorkInv, CallInv, SemaphoreInv, LookInv, Works, Working
<1> QED
  BY <1>1, <1>4, <1>5, <1>6 DEF FilesInv

LEMMA FilesStutter == FilesInv /\ UNCHANGED filesVars => FilesInv'
<1> SUFFICES ASSUME FilesInv, UNCHANGED filesVars PROVE FilesInv'
  OBVIOUS
<1> USE DEF filesVars, table, history
<1>1. FilesTypeOK'
  BY DEF FilesInv, FilesTypeOK
<1>2. AskInv' /\ BootInv' /\ EntryInv' /\ OwnInv' /\ HeldInv'
  BY DEF FilesInv, AskInv, BootInv, EntryInv, OwnInv, HeldInv, Intact, Works,
         Asking, dev, fd_flags
<1>3. WorkInv' /\ CallInv' /\ SemaphoreInv' /\ LookInv' /\ ExclInv'
  BY DEF FilesInv, WorkInv, CallInv, SemaphoreInv, LookInv, ExclInv, Intact, Works,
         Passed, dev, fd_flags
<1> QED
  BY <1>1, <1>2, <1>3 DEF FilesInv

\* The inductive invariant: who owns which entry, how far each call has come
\* with it, and what the searches under the semaphore have seen.
THEOREM FilesInvariant == FilesSpec => []FilesInv
<1>1. FilesInv /\ FilesNext => FilesInv'
  BY FilesTypeStep, AskInvStep, BootInvStep, EntryInvStep, OwnInvStep, HeldInvStep,
     WorkInvStep, CallInvStep, SemaphoreInvStep, LookInvStep, ExclInvStep
     DEF FilesInv
<1> QED
  BY <1>1, FilesInitially, FilesStutter, PTL DEF FilesSpec

\* A descriptor stays what open() made it until it is closed, whatever the other
\* threads open, lock and release: alt_get_fd gives no entry out twice and
\* alt_release_fd touches none that has been given out again.
THEOREM DescriptorsStay == FilesSpec => []DescriptorsKept
<1>1. FilesInv => DescriptorsKept
  <2> SUFFICES ASSUME FilesInv PROVE DescriptorsKept
    OBVIOUS
  <2>1. /\ FilesTypeOK /\ BootInv /\ EntryInv /\ HeldInv
    BY DEF FilesInv
  <2>2. HeldIntact
    BY <2>1 DEF HeldIntact, HeldInv, Intact
  <2>3. HighWater
    BY <2>1 DEF HighWater, EntryInv
  <2>4. StandardKept
    <3>1. booted = 3 => \A f \in StdFds : dev(f) = Stdio
      <4>1. \A f \in StdFds : \E k \in 1..3 : f = Redirected[k]
        BY DEF StdFds, Redirected
      <4> QED
        BY <2>1, <4>1 DEF BootInv
    <3>2. booted # 3 => booted < 3
      BY <2>1 DEF FilesTypeOK
    <3> QED
      BY <2>1, <3>1, <3>2 DEF StandardKept, BootInv
  <2>5. AccessAsOpened
    <3> SUFFICES ASSUME NEW f \in Fds, held[f].by # Nobody
                 PROVE  /\ (ALT_READ(f) = "driver") =
                             (held[f].mode # "O_WRONLY" /\ held[f].dev \in CanRead)
                        /\ (ALT_WRITE(f) = "driver") =
                             (held[f].mode # "O_RDONLY" /\ held[f].dev \in CanWrite)
                        /\ (ALT_IOCTL(f, "TIOCEXCL") = "lock") =
                             (held[f].dev \in Devices)
      BY DEF AccessAsOpened
    <3>1. /\ dev(f) = held[f].dev
          /\ fd_flags(f) \cap AccessModes = {held[f].mode}
          /\ ("DEV" \in fd_flags(f)) = (held[f].dev \in Devices)
      BY <2>1 DEF HeldInv, Intact
    <3>2. ~(f < 0)
      BY Constants DEF Fds
    <3>3. /\ ("O_WRONLY" \in fd_flags(f)) = (held[f].mode = "O_WRONLY")
          /\ ("O_RDONLY" \in fd_flags(f)) = (held[f].mode = "O_RDONLY")
      BY <3>1 DEF AccessModes
    <3> QED
      BY <3>1, <3>2, <3>3 DEF ALT_READ, ALT_WRITE, ALT_IOCTL
  <2> QED
    BY <2>1, <2>2, <2>3, <2>4, <2>5 DEF DescriptorsKept
<1> QED
  BY <1>1, FilesInvariant, PTL

\* A device that is locked is open nowhere else but for the descriptor
\* alt_fd_lock does not look at, whoever opens, locks and closes meanwhile.
THEOREM LocksExclude == FilesSpec => []LockExclusive
<1>1. FilesInv => LockExclusive
  BY DEF FilesInv, ExclInv, LockExclusive
<1> QED
  BY <1>1, FilesInvariant, PTL

-----------------------------------------------------------------------------
(***************************************************************************)
(* The alarms.  The list is a ring: from the head through n alarms and     *)
(* back.  alt_tick stands at one place of it: the alarms before that have  *)
(* been served in this tick, and the others not yet.                       *)
(***************************************************************************)

\* The ring's nodes in their order, the head at both ends.
Ring(n, f) ==
  /\ n \in Nat /\ f \in [0..n+1 -> Nodes]
  /\ f[0] = List /\ f[n + 1] = List
  /\ \A e, j \in 0..n : f[e] = f[j] => e = j
  /\ registered = {f[e] : e \in 1..n}
  /\ \A e \in 0..n : nextOf[f[e]] = f[e + 1] /\ previousOf[f[e + 1]] = f[e]

\* What isn't in the ring points to itself.
Loose == \A a \in Alarms \ registered : nextOf[a] = a /\ previousOf[a] = a

RingInv == (\E n, f : Ring(n, f)) /\ Loose

\* An alarm that alt_tick has served in this tick, or that was started since.
Served(a) ==
  /\ remaining[a] \in 1..TickMod-1
  /\ time[a] = Wrap(_alt_nticks + remaining[a])
  /\ rollover[a] <=> time[a] < _alt_nticks

\* One that it hasn't: its flag may be the last tick's.
Unserved(a) ==
  /\ remaining[a] \in 0..TickMod-2
  /\ time[a] = Wrap(_alt_nticks + remaining[a])
  /\ StillWaiting(a) <=> time[a] < _alt_nticks

InCallback == at \in {"called", "acted"}

\* What alt_tick will look at next.
Cursor == IF at = "look" THEN alarm ELSE IF at = "idle" THEN List ELSE next

\* The one whose callback runs is between the two, if it hasn't been stopped.
Standing(n, f, p) ==
  /\ Ring(n, f) /\ p \in 1..n+1 /\ f[p] = Cursor
  /\ \A e \in 1..p-1 : Served(f[e]) \/ (InCallback /\ f[e] = alarm)
  /\ \A e \in p..n : Unserved(f[e]) /\ (InCallback => f[e] # alarm)

CallbackInv ==
  InCallback =>
    /\ at = "called" => alarm \in registered
    /\ alarm \in registered =>
         /\ remaining[alarm] = 0 /\ time[alarm] = _alt_nticks
         /\ ~rollover[alarm]

AlarmTypes ==
  /\ AlarmsTypeOK
  /\ remaining \in [Alarms -> Int]
  /\ at # "idle" => alarm \in Alarms

AlarmsInv ==
  /\ AlarmTypes /\ RingInv
  /\ ~strayed => (\E n, f, p : Standing(n, f, p)) /\ CallbackInv

-----------------------------------------------------------------------------
(* The list. *)

LEMMA RingFacts ==
  ASSUME NEW n, NEW f, Ring(n, f), AlarmTypes
  PROVE  /\ n \in Nat
         /\ \A e \in 1..n : f[e] \in registered /\ f[e] \in Alarms /\ f[e] # List
         /\ \A e \in 1..n+1 : f[e] = List <=> e = n + 1
         /\ \A a \in registered : \E e \in 1..n : f[e] = a
         /\ nextOf[List] = f[1] /\ previousOf[List] = f[n]
<1>1. /\ n \in Nat /\ f[0] = List /\ f[n + 1] = List
      /\ \A e, j \in 0..n : f[e] = f[j] => e = j
      /\ registered = {f[e] : e \in 1..n}
      /\ \A e \in 0..n : nextOf[f[e]] = f[e + 1] /\ previousOf[f[e + 1]] = f[e]
  BY DEF Ring
<1>2. \A e \in 1..n : f[e] \in registered /\ f[e] \in Alarms /\ f[e] # List
  BY <1>1, AlarmsAssumption DEF AlarmTypes, AlarmsTypeOK
<1>3. 0 \in 0..n /\ n \in 0..n /\ 0 + 1 = 1
  BY <1>1
<1>4. nextOf[List] = f[1] /\ previousOf[List] = f[n]
  BY <1>1, <1>3
<1>5. \A e \in 1..n+1 : f[e] = List <=> e = n + 1
  BY <1>1, <1>2
<1> QED
  BY <1>1, <1>2, <1>4, <1>5

\* alt_llist_insert
InsertedAt(n, f, a) == [e \in 0..n+2 |-> IF e = 0 THEN List ELSE IF e = 1 THEN a ELSE f[e - 1]]

LEMMA RingInserted ==
  ASSUME AlarmTypes, NEW n, NEW f, Ring(n, f), NEW a \in Alarms,
         a \notin registered, Inserted(a), registered' = registered \cup {a}
  PROVE  Ring(n + 1, InsertedAt(n, f, a))'
<1> DEFINE g == InsertedAt(n, f, a)
<1>1. /\ n \in Nat /\ f[0] = List /\ f[n + 1] = List /\ f \in [0..n+1 -> Nodes]
      /\ \A e, j \in 0..n : f[e] = f[j] => e = j
      /\ registered = {f[e] : e \in 1..n}
      /\ \A e \in 0..n : nextOf[f[e]] = f[e + 1] /\ previousOf[f[e + 1]] = f[e]
  BY DEF Ring
<1>2. /\ \A e \in 1..n : f[e] \in registered /\ f[e] # List
      /\ nextOf[List] = f[1]
      /\ a # List /\ a \in Nodes /\ List \in Nodes
      /\ nextOf \in [Nodes -> Nodes] /\ previousOf \in [Nodes -> Nodes]
  BY RingFacts, AlarmsAssumption DEF AlarmTypes, AlarmsTypeOK, Nodes
<1>3. /\ previousOf' = [previousOf EXCEPT ![a] = List, ![f[1]] = a]
      /\ nextOf' = [nextOf EXCEPT ![a] = f[1], ![List] = a]
  BY <1>2 DEF Inserted
<1>4. /\ g \in [0..n+2 -> Nodes] /\ g[0] = List /\ g[1] = a
      /\ \A e \in 2..n+2 : g[e] = f[e - 1]
  <2>1. \A e \in 2..n+2 : e - 1 \in 0..n+1
    BY <1>1
  <2>2. \A e \in 0..n+2 : e = 0 \/ e = 1 \/ e \in 2..n+2
    BY <1>1
  <2>3. 0 \in 0..n+2 /\ 1 \in 0..n+2 /\ \A e \in 2..n+2 : e \in 0..n+2 /\ e # 0 /\ e # 1
    BY <1>1
  <2> QED
    BY <1>1, <1>2, <2>1, <2>2, <2>3 DEF InsertedAt
<1> HIDE DEF g
<1>5. n + 2 \in 2..n+2 /\ (n + 2) - 1 = n + 1 /\ (n + 1) + 1 = n + 2 /\ n + 1 \in Nat
  BY <1>1
<1>6. g[(n + 1) + 1] = List
  BY <1>1, <1>4, <1>5
<1>7. \A e \in 2..n+1 : e - 1 \in 1..n /\ g[e] = f[e - 1]
  BY <1>1, <1>4
<1>8. ASSUME NEW e \in 0..n+1, NEW j \in 0..n+1, g[e] = g[j]
      PROVE  e = j
  <2>1. \A k \in 0..n+1 : k = 0 \/ k = 1 \/ k \in 2..n+1
    BY <1>1
  <2>2. \A k \in 2..n+1 : g[k] \in registered /\ g[k] # List /\ g[k] # a
    BY <1>2, <1>7
  <2>3. CASE e \in 2..n+1 /\ j \in 2..n+1
    <3>1. f[e - 1] = f[j - 1] /\ e - 1 \in 0..n /\ j - 1 \in 0..n
      BY <1>1, <1>7, <1>8, <2>3
    <3>2. e - 1 = j - 1
      BY <1>1, <3>1
    <3> QED
      BY <1>1, <3>2
  <2> QED
    BY <1>2, <1>4, <1>8, <2>1, <2>2, <2>3
<1>9. registered' = {g[e] : e \in 1..n+1}
  <2>1. ASSUME NEW e \in 1..n+1
        PROVE  g[e] \in registered'
    <3>1. e = 1 \/ e \in 2..n+1
      BY <1>1
    <3> QED
      BY <1>2, <1>4, <1>7, <3>1
  <2>2. ASSUME NEW b \in registered'
        PROVE  \E e \in 1..n+1 : g[e] = b
    <3>1. CASE b = a
      BY <1>1, <1>4, <3>1
    <3>2. CASE b # a
      <4>1. PICK k \in 1..n : f[k] = b
        BY <1>1, <3>2
      <4>2. k + 1 \in 2..n+2 /\ (k + 1) - 1 = k /\ k + 1 \in 1..n+1
        BY <1>1
      <4>3. g[k + 1] = f[k]
        BY <1>4, <4>2
      <4> QED
        BY <4>1, <4>2, <4>3
    <3> QED
      BY <3>1, <3>2
  <2> QED
    BY <2>1, <2>2
<1>10. ASSUME NEW e \in 0..n+1
       PROVE  nextOf'[g[e]] = g[e + 1] /\ previousOf'[g[e + 1]] = g[e]
  <2>1. f[1] \in Nodes /\ f[1] # a
    <3>1. 1 \in 0..n+1
      BY <1>1
    <3>2. 1 \in 1..n \/ n + 1 = 1
      BY <1>1
    <3> QED
      BY <1>1, <1>2, <3>1, <3>2
  <2>2. g[2] = f[1] /\ 2 \in 0..n+2
    <3>1. 2 \in 2..n+2 /\ 2 - 1 = 1 /\ 2 \in 0..n+2
      BY <1>1
    <3> QED
      BY <1>4, <3>1
  <2>3. CASE e = 0
    <3>1. 0 + 1 = 1
      OBVIOUS
    <3> QED
      BY <1>2, <1>3, <1>4, <2>1, <2>3, <3>1
  <2>4. CASE e = 1
    <3>1. 1 + 1 = 2
      OBVIOUS
    <3> QED
      BY <1>2, <1>3, <1>4, <2>1, <2>2, <2>4, <3>1
  <2>5. CASE e \in 2..n+1
    <3> DEFINE k == e - 1
    <3>1. k \in 1..n /\ k \in 0..n /\ k + 1 = e /\ e + 1 \in 2..n+2 /\ (e + 1) - 1 = e
      BY <1>1, <2>5
    <3>2. g[e] = f[k] /\ g[e + 1] = f[k + 1]
      BY <1>4, <1>7, <2>5, <3>1
    <3>3. f[k] # List /\ f[k] # a /\ f[k] \in Nodes
      <4>1. k \in 0..n+1
        BY <1>1, <3>1
      <4> QED
        BY <1>1, <1>2, <3>1, <4>1
    <3>4. nextOf'[f[k]] = nextOf[f[k]]
      BY <1>2, <1>3, <3>3
    <3>5. f[k + 1] # a /\ f[k + 1] # f[1] /\ f[k + 1] \in Nodes
      <4>1. CASE k = n
        <5>1. f[k + 1] = List
          BY <1>1, <4>1
        <5>2. n + 1 # 1 /\ 1 \in 1..n
          BY <1>1, <3>1, <4>1
        <5> QED
          BY <1>2, <5>1, <5>2
      <4>2. CASE k # n
        <5>1. k + 1 \in 1..n /\ k + 1 \in 0..n /\ 1 \in 0..n /\ k + 1 # 1 /\ k + 1 \in 0..n+1
          BY <1>1, <3>1, <4>2
        <5> QED
          BY <1>1, <1>2, <5>1
      <4> QED
        BY <4>1, <4>2
    <3>6. previousOf'[f[k + 1]] = previousOf[f[k + 1]]
      BY <1>2, <1>3, <3>5
    <3> QED
      BY <1>1, <3>1, <3>2, <3>4, <3>6
  <2>6. e = 0 \/ e = 1 \/ e \in 2..n+1
    BY <1>1
  <2> QED
    BY <2>3, <2>4, <2>5, <2>6
<1>11. g \in [0..(n+1)+1 -> Nodes]
  BY <1>4, <1>5
<1>12. Ring(n + 1, g)'
  BY <1>4, <1>5, <1>6, <1>8, <1>9, <1>10, <1>11 DEF Ring, Nodes
<1> QED
  BY <1>12 DEF g, InsertedAt

\* alt_llist_remove
RemovedAt(n, f, j) == [e \in 0..n |-> IF e < j THEN f[e] ELSE f[e + 1]]

LEMMA RingRemoved ==
  ASSUME AlarmTypes, NEW n, NEW f, Ring(n, f), NEW j \in 1..n,
         Removed(f[j]), registered' = registered \ {f[j]}
  PROVE  Ring(n - 1, RemovedAt(n, f, j))'
<1> DEFINE g == RemovedAt(n, f, j)
           a == f[j]
<1>1. /\ n \in Nat /\ f[0] = List /\ f[n + 1] = List /\ f \in [0..n+1 -> Nodes]
      /\ \A e, k \in 0..n : f[e] = f[k] => e = k
      /\ registered = {f[e] : e \in 1..n}
      /\ \A e \in 0..n : nextOf[f[e]] = f[e + 1] /\ previousOf[f[e + 1]] = f[e]
  BY DEF Ring
<1>2. /\ \A e \in 1..n : f[e] \in registered /\ f[e] # List
      /\ nextOf \in [Nodes -> Nodes] /\ previousOf \in [Nodes -> Nodes]
  BY RingFacts, AlarmsAssumption DEF AlarmTypes, AlarmsTypeOK, Nodes
<1>3. ASSUME NEW e \in 1..n+1, NEW k \in 1..n+1, f[e] = f[k]
      PROVE  e = k
  <2>1. \A m \in 1..n+1 : m = n + 1 \/ (m \in 1..n /\ m \in 0..n)
    BY <1>1
  <2> QED
    BY <1>1, <1>2, <1>3, <2>1
<1>4. /\ j - 1 \in 0..n /\ (j - 1) + 1 = j /\ j \in 0..n /\ j + 1 \in 1..n+1
      /\ j \in 1..n+1 /\ j - 1 \in 0..n+1 /\ j + 1 \in 0..n+1 /\ j \in 0..n+1
      /\ j # j - 1 /\ j # j + 1
  BY <1>1
<1>5. previousOf[a] = f[j - 1] /\ nextOf[a] = f[j + 1]
  BY <1>1, <1>4
<1>6. f[j - 1] # a /\ f[j + 1] # a /\ f[j - 1] \in Nodes /\ f[j + 1] \in Nodes /\ a \in Nodes
  BY <1>1, <1>3, <1>4
<1>7. /\ nextOf' = [nextOf EXCEPT ![f[j - 1]] = f[j + 1], ![a] = a]
      /\ previousOf' = [previousOf EXCEPT ![f[j + 1]] = f[j - 1], ![a] = a]
  BY <1>5 DEF Removed
<1>8. /\ g \in [0..n -> Nodes]
      /\ \A e \in 0..n : (e < j => g[e] = f[e]) /\ (e >= j => g[e] = f[e + 1])
  <2>1. \A e \in 0..n : e \in 0..n+1 /\ e + 1 \in 0..n+1
    BY <1>1
  <2>2. \A e \in 0..n : (e < j \/ e >= j) /\ ~(e < j /\ e >= j)
    BY <1>1
  <2> QED
    BY <1>1, <2>1, <2>2 DEF RemovedAt
<1> HIDE DEF g
<1>9. /\ 0 \in 0..n /\ 0 < j /\ n \in 0..n /\ n >= j
      /\ n - 1 \in Nat /\ (n - 1) + 1 = n
  BY <1>1
<1>10. g[0] = List /\ g[(n - 1) + 1] = List
  BY <1>1, <1>8, <1>9
<1>11. ASSUME NEW e \in 0..n-1, NEW k \in 0..n-1, g[e] = g[k]
       PROVE  e = k
  <2>1. /\ e \in 0..n /\ e + 1 \in 0..n /\ e + 1 \in 1..n+1
        /\ k \in 0..n /\ k + 1 \in 0..n /\ k + 1 \in 1..n+1
    BY <1>1
  <2>2. (e < j \/ e >= j) /\ (k < j \/ k >= j)
    BY <1>1
  <2>3. CASE e < j /\ k < j
    BY <1>1, <1>8, <1>11, <2>1, <2>3
  <2>4. CASE e >= j /\ k >= j
    <3>1. e + 1 = k + 1
      BY <1>1, <1>8, <1>11, <2>1, <2>4
    <3> QED
      BY <3>1
  <2>5. CASE e < j /\ k >= j
    <3>1. e = k + 1
      BY <1>1, <1>8, <1>11, <2>1, <2>5
    <3> QED
      BY <2>5, <3>1
  <2>6. CASE e >= j /\ k < j
    <3>1. e + 1 = k
      BY <1>1, <1>8, <1>11, <2>1, <2>6
    <3> QED
      BY <2>6, <3>1
  <2> QED
    BY <2>2, <2>3, <2>4, <2>5, <2>6
<1>12. registered' = {g[e] : e \in 1..n-1}
  <2>1. ASSUME NEW e \in 1..n-1
        PROVE  g[e] \in registered \ {a}
    <3>1. e \in 0..n /\ e \in 1..n /\ e + 1 \in 1..n /\ e + 1 \in 0..n
      BY <1>1
    <3>2. CASE e < j
      <4>1. g[e] = f[e] /\ e # j
        BY <1>8, <3>1, <3>2
      <4> QED
        BY <1>1, <1>2, <1>4, <3>1, <4>1
    <3>3. CASE e >= j
      <4>1. g[e] = f[e + 1] /\ e + 1 # j
        BY <1>8, <3>1, <3>3
      <4> QED
        BY <1>1, <1>2, <1>4, <3>1, <4>1
    <3> QED
      BY <3>2, <3>3
  <2>2. ASSUME NEW b \in registered \ {a}
        PROVE  \E e \in 1..n-1 : g[e] = b
    <3>1. PICK k \in 1..n : f[k] = b
      BY <1>1
    <3>2. k # j
      BY <3>1
    <3>3. CASE k < j
      <4>1. k \in 1..n-1 /\ k \in 0..n
        BY <1>1, <3>3
      <4> QED
        BY <1>8, <3>1, <3>3, <4>1
    <3>4. CASE k > j
      <4>1. k - 1 \in 1..n-1 /\ k - 1 \in 0..n /\ k - 1 >= j /\ (k - 1) + 1 = k
        BY <1>1, <3>4
      <4>2. g[k - 1] = f[k]
        BY <1>8, <4>1
      <4> QED
        BY <3>1, <4>1, <4>2
    <3> QED
      BY <3>2, <3>3, <3>4
  <2> QED
    BY <2>1, <2>2
<1>13. ASSUME NEW e \in 0..n-1
       PROVE  nextOf'[g[e]] = g[e + 1] /\ previousOf'[g[e + 1]] = g[e]
  <2>0. /\ e \in 0..n /\ e + 1 \in 0..n /\ e + 1 \in 1..n+1 /\ e \in 0..n+1
        /\ (e + 1) + 1 \in 1..n+1 /\ e + 1 \in 0..n+1 /\ (e + 1) + 1 \in 0..n+1
    BY <1>1
  <2>1. CASE e = j - 1
    <3>1. e < j /\ e + 1 = j /\ e + 1 >= j
      BY <2>1
    <3>2. g[e] = f[j - 1] /\ g[e + 1] = f[j + 1]
      BY <1>8, <2>0, <2>1, <3>1
    <3> QED
      BY <1>2, <1>6, <1>7, <3>2
  <2>2. CASE e < j - 1
    <3>1. e < j /\ e + 1 < j /\ e # j - 1 /\ e # j /\ e + 1 # j + 1 /\ e + 1 # j
      BY <2>2
    <3>2. g[e] = f[e] /\ g[e + 1] = f[e + 1]
      BY <1>8, <2>0, <3>1
    <3>3. /\ f[e] # f[j - 1] /\ f[e] # a /\ f[e + 1] # f[j + 1] /\ f[e + 1] # a
          /\ f[e] \in Nodes /\ f[e + 1] \in Nodes
      BY <1>1, <1>3, <1>4, <2>0, <3>1
    <3> QED
      BY <1>1, <1>2, <1>6, <1>7, <2>0, <3>2, <3>3
  <2>3. CASE e > j - 1
    <3>1. e >= j /\ e + 1 >= j /\ e + 1 # j - 1 /\ e + 1 # j /\ (e + 1) + 1 # j + 1 /\ (e + 1) + 1 # j
      BY <2>3
    <3>2. g[e] = f[e + 1] /\ g[e + 1] = f[(e + 1) + 1]
      BY <1>8, <2>0, <3>1
    <3>3. /\ f[e + 1] # f[j - 1] /\ f[e + 1] # a
          /\ f[(e + 1) + 1] # f[j + 1] /\ f[(e + 1) + 1] # a
          /\ f[e + 1] \in Nodes /\ f[(e + 1) + 1] \in Nodes
      BY <1>1, <1>3, <1>4, <2>0, <3>1
    <3>4. nextOf[f[e + 1]] = f[(e + 1) + 1] /\ previousOf[f[(e + 1) + 1]] = f[e + 1]
      BY <1>1, <2>0
    <3> QED
      BY <1>2, <1>6, <1>7, <3>2, <3>3, <3>4
  <2> QED
    BY <2>1, <2>2, <2>3
<1>14. g \in [0..(n-1)+1 -> Nodes]
  BY <1>8, <1>9
<1>15. Ring(n - 1, g)'
  BY <1>9, <1>10, <1>11, <1>12, <1>13, <1>14 DEF Ring, Nodes
<1> QED
  BY <1>15 DEF g, RemovedAt

\* What isn't in the list stays out of it.
LEMMA LooseInserted ==
  ASSUME AlarmTypes, RingInv, NEW a \in Alarms, a \notin registered,
         Inserted(a), registered' = registered \cup {a}
  PROVE  RingInv'
<1>1. PICK n, f : Ring(n, f)
  BY DEF RingInv
<1>2. Ring(n + 1, InsertedAt(n, f, a))'
  BY <1>1, RingInserted
<1>3. \E m, g : Ring(m, g)'
  BY <1>2
<1>4. ASSUME NEW b \in Alarms \ registered'
      PROVE  nextOf'[b] = b /\ previousOf'[b] = b
  <2>1. nextOf[List] = f[1] /\ (f[1] = List \/ f[1] \in registered)
    <3>1. n \in Nat /\ f[n + 1] = List /\ \A e \in 1..n : f[e] \in registered
      BY <1>1, RingFacts DEF Ring
    <3>2. 1 \in 1..n \/ n + 1 = 1
      BY <3>1
    <3> QED
      BY <1>1, <3>1, <3>2, RingFacts
  <2>2. b # a /\ b # List /\ b # nextOf[List] /\ nextOf[b] = b /\ previousOf[b] = b
    BY <1>4, <2>1, AlarmsAssumption DEF RingInv, Loose
  <2> QED
    BY <2>2 DEF Inserted, AlarmTypes, AlarmsTypeOK, Nodes
<1> QED
  BY <1>3, <1>4 DEF RingInv, Loose

LEMMA LooseRemoved ==
  ASSUME AlarmTypes, RingInv, NEW a \in Alarms,
         Removed(a), registered' = registered \ {a}
  PROVE  /\ RingInv'
         /\ a \notin registered =>
              nextOf' = nextOf /\ previousOf' = previousOf /\ registered' = registered
<1>1. PICK n, f : Ring(n, f)
  BY DEF RingInv
<1>2. nextOf \in [Nodes -> Nodes] /\ previousOf \in [Nodes -> Nodes] /\ a \in Nodes
  BY DEF AlarmTypes, AlarmsTypeOK, Nodes
<1>3. CASE a \in registered
  <2>1. PICK j \in 1..n : f[j] = a
    BY <1>1, <1>3 DEF Ring
  <2>2. Ring(n - 1, RemovedAt(n, f, j))'
    BY <1>1, <2>1, RingRemoved
  <2>3. \E m, g : Ring(m, g)'
    BY <2>2
  <2>4. nextOf[a] \in registered \cup {List} /\ previousOf[a] \in registered \cup {List}
    <3>1. n \in Nat /\ f[0] = List /\ f[n + 1] = List /\ \A e \in 1..n : f[e] \in registered
      BY <1>1, RingFacts DEF Ring
    <3>2. j \in 0..n /\ j - 1 \in 0..n /\ (j - 1) + 1 = j
      BY <3>1
    <3>3. nextOf[a] = f[j + 1] /\ previousOf[a] = f[j - 1]
      BY <1>1, <2>1, <3>2 DEF Ring
    <3>4. (j + 1 = n + 1 \/ j + 1 \in 1..n) /\ (j - 1 = 0 \/ j - 1 \in 1..n)
      BY <3>1
    <3> QED
      BY <3>1, <3>3, <3>4
  <2>5. ASSUME NEW b \in Alarms \ registered'
        PROVE  nextOf'[b] = b /\ previousOf'[b] = b
    <3>1. CASE b = a
      BY <1>2, <3>1 DEF Removed
    <3>2. CASE b # a
      <4>1. b \notin registered /\ b # nextOf[a] /\ b # previousOf[a] /\ b \in Nodes
        BY <2>4, <2>5, <3>2, AlarmsAssumption DEF Nodes
      <4>2. nextOf[b] = b /\ previousOf[b] = b
        BY <4>1 DEF RingInv, Loose
      <4> QED
        BY <1>2, <3>2, <4>1, <4>2 DEF Removed
    <3> QED
      BY <3>1, <3>2
  <2> QED
    BY <1>3, <2>3, <2>5 DEF RingInv, Loose
<1>4. CASE a \notin registered
  <2>1. nextOf[a] = a /\ previousOf[a] = a
    BY <1>4 DEF RingInv, Loose
  <2>2. nextOf' = nextOf /\ previousOf' = previousOf /\ registered' = registered
    <3>1. nextOf' = [nextOf EXCEPT ![a] = a] /\ previousOf' = [previousOf EXCEPT ![a] = a]
      BY <1>2, <2>1 DEF Removed
    <3> QED
      BY <1>2, <1>4, <2>1, <3>1
  <2>3. RingInv'
    <3>1. Ring(n, f)'
      BY <1>1, <2>2 DEF Ring, Nodes
    <3>2. \E m, g : Ring(m, g)'
      BY <3>1
    <3>3. Loose'
      BY <2>2 DEF RingInv, Loose
    <3> QED
      BY <3>2, <3>3 DEF RingInv
  <2> QED
    BY <2>2, <2>3
<1> QED
  BY <1>3, <1>4

-----------------------------------------------------------------------------
(* The counter turns. *)

LEMMA WrapIs ==
  ASSUME NEW n \in 0..2 * TickMod - 1
  PROVE  /\ n < TickMod => Wrap(n) = n
         /\ n >= TickMod => Wrap(n) = n - TickMod
         /\ Wrap(n) \in 0..TickMod-1
<1>1. TickMod \in Nat /\ TickMod > 2
  BY AlarmsAssumption
<1>2. \A m \in Nat, k \in Nat \ {0} : m < k => m % k = m
  OBVIOUS
<1>3. ASSUME NEW m \in Nat, NEW k \in Nat \ {0}, k <= m, m < 2 * k
      PROVE  m % k = m - k
  <2>1. m % k \in 0..k-1 /\ m \div k \in Int /\ m = k * (m \div k) + (m % k)
    OBVIOUS
  <2> DEFINE q == m \div k
             r == m % k
  <2>2. k * q \in Int /\ k * 1 = k
    BY <2>1
  <2>3. (q < 1 => k * q + k <= k * 1) /\ (1 < q => k * 1 + k <= k * q)
    <3>1. q \in Int /\ 1 \in Int
      BY <2>1
    <3> HIDE DEF q
    <3> QED
      BY <3>1
  <2> HIDE DEF q, r
  <2>4. q = 1
    <3> DEFINE kq == k * q
    <3>1. kq \in Int /\ (q < 1 => kq + k <= k) /\ (1 < q => k + k <= kq)
      BY <2>2, <2>3
    <3>2. m = kq + r /\ r \in 0..k-1 /\ q \in Int
      BY <2>1 DEF q, r
    <3> HIDE DEF kq
    <3> QED
      BY <1>3, <3>1, <3>2
  <2>5. r \in 0..k-1 /\ m = k * 1 + r
    BY <2>1, <2>4 DEF q, r
  <2>6. r = m - k
    BY <2>2, <2>5
  <2> QED
    BY <2>6 DEF r
<1>4. n < TickMod => Wrap(n) = n
  BY <1>1, <1>2 DEF Wrap
<1>5. n >= TickMod => Wrap(n) = n - TickMod
  BY <1>1, <1>3 DEF Wrap
<1> QED
  BY <1>1, <1>4, <1>5

\* So many ticks after now, it is so many less one after the next tick; and the
\* flag that said whether the counter has to turn before still says so.
LEMMA NextTick ==
  ASSUME AlarmTypes, NEW a \in Alarms, Served(a), _alt_nticks' = Wrap(_alt_nticks + 1),
         remaining'[a] = remaining[a] - 1, UNCHANGED due
  PROVE  Unserved(a)'
<1> DEFINE M == TickMod
           now == _alt_nticks
           soon == _alt_nticks'
           r == remaining[a]
           t == time[a]
<1>1. M \in Nat /\ M > 2 /\ now \in 0..M-1 /\ r \in 1..M-1
  BY AlarmsAssumption DEF AlarmTypes, AlarmsTypeOK, Served
<1>2. (now + r < M => t = now + r) /\ (now + r >= M => t = now + r - M)
  <2> DEFINE s == now + r
  <2>1. s \in 0..2 * TickMod - 1
    BY <1>1
  <2>2. t = Wrap(s)
    BY DEF Served
  <2> HIDE DEF s
  <2>3. (s < M => t = s) /\ (s >= M => t = s - M)
    BY <2>1, <2>2, WrapIs
  <2> QED
    BY <1>1, <2>3 DEF s
<1>3. (now + 1 < M => soon = now + 1) /\ (now + 1 >= M => soon = now + 1 - M)
  <2> DEFINE s == now + 1
  <2>1. s \in 0..2 * TickMod - 1
    BY <1>1
  <2>2. soon = Wrap(s)
    OBVIOUS
  <2> HIDE DEF s
  <2>3. (s < M => soon = s) /\ (s >= M => soon = s - M)
    BY <2>1, <2>2, WrapIs
  <2> QED
    BY <1>1, <2>3 DEF s
<1>4. /\ time' = time /\ rollover' = rollover /\ remaining'[a] = r - 1
      /\ rollover[a] <=> t < now
  BY DEF due, Served
<1> HIDE DEF M, now, soon, r, t
<1>5. r - 1 \in 0..M-2 /\ soon \in 0..M-1
  BY <1>1, <1>3
<1>6. /\ soon + (r - 1) < M => t = soon + (r - 1)
      /\ soon + (r - 1) >= M => t = soon + (r - 1) - M
  BY <1>1, <1>2, <1>3
<1>7. t = Wrap(soon + (r - 1))
  <2> DEFINE s == soon + (r - 1)
  <2>1. s \in 0..2 * TickMod - 1
    BY <1>1, <1>5 DEF M
  <2>2. (s < TickMod => t = s) /\ (s >= TickMod => t = s - TickMod)
    BY <1>1, <1>5, <1>6 DEF M
  <2> HIDE DEF s
  <2>3. t = Wrap(s)
    <3>1. s < TickMod \/ s >= TickMod
      BY <1>1, <2>1 DEF M
    <3> QED
      BY <2>1, <2>2, <3>1, WrapIs
  <2> QED
    BY <2>3 DEF s
<1>8. (t < now /\ soon # 0) <=> t < soon
  BY <1>1, <1>2, <1>3
<1>9. StillWaiting(a)' <=> t < soon
  BY <1>4, <1>8, Zenon DEF StillWaiting, soon
<1>10. time'[a] = t /\ remaining'[a] = r - 1
  BY <1>4 DEF t
<1> QED
  BY <1>5, <1>7, <1>9, <1>10 DEF Unserved, soon, M, Wrap

\* An alarm is due when no tick remains.
LEMMA DueNow ==
  ASSUME AlarmTypes, NEW a \in Alarms, Unserved(a)
  PROVE  /\ IsDue(a) <=> remaining[a] = 0
         /\ remaining[a] = 0 => time[a] = _alt_nticks
<1>1. /\ TickMod \in Nat /\ TickMod > 2 /\ _alt_nticks \in 0..TickMod-1
      /\ remaining[a] \in 0..TickMod-2
  BY AlarmsAssumption DEF AlarmTypes, AlarmsTypeOK, Unserved
<1> DEFINE s == _alt_nticks + remaining[a]
<1>2. s \in 0..2 * TickMod - 1 /\ time[a] = Wrap(s)
  BY <1>1 DEF Unserved
<1> HIDE DEF s
<1>3. (s < TickMod => time[a] = s) /\ (s >= TickMod => time[a] = s - TickMod)
  BY <1>2, WrapIs
<1>4. IsDue(a) <=> time[a] <= _alt_nticks /\ ~(time[a] < _alt_nticks)
  BY DEF IsDue, Unserved
<1> QED
  BY <1>1, <1>3, <1>4 DEF s

\* The alarm that was started or called again is served.
LEMMA SetOut ==
  ASSUME AlarmTypes, NEW a \in Alarms, NEW r \in 1..TickMod-1,
         time'[a] = Wrap(_alt_nticks + r), remaining'[a] = r,
         rollover'[a] <=> time'[a] < _alt_nticks, _alt_nticks' = _alt_nticks
  PROVE  Served(a)' /\ time'[a] \in 0..TickMod-1
<1>1. _alt_nticks + r \in 0..2 * TickMod - 1
  BY AlarmsAssumption DEF AlarmTypes, AlarmsTypeOK
<1>2. Wrap(_alt_nticks + r) \in 0..TickMod-1
  BY <1>1, WrapIs
<1> QED
  BY <1>2 DEF Served, Wrap

-----------------------------------------------------------------------------
(* What happens to where alt_tick stands. *)

LEMMA Stays ==
  ASSUME NEW a, time'[a] = time[a], rollover'[a] = rollover[a],
         remaining'[a] = remaining[a], _alt_nticks' = _alt_nticks
  PROVE  (Served(a) => Served(a)') /\ (Unserved(a) => Unserved(a)')
BY DEF Served, Unserved, StillWaiting, Wrap

\* A start, by the program or by a callback: behind the head, which alt_tick has
\* passed.
LEMMA StandsAfterStart ==
  ASSUME AlarmTypes, NEW n, NEW f, NEW p, Standing(n, f, p),
         NEW a \in Alarms, NEW q \in Periods, Started(a, q),
         _alt_nticks' = _alt_nticks, Cursor' = Cursor, alarm' = alarm,
         InCallback' <=> InCallback
  PROVE  Standing(n + 1, InsertedAt(n, f, a), p + 1)'
<1> DEFINE g == InsertedAt(n, f, a)
<1>1. /\ Ring(n, f) /\ p \in 1..n+1 /\ f[p] = Cursor
      /\ \A e \in 1..p-1 : Served(f[e]) \/ (InCallback /\ f[e] = alarm)
      /\ \A e \in p..n : Unserved(f[e]) /\ (InCallback => f[e] # alarm)
  BY DEF Standing
<1>2. /\ n \in Nat /\ \A e \in 1..n : f[e] \in registered /\ f[e] \in Alarms
  BY <1>1, RingFacts
<1>3. /\ a \notin registered /\ Inserted(a) /\ registered' = registered \cup {a}
      /\ time' = [time EXCEPT ![a] = Wrap(_alt_nticks + q + 1)]
      /\ rollover' = [rollover EXCEPT ![a] = Wrap(_alt_nticks + q + 1) < _alt_nticks]
      /\ remaining' = [remaining EXCEPT ![a] = q + 1]
  BY DEF Started
<1>4. Ring(n + 1, g)'
  BY <1>1, <1>3, RingInserted
<1>5. /\ g[1] = a /\ \A e \in 2..n+2 : g[e] = f[e - 1]
  BY <1>2 DEF InsertedAt
<1> HIDE DEF g
<1>6. time \in [Alarms -> 0..TickMod-1] /\ rollover \in [Alarms -> BOOLEAN]
      /\ remaining \in [Alarms -> Int] /\ _alt_nticks \in 0..TickMod-1
  BY DEF AlarmTypes, AlarmsTypeOK
<1>7. Served(a)'
  <2> DEFINE r == q + 1
  <2>1. r \in 1..TickMod-1
    BY AlarmsAssumption
  <2>2. _alt_nticks + q + 1 = _alt_nticks + r
    BY <1>6, AlarmsAssumption
  <2>3. time'[a] = Wrap(_alt_nticks + r) /\ remaining'[a] = r
    BY <1>3, <1>6, <2>2
  <2>4. rollover'[a] <=> time'[a] < _alt_nticks
    <3>1. rollover'[a] = (Wrap(_alt_nticks + r) < _alt_nticks)
      BY <1>3, <1>6, <2>2, Zenon
    <3> QED
      BY <2>3, <3>1
  <2> HIDE DEF r
  <2> QED
    BY <2>1, <2>3, <2>4, SetOut
<1>8. \A b \in registered : (Served(b) => Served(b)') /\ (Unserved(b) => Unserved(b)')
  <2> TAKE b \in registered
  <2>1. b # a /\ b \in Alarms
    BY <1>3 DEF AlarmTypes, AlarmsTypeOK
  <2>2. time'[b] = time[b] /\ rollover'[b] = rollover[b] /\ remaining'[b] = remaining[b]
    BY <1>3, <1>6, <2>1
  <2> QED
    BY <2>2, Stays
<1>9. p + 1 \in 1..(n+1)+1 /\ g[p + 1] = Cursor'
  <2>1. p + 1 \in 2..n+2 /\ (p + 1) - 1 = p /\ p + 1 \in 1..(n+1)+1
    BY <1>1, <1>2
  <2>2. g[p + 1] = f[p]
    BY <1>5, <2>1
  <2> QED
    BY <1>1, <2>1, <2>2
<1>10. ASSUME NEW e \in 1..(p+1)-1
       PROVE  Served(g[e])' \/ (InCallback' /\ g[e] = alarm')
  <2>1. CASE e = 1
    BY <1>5, <1>7, <2>1
  <2>2. CASE e # 1
    <3> DEFINE k == e - 1
    <3>1. e \in 2..n+2 /\ k \in 1..p-1 /\ k \in 1..n
      BY <1>1, <1>2, <2>2
    <3>2. g[e] = f[k]
      BY <1>5, <3>1
    <3> HIDE DEF k
    <3> QED
      BY <1>1, <1>2, <1>8, <3>1, <3>2
  <2> QED
    BY <2>1, <2>2
<1>11. ASSUME NEW e \in p+1..n+1
       PROVE  Unserved(g[e])' /\ (InCallback' => g[e] # alarm')
  <2> DEFINE k == e - 1
  <2>1. e \in 2..n+2 /\ k \in p..n /\ k \in 1..n
    BY <1>1, <1>2
  <2>2. g[e] = f[k]
    BY <1>5, <2>1
  <2> HIDE DEF k
  <2> QED
    BY <1>1, <1>2, <1>8, <2>1, <2>2
<1>12. Standing(n + 1, g, p + 1)'
  BY <1>4, <1>9, <1>10, <1>11 DEF Standing
<1> QED
  BY <1>12 DEF g, InsertedAt

\* A stop, of any alarm but the one that is next.
LEMMA StandsAfterStop ==
  ASSUME AlarmTypes, NEW n, NEW f, NEW p, Standing(n, f, p),
         NEW j \in 1..n, j # p, Stopped(f[j]),
         UNCHANGED <<_alt_nticks, due, remaining>>, Cursor' = Cursor,
         InCallback' => InCallback /\ alarm' = alarm,
         InCallback /\ ~InCallback' => f[j] = alarm
  PROVE  \E m, g, o : Standing(m, g, o)'
<1> DEFINE g == RemovedAt(n, f, j)
           o == IF j < p THEN p - 1 ELSE p
<1>1. /\ Ring(n, f) /\ p \in 1..n+1 /\ f[p] = Cursor
      /\ \A e \in 1..p-1 : Served(f[e]) \/ (InCallback /\ f[e] = alarm)
      /\ \A e \in p..n : Unserved(f[e]) /\ (InCallback => f[e] # alarm)
  BY DEF Standing
<1>2. /\ n \in Nat /\ \A e \in 1..n : f[e] \in registered /\ f[e] \in Alarms
      /\ \A e, k \in 0..n : f[e] = f[k] => e = k
  BY <1>1, RingFacts DEF Ring
<1>3. Ring(n - 1, g)'
  BY <1>1, RingRemoved DEF Stopped
<1>4. \A e \in 0..n : (e < j => g[e] = f[e]) /\ (e >= j => g[e] = f[e + 1])
  <2>1. \A e \in 0..n : (e < j \/ e >= j) /\ ~(e < j /\ e >= j)
    BY <1>2
  <2> QED
    BY <1>2, <2>1 DEF RemovedAt
<1>5. o \in 1..n /\ (j < p => o = p - 1) /\ (j > p => o = p)
  BY <1>1, <1>2
<1> HIDE DEF g, o
<1>6. \A b : (Served(b) => Served(b)') /\ (Unserved(b) => Unserved(b)')
  BY Stays DEF due
<1>7. j < p \/ j > p
  BY <1>1, <1>2
<1>8. g[o] = Cursor'
  <2>1. CASE j < p
    <3>1. o \in 0..n /\ o >= j /\ o + 1 = p
      BY <1>1, <1>2, <1>5, <2>1
    <3> QED
      BY <1>1, <1>4, <3>1
  <2>2. CASE j > p
    <3>1. o \in 0..n /\ o < j /\ o = p
      BY <1>1, <1>2, <1>5, <2>2
    <3> QED
      BY <1>1, <1>4, <3>1
  <2> QED
    BY <1>7, <2>1, <2>2
<1>9. ASSUME NEW k \in 1..p-1, k # j
      PROVE  Served(f[k])' \/ (InCallback' /\ f[k] = alarm')
  <2>1. k \in 0..n /\ j \in 0..n
    BY <1>1, <1>2
  <2>2. f[k] # f[j]
    BY <1>2, <1>9, <2>1
  <2> QED
    BY <1>1, <1>6, <2>2
<1>10. ASSUME NEW e \in 1..o-1
       PROVE  Served(g[e])' \/ (InCallback' /\ g[e] = alarm')
  <2>1. CASE e < j
    <3>1. e \in 0..n /\ e \in 1..p-1 /\ e # j
      BY <1>1, <1>2, <1>5, <1>7, <2>1
    <3> QED
      BY <1>4, <1>9, <2>1, <3>1
  <2>2. CASE e >= j
    <3>1. e \in 0..n /\ e + 1 \in 1..p-1 /\ e + 1 # j
      BY <1>1, <1>2, <1>5, <1>7, <2>2
    <3> QED
      BY <1>4, <1>9, <2>2, <3>1
  <2> QED
    BY <1>5, <2>1, <2>2
<1>11. ASSUME NEW e \in o..n-1
       PROVE  Unserved(g[e])' /\ (InCallback' => g[e] # alarm')
  <2>1. CASE e < j
    <3>1. e \in 0..n /\ e \in p..n
      BY <1>1, <1>2, <1>5, <1>7, <2>1
    <3> QED
      BY <1>1, <1>4, <1>6, <2>1, <3>1
  <2>2. CASE e >= j
    <3>1. e \in 0..n /\ e + 1 \in p..n
      BY <1>1, <1>2, <1>5, <1>7, <2>2
    <3> QED
      BY <1>1, <1>4, <1>6, <2>2, <3>1
  <2> QED
    BY <1>5, <2>1, <2>2
<1>12. o \in 1..(n-1)+1
  BY <1>2, <1>5
<1>13. Standing(n - 1, g, o)'
  BY <1>3, <1>8, <1>10, <1>11, <1>12 DEF Standing
<1> QED
  BY <1>13

LEMMA StartedTypes ==
  ASSUME AlarmTypes, NEW a \in Alarms, NEW q \in Periods, Started(a, q)
  PROVE  /\ nextOf' \in [Nodes -> Nodes] /\ previousOf' \in [Nodes -> Nodes]
         /\ time' \in [Alarms -> 0..TickMod-1] /\ rollover' \in [Alarms -> BOOLEAN]
         /\ remaining' \in [Alarms -> Int] /\ registered' \subseteq Alarms
<1>1. /\ time \in [Alarms -> 0..TickMod-1] /\ rollover \in [Alarms -> BOOLEAN]
      /\ remaining \in [Alarms -> Int] /\ _alt_nticks \in 0..TickMod-1
      /\ nextOf \in [Nodes -> Nodes] /\ previousOf \in [Nodes -> Nodes]
      /\ registered \subseteq Alarms /\ a \in Nodes /\ List \in Nodes
  BY DEF AlarmTypes, AlarmsTypeOK, Nodes
<1>2. nextOf' \in [Nodes -> Nodes] /\ previousOf' \in [Nodes -> Nodes]
  BY <1>1 DEF Started, Inserted
<1>3. Wrap(_alt_nticks + q + 1) \in 0..TickMod-1
  <2>1. _alt_nticks + q + 1 \in 0..2 * TickMod - 1
    BY <1>1, AlarmsAssumption
  <2> QED
    BY <2>1, WrapIs
<1>4. q + 1 \in Int
  BY AlarmsAssumption
<1>5. time' \in [Alarms -> 0..TickMod-1] /\ remaining' \in [Alarms -> Int]
  BY <1>1, <1>3, <1>4 DEF Started
<1>6. rollover' \in [Alarms -> BOOLEAN] /\ registered' \subseteq Alarms
  BY <1>1 DEF Started
<1> QED
  BY <1>2, <1>5, <1>6

LEMMA StoppedTypes ==
  ASSUME AlarmTypes, NEW a \in Alarms, Stopped(a)
  PROVE  /\ nextOf' \in [Nodes -> Nodes] /\ previousOf' \in [Nodes -> Nodes]
         /\ registered' \subseteq Alarms
<1>1. /\ nextOf \in [Nodes -> Nodes] /\ previousOf \in [Nodes -> Nodes]
      /\ registered \subseteq Alarms /\ a \in Nodes
  BY DEF AlarmTypes, AlarmsTypeOK, Nodes
<1> QED
  BY <1>1 DEF Stopped, Removed

-----------------------------------------------------------------------------
(* The steps. *)

LEMMA StartKeeps == AlarmsInv /\ alt_alarm_start => AlarmsInv'
<1> SUFFICES ASSUME AlarmsInv, alt_alarm_start
             PROVE  AlarmsInv'
  OBVIOUS
<1>1. PICK a \in Alarms, q \in Periods : Started(a, q)
  BY DEF alt_alarm_start
<1>2. /\ AlarmTypes /\ RingInv /\ at = "idle"
      /\ _alt_nticks' = _alt_nticks /\ at' = at /\ alarm' = alarm /\ next' = next
      /\ strayed' = strayed
  BY DEF AlarmsInv, alt_alarm_start
<1>3. AlarmTypes'
  BY <1>1, <1>2, StartedTypes DEF AlarmTypes, AlarmsTypeOK, Nodes
<1>4. RingInv'
  BY <1>1, <1>2, LooseInserted DEF Started
<1>5. ~InCallback /\ ~InCallback' /\ Cursor = List /\ Cursor' = List
  BY <1>2 DEF InCallback, Cursor
<1>6. ASSUME ~strayed
      PROVE  \E n, f, p : Standing(n, f, p)'
  <2>1. PICK n, f, p : Standing(n, f, p)
    BY <1>6 DEF AlarmsInv
  <2>2. Standing(n + 1, InsertedAt(n, f, a), p + 1)'
    BY <1>1, <1>2, <1>5, <2>1, StandsAfterStart
  <2> QED
    BY <2>2
<1>7. CallbackInv'
  BY <1>5 DEF CallbackInv
<1> QED
  BY <1>2, <1>3, <1>4, <1>6, <1>7 DEF AlarmsInv

LEMMA StopKeeps == AlarmsInv /\ alt_alarm_stop => AlarmsInv'
<1> SUFFICES ASSUME AlarmsInv, alt_alarm_stop
             PROVE  AlarmsInv'
  OBVIOUS
<1>1. PICK a \in registered : Stopped(a)
  BY DEF alt_alarm_stop
<1>2. /\ AlarmTypes /\ RingInv /\ at = "idle"
      /\ _alt_nticks' = _alt_nticks /\ at' = at /\ alarm' = alarm /\ next' = next
      /\ strayed' = strayed /\ time' = time /\ rollover' = rollover
      /\ remaining' = remaining
  BY DEF AlarmsInv, alt_alarm_stop, due
<1>3. a \in Alarms
  BY <1>2 DEF AlarmTypes, AlarmsTypeOK
<1>4. AlarmTypes'
  BY <1>1, <1>2, <1>3, StoppedTypes DEF AlarmTypes, AlarmsTypeOK, Nodes
<1>5. RingInv'
  BY <1>1, <1>2, <1>3, LooseRemoved DEF Stopped
<1>6. ~InCallback /\ ~InCallback' /\ Cursor = List /\ Cursor' = List
  BY <1>2 DEF InCallback, Cursor
<1>7. ASSUME ~strayed
      PROVE  \E n, f, p : Standing(n, f, p)'
  <2>1. PICK n, f, p : Standing(n, f, p)
    BY <1>7 DEF AlarmsInv
  <2>2. Ring(n, f) /\ f[p] = List /\ p \in 1..n+1
    BY <1>6, <2>1 DEF Standing
  <2>3. PICK j \in 1..n : f[j] = a
    BY <1>2, <2>2, RingFacts
  <2>4. f[j] # List
    BY <1>2, <2>2, RingFacts
  <2>5. Stopped(f[j]) /\ j # p
    BY <1>1, <2>2, <2>3, <2>4
  <2>6. UNCHANGED <<_alt_nticks, due, remaining>>
    BY <1>2 DEF due
  <2> QED
    BY <1>2, <1>6, <2>1, <2>5, <2>6, StandsAfterStop
<1>8. CallbackInv'
  BY <1>6 DEF CallbackInv
<1> QED
  BY <1>2, <1>4, <1>5, <1>7, <1>8 DEF AlarmsInv

\* The ring is the same as long as nobody changes it.
LEMMA SameRing ==
  ASSUME UNCHANGED <<links, registered>>
  PROVE  /\ RingInv => RingInv'
         /\ \A n, f : Ring(n, f) => Ring(n, f)'
<1>1. \A n, f : Ring(n, f) => Ring(n, f)'
  BY DEF Ring, links, Nodes
<1>2. Loose => Loose'
  BY DEF Loose, links
<1>3. (\E n, f : Ring(n, f)) => \E n, f : Ring(n, f)'
  BY <1>1
<1> QED
  BY <1>1, <1>2, <1>3 DEF RingInv

LEMMA TickKeeps == AlarmsInv /\ Tick => AlarmsInv'
<1> SUFFICES ASSUME AlarmsInv, Tick
             PROVE  AlarmsInv'
  OBVIOUS
<1>1. /\ AlarmTypes /\ RingInv /\ at = "idle"
      /\ _alt_nticks' = Wrap(_alt_nticks + 1)
      /\ alarm' = nextOf[List] /\ at' = IF alarm' = List THEN "idle" ELSE "look"
      /\ remaining' = [a \in Alarms |->
                         IF a \in registered THEN remaining[a] - 1 ELSE 0]
      /\ UNCHANGED <<links, due, next, registered, strayed>>
  BY DEF AlarmsInv, Tick
<1>2. /\ nextOf \in [Nodes -> Nodes] /\ remaining \in [Alarms -> Int]
      /\ _alt_nticks \in 0..TickMod-1 /\ List \in Nodes
  BY <1>1 DEF AlarmTypes, AlarmsTypeOK, Nodes
<1>3. _alt_nticks' \in 0..TickMod-1
  <2>1. _alt_nticks + 1 \in 0..2 * TickMod - 1
    BY <1>2, AlarmsAssumption
  <2> QED
    BY <1>1, <2>1, WrapIs
<1>4. AlarmTypes'
  <2>1. remaining' \in [Alarms -> Int]
    BY <1>1, <1>2
  <2>2. alarm' \in Nodes /\ (at' # "idle" => alarm' \in Alarms)
    BY <1>1, <1>2 DEF Nodes
  <2> QED
    BY <1>1, <1>3, <2>1, <2>2 DEF AlarmTypes, AlarmsTypeOK, links, due, Nodes
<1>5. RingInv'
  BY <1>1, SameRing
<1>6. ~InCallback /\ ~InCallback' /\ Cursor = List /\ Cursor' = nextOf[List]
  BY <1>1 DEF InCallback, Cursor
<1>7. ASSUME ~strayed
      PROVE  \E n, f, p : Standing(n, f, p)'
  <2>1. PICK n, f, p : Standing(n, f, p)
    BY <1>7 DEF AlarmsInv
  <2>2. Ring(n, f) /\ f[p] = List /\ p \in 1..n+1
    BY <1>6, <2>1 DEF Standing
  <2>3. /\ n \in Nat /\ \A e \in 1..n : f[e] \in registered /\ f[e] \in Alarms
        /\ nextOf[List] = f[1] /\ p = n + 1
    BY <1>1, <2>2, RingFacts
  <2>4. ASSUME NEW e \in 1..n
        PROVE  Unserved(f[e])'
    <3>1. Served(f[e])
      <4>1. e \in 1..p-1
        BY <2>3
      <4> QED
        BY <1>6, <2>1, <4>1 DEF Standing
    <3>2. f[e] \in Alarms /\ remaining'[f[e]] = remaining[f[e]] - 1
      BY <1>1, <2>3
    <3> QED
      BY <1>1, <3>1, <3>2, NextTick
  <2>5. Ring(n, f)'
    BY <1>1, <2>2, SameRing
  <2>6. 1 \in 1..n+1 /\ \A e \in 1..1-1 : FALSE
    BY <2>3
  <2>7. Standing(n, f, 1)'
    BY <1>6, <2>3, <2>4, <2>5, <2>6 DEF Standing
  <2> QED
    BY <2>7
<1>8. CallbackInv'
  BY <1>6 DEF CallbackInv
<1> QED
  BY <1>1, <1>4, <1>5, <1>7, <1>8 DEF AlarmsInv

\* Where alt_tick goes on from.
LEMMA OnFrom ==
  ASSUME AlarmTypes, NEW n, NEW f, NEW p, Standing(n, f, p), at = "look"
  PROVE  /\ n \in Nat /\ p \in 1..n /\ f[p] = alarm /\ alarm \in registered
         /\ nextOf[alarm] = f[p + 1] /\ p + 1 \in 1..n+1
         /\ \A e \in 1..n : f[e] \in registered /\ f[e] \in Alarms
         /\ \A e \in 1..n : e # p => f[e] # alarm
         /\ \A e \in 1..p-1 : e \in 1..n /\ Served(f[e])
         /\ \A e \in p..n : e \in 1..n /\ Unserved(f[e])
<1>1. /\ Ring(n, f) /\ p \in 1..n+1 /\ f[p] = alarm /\ alarm \in Alarms
      /\ \A e \in 1..p-1 : Served(f[e])
      /\ \A e \in p..n : Unserved(f[e])
  BY DEF Standing, Cursor, InCallback, AlarmTypes
<1>2. /\ n \in Nat /\ \A e \in 1..n : f[e] \in registered /\ f[e] \in Alarms
      /\ \A e \in 1..n+1 : f[e] = List <=> e = n + 1
  BY <1>1, RingFacts
<1>3. p # n + 1
  BY <1>1, <1>2, AlarmsAssumption
<1>4. p \in 1..n /\ p \in 0..n /\ p + 1 \in 1..n+1
  BY <1>1, <1>2, <1>3
<1>5. nextOf[f[p]] = f[p + 1] /\ \A e \in 0..n : f[e] = f[p] => e = p
  BY <1>1, <1>4 DEF Ring
<1>6. \A e \in 1..n : e \in 0..n
  BY <1>2
<1>7. (\A e \in 1..p-1 : e \in 1..n) /\ (\A e \in p..n : e \in 1..n)
  BY <1>2, <1>4
<1> QED
  BY <1>1, <1>2, <1>4, <1>5, <1>6, <1>7

LEMMA PassKeeps == AlarmsInv /\ Pass => AlarmsInv'
<1> SUFFICES ASSUME AlarmsInv, Pass
             PROVE  AlarmsInv'
  OBVIOUS
<1>1. /\ AlarmTypes /\ RingInv /\ at = "look" /\ alarm \in Alarms /\ ~IsDue(alarm)
      /\ rollover' = [rollover EXCEPT ![alarm] = StillWaiting(alarm)]
      /\ alarm' = nextOf[alarm] /\ next' = List
      /\ at' = IF alarm' = List THEN "idle" ELSE "look"
      /\ UNCHANGED <<_alt_nticks, links, time, remaining, registered, strayed>>
  BY DEF AlarmsInv, AlarmTypes, Pass, Advance
<1>2. /\ nextOf \in [Nodes -> Nodes] /\ rollover \in [Alarms -> BOOLEAN]
      /\ alarm \in Nodes /\ List \in Nodes
  BY <1>1 DEF AlarmTypes, AlarmsTypeOK, Nodes
<1>3. AlarmTypes'
  <2>1. rollover' \in [Alarms -> BOOLEAN]
    BY <1>1, <1>2 DEF StillWaiting
  <2>2. alarm' \in Nodes /\ (at' # "idle" => alarm' \in Alarms)
    BY <1>1, <1>2 DEF Nodes
  <2>3. at' \in {"idle", "look", "called", "acted"}
    BY <1>1
  <2> QED
    BY <1>1, <1>2, <2>1, <2>2, <2>3 DEF AlarmTypes, AlarmsTypeOK, links, Nodes
<1>4. RingInv'
  BY <1>1, SameRing
<1>5. ~InCallback' /\ Cursor' = alarm'
  BY <1>1 DEF InCallback, Cursor
<1>6. ASSUME ~strayed
      PROVE  \E n, f, p : Standing(n, f, p)'
  <2>1. PICK n, f, p : Standing(n, f, p)
    BY <1>6 DEF AlarmsInv
  <2>2. /\ n \in Nat /\ p \in 1..n /\ f[p] = alarm /\ nextOf[alarm] = f[p + 1]
        /\ p + 1 \in 1..n+1
        /\ \A e \in 1..n : f[e] \in registered /\ f[e] \in Alarms
        /\ \A e \in 1..n : e # p => f[e] # alarm
        /\ \A e \in 1..p-1 : e \in 1..n /\ Served(f[e])
        /\ \A e \in p..n : e \in 1..n /\ Unserved(f[e])
    BY <1>1, <2>1, OnFrom
  <2>3. \A e \in 1..n : e # p =>
          (Served(f[e]) => Served(f[e])') /\ (Unserved(f[e]) => Unserved(f[e])')
    <3> TAKE e \in 1..n
    <3> HAVE e # p
    <3>1. /\ rollover'[f[e]] = rollover[f[e]] /\ time'[f[e]] = time[f[e]]
          /\ remaining'[f[e]] = remaining[f[e]] /\ _alt_nticks' = _alt_nticks
      BY <1>1, <1>2, <2>2
    <3> QED
      BY <3>1, Stays
  <2>4. Served(f[p])'
    <3>1. Unserved(alarm)
      <4>1. p \in p..n
        BY <2>2
      <4> QED
        BY <2>2, <4>1
    <3>2. remaining[alarm] \in 1..TickMod-1
      <4>1. remaining[alarm] # 0 /\ remaining[alarm] \in 0..TickMod-2
        BY <1>1, <3>1, DueNow DEF Unserved
      <4> QED
        BY <4>1, AlarmsAssumption
    <3>3. rollover'[alarm] = StillWaiting(alarm)
      BY <1>1, <1>2
    <3>4. rollover'[alarm] <=> time[alarm] < _alt_nticks
      BY <3>1, <3>3, Zenon DEF Unserved
    <3>5. time[alarm] = Wrap(_alt_nticks + remaining[alarm])
      BY <3>1 DEF Unserved
    <3>6. /\ remaining'[f[p]] = remaining[alarm] /\ time'[f[p]] = time[alarm]
          /\ rollover'[f[p]] = rollover'[alarm] /\ _alt_nticks' = _alt_nticks
      BY <1>1, <2>2
    <3> QED
      BY <3>2, <3>4, <3>5, <3>6 DEF Served, Wrap
  <2>5. Ring(n, f)'
    BY <1>1, <2>1, SameRing DEF Standing
  <2>6. \A e \in 1..(p+1)-1 : e = p \/ e \in 1..p-1
    BY <2>2
  <2>7. \A e \in p+1..n : e \in p..n /\ e # p
    BY <2>2
  <2>8. \A e \in 1..p-1 : e # p
    BY <2>2
  <2>9. \A e \in 1..(p+1)-1 : Served(f[e])'
    BY <2>2, <2>3, <2>4, <2>6, <2>8
  <2>10. \A e \in p+1..n : Unserved(f[e])'
    BY <2>2, <2>3, <2>7
  <2>11. f[p + 1] = Cursor'
    BY <1>1, <1>5, <2>2
  <2>12. Standing(n, f, p + 1)'
    BY <1>5, <2>2, <2>5, <2>9, <2>10, <2>11 DEF Standing
  <2> QED
    BY <2>12
<1>7. CallbackInv'
  BY <1>5 DEF CallbackInv
<1> QED
  BY <1>1, <1>3, <1>4, <1>6, <1>7 DEF AlarmsInv

LEMMA CallKeeps == AlarmsInv /\ Call => AlarmsInv'
<1> SUFFICES ASSUME AlarmsInv, Call
             PROVE  AlarmsInv'
  OBVIOUS
<1>1. /\ AlarmTypes /\ RingInv /\ at = "look" /\ alarm \in Alarms /\ IsDue(alarm)
      /\ rollover' = [rollover EXCEPT ![alarm] = FALSE]
      /\ next' = nextOf[alarm] /\ at' = "called"
      /\ UNCHANGED <<_alt_nticks, links, time, alarm, remaining, registered, strayed>>
  BY DEF AlarmsInv, AlarmTypes, Call
<1>2. /\ nextOf \in [Nodes -> Nodes] /\ rollover \in [Alarms -> BOOLEAN]
      /\ alarm \in Nodes
  BY <1>1 DEF AlarmTypes, AlarmsTypeOK, Nodes
<1>3. AlarmTypes'
  <2>1. rollover' \in [Alarms -> BOOLEAN] /\ next' \in Nodes
    BY <1>1, <1>2
  <2> QED
    BY <1>1, <1>2, <2>1 DEF AlarmTypes, AlarmsTypeOK, links, Nodes
<1>4. RingInv'
  BY <1>1, SameRing
<1>5. InCallback' /\ Cursor' = next' /\ alarm' = alarm
  BY <1>1 DEF InCallback, Cursor
<1>6. ASSUME ~strayed
      PROVE  (\E n, f, p : Standing(n, f, p)') /\ CallbackInv'
  <2>1. PICK n, f, p : Standing(n, f, p)
    BY <1>6 DEF AlarmsInv
  <2>2. /\ n \in Nat /\ p \in 1..n /\ f[p] = alarm /\ nextOf[alarm] = f[p + 1]
        /\ alarm \in registered /\ p + 1 \in 1..n+1
        /\ \A e \in 1..n : f[e] \in registered /\ f[e] \in Alarms
        /\ \A e \in 1..n : e # p => f[e] # alarm
        /\ \A e \in 1..p-1 : e \in 1..n /\ Served(f[e])
        /\ \A e \in p..n : e \in 1..n /\ Unserved(f[e])
    BY <1>1, <2>1, OnFrom
  <2>3. \A e \in 1..n : e # p =>
          (Served(f[e]) => Served(f[e])') /\ (Unserved(f[e]) => Unserved(f[e])')
    <3> TAKE e \in 1..n
    <3> HAVE e # p
    <3>1. /\ rollover'[f[e]] = rollover[f[e]] /\ time'[f[e]] = time[f[e]]
          /\ remaining'[f[e]] = remaining[f[e]] /\ _alt_nticks' = _alt_nticks
      BY <1>1, <1>2, <2>2
    <3> QED
      BY <3>1, Stays
  <2>4. remaining[alarm] = 0 /\ time[alarm] = _alt_nticks
    <3>1. Unserved(alarm)
      <4>1. p \in p..n
        BY <2>2
      <4> QED
        BY <2>2, <4>1
    <3> QED
      BY <1>1, <3>1, DueNow
  <2>5. Ring(n, f)'
    BY <1>1, <2>1, SameRing DEF Standing
  <2>6. \A e \in 1..(p+1)-1 : e = p \/ (e \in 1..p-1 /\ e # p)
    BY <2>2
  <2>7. \A e \in p+1..n : e \in p..n /\ e # p
    BY <2>2
  <2>8. \A e \in 1..(p+1)-1 : Served(f[e])' \/ f[e] = alarm'
    BY <1>5, <2>2, <2>3, <2>6
  <2>9. \A e \in p+1..n : Unserved(f[e])' /\ f[e] # alarm'
    BY <1>5, <2>2, <2>3, <2>7
  <2>10. f[p + 1] = Cursor'
    BY <1>1, <1>5, <2>2
  <2>11. Standing(n, f, p + 1)'
    BY <1>5, <2>2, <2>5, <2>8, <2>9, <2>10 DEF Standing
  <2>12. ~rollover'[alarm]
    BY <1>1, <1>2
  <2>13. CallbackInv'
    BY <1>1, <1>5, <2>2, <2>4, <2>12 DEF CallbackInv
  <2> QED
    BY <2>11, <2>13
<1> QED
  BY <1>1, <1>3, <1>4, <1>6 DEF AlarmsInv

LEMMA CallbackStartsKeeps ==
  ASSUME AlarmsInv, CallbackActs, NEW a \in Alarms, NEW q \in Periods,
         Started(a, q), UNCHANGED strayed
  PROVE  AlarmsInv'
<1>1. /\ AlarmTypes /\ RingInv /\ at = "called" /\ at' = "acted"
      /\ _alt_nticks' = _alt_nticks /\ alarm' = alarm /\ next' = next
      /\ strayed' = strayed
  BY DEF AlarmsInv, CallbackActs
<1>2. AlarmTypes'
  BY <1>1, StartedTypes DEF AlarmTypes, AlarmsTypeOK, Nodes
<1>3. RingInv'
  BY <1>1, LooseInserted DEF Started
<1>4. InCallback /\ InCallback' /\ Cursor = next /\ Cursor' = next
  BY <1>1 DEF InCallback, Cursor
<1>5. ASSUME ~strayed
      PROVE  (\E n, f, p : Standing(n, f, p)') /\ CallbackInv'
  <2>1. PICK n, f, p : Standing(n, f, p)
    BY <1>5 DEF AlarmsInv
  <2>2. Standing(n + 1, InsertedAt(n, f, a), p + 1)'
    BY <1>1, <1>4, <2>1, StandsAfterStart
  <2>3. /\ alarm \in registered /\ remaining[alarm] = 0
        /\ time[alarm] = _alt_nticks /\ ~rollover[alarm]
    BY <1>1, <1>4, <1>5 DEF AlarmsInv, CallbackInv
  <2>4. a # alarm /\ alarm \in Alarms
    BY <1>1, <2>3 DEF Started, AlarmTypes
  <2>5. /\ time' = [time EXCEPT ![a] = Wrap(_alt_nticks + q + 1)]
        /\ rollover' = [rollover EXCEPT ![a] = Wrap(_alt_nticks + q + 1) < _alt_nticks]
        /\ remaining' = [remaining EXCEPT ![a] = q + 1]
    BY DEF Started
  <2>6. /\ time'[alarm] = time[alarm] /\ rollover'[alarm] = rollover[alarm]
        /\ remaining'[alarm] = remaining[alarm]
    BY <1>1, <2>4, <2>5 DEF AlarmTypes, AlarmsTypeOK
  <2>7. CallbackInv'
    BY <1>1, <2>3, <2>6 DEF CallbackInv
  <2> QED
    BY <2>2, <2>7
<1> QED
  BY <1>1, <1>2, <1>3, <1>5 DEF AlarmsInv

LEMMA CallbackStopsKeeps ==
  ASSUME AlarmsInv, CallbackActs, NEW a \in registered, Stopped(a),
         strayed' = (strayed \/ (a = next /\ a # alarm)), UNCHANGED <<due, remaining>>
  PROVE  AlarmsInv'
<1>1. /\ AlarmTypes /\ RingInv /\ at = "called" /\ at' = "acted"
      /\ _alt_nticks' = _alt_nticks /\ alarm' = alarm /\ next' = next
      /\ time' = time /\ rollover' = rollover /\ remaining' = remaining
  BY DEF AlarmsInv, CallbackActs, due
<1>2. a \in Alarms
  BY <1>1 DEF AlarmTypes, AlarmsTypeOK
<1>3. AlarmTypes'
  <2>1. strayed' \in BOOLEAN
    BY DEF AlarmsInv, AlarmTypes, AlarmsTypeOK
  <2> QED
    BY <1>1, <1>2, <2>1, StoppedTypes DEF AlarmTypes, AlarmsTypeOK, Nodes
<1>4. RingInv'
  BY <1>1, <1>2, LooseRemoved DEF Stopped
<1>5. InCallback /\ InCallback' /\ Cursor = next /\ Cursor' = next
  BY <1>1 DEF InCallback, Cursor
<1>6. ASSUME ~strayed, ~(a = next /\ a # alarm)
      PROVE  (\E n, f, p : Standing(n, f, p)') /\ CallbackInv'
  <2>1. PICK n, f, p : Standing(n, f, p)
    BY <1>6 DEF AlarmsInv
  <2>2. /\ Ring(n, f) /\ f[p] = next /\ p \in 1..n+1
        /\ \A e \in p..n : f[e] # alarm
    BY <1>5, <2>1 DEF Standing
  <2>3. PICK j \in 1..n : f[j] = a
    BY <1>1, <2>2, RingFacts
  <2>4. j # p
    <3>1. n \in Nat
      BY <2>2 DEF Ring
    <3>2. j = p => j \in p..n
      BY <3>1
    <3> QED
      BY <1>6, <2>2, <2>3, <3>2
  <2>5. UNCHANGED <<_alt_nticks, due, remaining>>
    BY <1>1 DEF due
  <2>6. \E m, g, o : Standing(m, g, o)'
    BY <1>1, <1>5, <2>1, <2>3, <2>4, <2>5, StandsAfterStop
  <2>7. CallbackInv'
    BY <1>1, <1>5, <1>6 DEF AlarmsInv, CallbackInv, Stopped
  <2> QED
    BY <2>6, <2>7
<1>7. ~strayed' => ~strayed /\ ~(a = next /\ a # alarm)
  OBVIOUS
<1> QED
  BY <1>3, <1>4, <1>6, <1>7 DEF AlarmsInv

LEMMA CallbackActsKeeps == AlarmsInv /\ CallbackActs => AlarmsInv'
<1> SUFFICES ASSUME AlarmsInv, CallbackActs
             PROVE  AlarmsInv'
  OBVIOUS
<1>1. \/ (\E a \in Alarms, q \in Periods : Started(a, q)) /\ UNCHANGED strayed
      \/ /\ \E a \in registered :
              Stopped(a) /\ strayed' = (strayed \/ (a = next /\ a # alarm))
         /\ UNCHANGED <<due, remaining>>
  BY DEF CallbackActs
<1> QED
  BY <1>1, CallbackStartsKeeps, CallbackStopsKeeps

LEMMA CallbackEndsKeeps == AlarmsInv /\ CallbackEnds => AlarmsInv'
<1> SUFFICES ASSUME AlarmsInv, CallbackEnds
             PROVE  AlarmsInv'
  OBVIOUS
<1>1. /\ AlarmTypes /\ RingInv /\ at \in {"called", "acted"} /\ alarm \in Alarms
      /\ Stopped(alarm) /\ alarm' = next /\ next' = List
      /\ at' = IF alarm' = List THEN "idle" ELSE "look"
      /\ _alt_nticks' = _alt_nticks /\ time' = time /\ rollover' = rollover
      /\ remaining' = remaining /\ strayed' = strayed
  BY DEF AlarmsInv, AlarmTypes, CallbackEnds, Advance, Following, due
<1>2. next \in Nodes
  BY <1>1 DEF AlarmTypes, AlarmsTypeOK
<1>3. AlarmTypes'
  <2>1. /\ nextOf' \in [Nodes -> Nodes] /\ previousOf' \in [Nodes -> Nodes]
        /\ registered' \subseteq Alarms
    BY <1>1, StoppedTypes
  <2>2. /\ at' \in {"idle", "look", "called", "acted"} /\ next' \in Nodes
        /\ at' # "idle" => alarm' \in Alarms
    BY <1>1, <1>2 DEF Nodes
  <2> QED
    BY <1>1, <1>2, <2>1, <2>2 DEF AlarmTypes, AlarmsTypeOK, Nodes
<1>4. RingInv'
  BY <1>1, LooseRemoved DEF Stopped
<1>5. InCallback /\ ~InCallback' /\ Cursor = next /\ Cursor' = next
  BY <1>1 DEF InCallback, Cursor
<1>6. ASSUME ~strayed
      PROVE  \E n, f, p : Standing(n, f, p)'
  <2>1. PICK n, f, p : Standing(n, f, p)
    BY <1>6 DEF AlarmsInv
  <2>2. /\ Ring(n, f) /\ f[p] = next /\ p \in 1..n+1
        /\ \A e \in 1..p-1 : Served(f[e]) \/ f[e] = alarm
        /\ \A e \in p..n : Unserved(f[e]) /\ f[e] # alarm
    BY <1>5, <2>1 DEF Standing
  <2>3. n \in Nat /\ \A e \in 1..n : f[e] \in registered
    BY <1>1, <2>2, RingFacts
  <2>4. CASE alarm \in registered
    <3>1. PICK j \in 1..n : f[j] = alarm
      BY <1>1, <2>2, <2>4, RingFacts
    <3>2. j # p
      <4>1. j = p => j \in p..n
        BY <2>3
      <4> QED
        BY <2>2, <3>1, <4>1
    <3>3. UNCHANGED <<_alt_nticks, due, remaining>>
      BY <1>1 DEF due
    <3> QED
      BY <1>1, <1>5, <2>1, <3>1, <3>2, <3>3, StandsAfterStop
  <2>5. CASE alarm \notin registered
    <3>1. nextOf' = nextOf /\ previousOf' = previousOf /\ registered' = registered
      BY <1>1, <2>5, LooseRemoved DEF Stopped
    <3>2. Ring(n, f)'
      BY <2>2, <3>1, SameRing DEF links
    <3>3. \A e \in 1..p-1 : e \in 1..n
      BY <2>2, <2>3
    <3>4. \A e \in 1..p-1 : Served(f[e])
      BY <2>2, <2>3, <2>5, <3>3
    <3>5. \A b : (Served(b) => Served(b)') /\ (Unserved(b) => Unserved(b)')
      BY <1>1, Stays
    <3>6. Standing(n, f, p)'
      BY <1>5, <2>2, <3>2, <3>4, <3>5 DEF Standing
    <3> QED
      BY <3>6
  <2> QED
    BY <2>4, <2>5
<1>7. CallbackInv'
  BY <1>5 DEF CallbackInv
<1> QED
  BY <1>1, <1>3, <1>4, <1>6, <1>7 DEF AlarmsInv

LEMMA CallbackRepeatsKeeps == AlarmsInv /\ CallbackRepeats => AlarmsInv'
<1> SUFFICES ASSUME AlarmsInv, CallbackRepeats
             PROVE  AlarmsInv'
  OBVIOUS
<1>1. PICK q \in Periods \ {0} :
        /\ time' = [time EXCEPT ![alarm] = Wrap(time[alarm] + q)]
        /\ rollover' = [rollover EXCEPT
                          ![alarm] = rollover[alarm] \/ Wrap(time[alarm] + q) < _alt_nticks]
        /\ remaining' = [remaining EXCEPT ![alarm] = remaining[alarm] + q]
  BY DEF CallbackRepeats
<1>2. /\ AlarmTypes /\ RingInv /\ at \in {"called", "acted"} /\ alarm \in Alarms
      /\ alarm' = next /\ next' = List
      /\ at' = IF alarm' = List THEN "idle" ELSE "look"
      /\ UNCHANGED <<_alt_nticks, links, registered, strayed>>
  BY DEF AlarmsInv, AlarmTypes, CallbackRepeats, Advance, Following
<1>3. /\ time \in [Alarms -> 0..TickMod-1] /\ rollover \in [Alarms -> BOOLEAN]
      /\ remaining \in [Alarms -> Int] /\ _alt_nticks \in 0..TickMod-1
      /\ next \in Nodes /\ List \in Nodes
  BY <1>2 DEF AlarmTypes, AlarmsTypeOK, Nodes
<1>4. q \in 1..TickMod-2 /\ TickMod \in Nat /\ TickMod > 2
  BY AlarmsAssumption
<1>5. Wrap(time[alarm] + q) \in 0..TickMod-1
  <2>1. time[alarm] \in 0..TickMod-1
    BY <1>2, <1>3
  <2>2. time[alarm] + q \in 0..2 * TickMod - 1
    BY <1>4, <2>1
  <2> QED
    BY <2>2, WrapIs
<1>6. AlarmTypes'
  <2>1. time' \in [Alarms -> 0..TickMod-1] /\ remaining' \in [Alarms -> Int]
    BY <1>1, <1>2, <1>3, <1>4, <1>5
  <2>2. rollover' \in [Alarms -> BOOLEAN]
    BY <1>1, <1>3
  <2>3. /\ at' \in {"idle", "look", "called", "acted"}
        /\ at' # "idle" => alarm' \in Alarms
    BY <1>2, <1>3 DEF Nodes
  <2> QED
    BY <1>2, <1>3, <2>1, <2>2, <2>3 DEF AlarmTypes, AlarmsTypeOK, links, Nodes
<1>7. RingInv'
  BY <1>2, SameRing
<1>8. InCallback /\ ~InCallback' /\ Cursor = next /\ Cursor' = next
  BY <1>2 DEF InCallback, Cursor
<1>9. ASSUME ~strayed
      PROVE  \E n, f, p : Standing(n, f, p)'
  <2>1. PICK n, f, p : Standing(n, f, p)
    BY <1>9 DEF AlarmsInv
  <2>2. /\ Ring(n, f) /\ f[p] = next /\ p \in 1..n+1
        /\ \A e \in 1..p-1 : Served(f[e]) \/ f[e] = alarm
        /\ \A e \in p..n : Unserved(f[e]) /\ f[e] # alarm
    BY <1>8, <2>1 DEF Standing
  <2>3. n \in Nat /\ \A e \in 1..n : f[e] \in registered /\ f[e] \in Alarms
    BY <1>2, <2>2, RingFacts
  <2>5. ASSUME NEW b \in Alarms, b # alarm
        PROVE  (Served(b) => Served(b)') /\ (Unserved(b) => Unserved(b)')
    <3>1. /\ time'[b] = time[b] /\ rollover'[b] = rollover[b]
          /\ remaining'[b] = remaining[b] /\ _alt_nticks' = _alt_nticks
      BY <1>1, <1>2, <1>3, <2>5
    <3> QED
      BY <3>1, Stays
  <2>6. ASSUME NEW b \in registered, b = alarm
        PROVE  Served(b)'
    <3>1. remaining[b] = 0 /\ time[b] = _alt_nticks /\ ~rollover[b]
      BY <1>8, <1>9, <2>6 DEF AlarmsInv, CallbackInv
    <3>2. q \in 1..TickMod-1
      BY <1>4
    <3>3. time'[b] = Wrap(_alt_nticks + q) /\ remaining'[b] = 0 + q
      BY <1>1, <1>2, <1>3, <2>6, <3>1
    <3>4. rollover'[b] = (rollover[b] \/ Wrap(time[b] + q) < _alt_nticks)
      BY <1>1, <1>2, <1>3, <2>6, Zenon
    <3>5. rollover'[b] <=> time'[b] < _alt_nticks
      BY <3>1, <3>3, <3>4, Zenon
    <3>6. remaining'[b] = q /\ b \in Alarms
      BY <1>2, <1>4, <2>6, <3>3
    <3> QED
      BY <1>2, <3>2, <3>3, <3>5, <3>6, SetOut
  <2>7. Ring(n, f)'
    BY <1>2, <2>2, SameRing
  <2>8. (\A e \in 1..p-1 : e \in 1..n) /\ (\A e \in p..n : e \in 1..n)
    BY <2>2, <2>3
  <2>9. \A e \in 1..p-1 : Served(f[e])'
    BY <2>2, <2>3, <2>5, <2>6, <2>8
  <2>10. \A e \in p..n : Unserved(f[e])'
    BY <2>2, <2>3, <2>5, <2>8
  <2>11. Standing(n, f, p)'
    BY <1>8, <2>2, <2>7, <2>9, <2>10 DEF Standing
  <2> QED
    BY <2>11
<1>10. CallbackInv'
  BY <1>8 DEF CallbackInv
<1> QED
  BY <1>2, <1>6, <1>7, <1>9, <1>10 DEF AlarmsInv

-----------------------------------------------------------------------------
\* At first the ring is the head alone.
LEMMA AlarmsStart == AlarmsInit => AlarmsInv
<1> SUFFICES ASSUME AlarmsInit
             PROVE  AlarmsInv
  OBVIOUS
<1> DEFINE f == [e \in 0..1 |-> List]
<1>1. AlarmTypes
  <2>1. 0 \in 0..TickMod-1 /\ 0 \in Int
    BY AlarmsAssumption
  <2>2. /\ nextOf \in [Nodes -> Nodes] /\ previousOf \in [Nodes -> Nodes]
        /\ alarm \in Nodes /\ next \in Nodes /\ at = "idle"
        /\ registered = {} /\ strayed = FALSE
    BY DEF AlarmsInit, Nodes
  <2>3. /\ _alt_nticks \in 0..TickMod-1 /\ time \in [Alarms -> 0..TickMod-1]
        /\ rollover \in [Alarms -> BOOLEAN] /\ remaining \in [Alarms -> Int]
    BY <2>1 DEF AlarmsInit
  <2> QED
    BY <2>2, <2>3 DEF AlarmTypes, AlarmsTypeOK
<1>2. Ring(0, f)
  <2>1. /\ 0..0+1 = 0..1 /\ 0 \in 0..1 /\ 1 \in 0..1 /\ 1..0 = {} /\ 0 + 1 = 1
        /\ \A e \in 0..0 : e = 0 /\ e + 1 = 1
    OBVIOUS
  <2>2. f \in [0..0+1 -> Nodes] /\ f[0] = List /\ f[0 + 1] = List
    BY <2>1 DEF Nodes
  <2>3. \A e \in 0..0 : f[e] = List /\ f[e + 1] = List
    BY <2>1, <2>2
  <2>4. nextOf[List] = List /\ previousOf[List] = List /\ registered = {}
    BY DEF AlarmsInit, Nodes
  <2>5. \A e, j \in 0..0 : f[e] = f[j] => e = j
    BY <2>1
  <2>6. registered = {f[e] : e \in 1..0}
    BY <2>1, <2>4
  <2> HIDE DEF f
  <2> QED
    BY <2>2, <2>3, <2>4, <2>5, <2>6 DEF Ring
<1>3. Loose
  BY DEF Loose, AlarmsInit, Nodes
<1>4. Standing(0, f, 1)
  <2>1. Cursor = List /\ f[1] = List /\ 1 \in 1..0+1 /\ 1..1-1 = {} /\ 1..0 = {}
    BY DEF Cursor, AlarmsInit
  <2> HIDE DEF f
  <2> QED
    BY <1>2, <2>1 DEF Standing
<1>5. CallbackInv
  BY DEF CallbackInv, InCallback, AlarmsInit
<1>6. (\E n, g : Ring(n, g)) /\ (\E n, g, p : Standing(n, g, p))
  <2> HIDE DEF f
  <2> QED
    BY <1>2, <1>4
<1> QED
  BY <1>1, <1>3, <1>5, <1>6 DEF AlarmsInv, RingInv

LEMMA AlarmsStutters == AlarmsInv /\ UNCHANGED alarmVars => AlarmsInv'
<1> SUFFICES ASSUME AlarmsInv, UNCHANGED alarmVars
             PROVE  AlarmsInv'
  OBVIOUS
<1>1. /\ _alt_nticks' = _alt_nticks /\ nextOf' = nextOf /\ previousOf' = previousOf
      /\ time' = time /\ rollover' = rollover /\ at' = at /\ alarm' = alarm
      /\ next' = next /\ remaining' = remaining /\ registered' = registered
      /\ strayed' = strayed
  BY DEF alarmVars, links, due
<1>2. AlarmTypes' /\ CallbackInv' = CallbackInv
  BY <1>1 DEF AlarmsInv, AlarmTypes, AlarmsTypeOK, CallbackInv, InCallback
<1>3. RingInv' /\ \A n, f : Ring(n, f) => Ring(n, f)'
  BY <1>1, SameRing DEF AlarmsInv, links
<1>4. \A a : (Served(a) => Served(a)') /\ (Unserved(a) => Unserved(a)')
  BY <1>1 DEF Served, Unserved, StillWaiting, Wrap
<1>5. Cursor' = Cursor /\ (InCallback' <=> InCallback)
  BY <1>1 DEF Cursor, InCallback
<1>6. ASSUME NEW n, NEW f, NEW p, Standing(n, f, p)
      PROVE  Standing(n, f, p)'
  BY <1>1, <1>3, <1>4, <1>5, <1>6 DEF Standing
<1> QED
  BY <1>1, <1>2, <1>3, <1>6 DEF AlarmsInv

\* Between any two steps, of the program, of alt_tick and of the callbacks, the
\* list is a ring of the registered alarms through its head; and as long as no
\* callback has stopped the alarm alt_tick was to look at next, those behind
\* alt_tick have been served in this tick and those before it not yet, with due
\* times and flags to match.
THEOREM AlarmsInvariant == AlarmsSpec => []AlarmsInv
<1>1. AlarmsInit => AlarmsInv
  BY AlarmsStart
<1>2. AlarmsInv /\ [AlarmsNext]_alarmVars => AlarmsInv'
  <2> SUFFICES ASSUME AlarmsInv, [AlarmsNext]_alarmVars
               PROVE  AlarmsInv'
    OBVIOUS
  <2>1. CASE alt_alarm_start
    BY <2>1, StartKeeps
  <2>2. CASE alt_alarm_stop
    BY <2>2, StopKeeps
  <2>3. CASE Tick
    BY <2>3, TickKeeps
  <2>4. CASE Pass
    BY <2>4, PassKeeps
  <2>5. CASE Call
    BY <2>5, CallKeeps
  <2>6. CASE CallbackActs
    BY <2>6, CallbackActsKeeps
  <2>7. CASE CallbackEnds
    BY <2>7, CallbackEndsKeeps
  <2>8. CASE CallbackRepeats
    BY <2>8, CallbackRepeatsKeeps
  <2>9. CASE UNCHANGED alarmVars
    BY <2>9, AlarmsStutters
  <2> QED
    BY <2>1, <2>2, <2>3, <2>4, <2>5, <2>6, <2>7, <2>8, <2>9 DEF AlarmsNext, Ticking
<1> QED
  BY <1>1, <1>2, PTL DEF AlarmsSpec

-----------------------------------------------------------------------------
(* What follows from it. *)

LEMMA InvOnTime == AlarmsInv => OnTime
<1> SUFFICES ASSUME AlarmsInv, ~strayed
             PROVE  /\ at = "called" => alarm \in registered /\ remaining[alarm] = 0
                    /\ at = "idle" => \A a \in registered : remaining[a] > 0
  BY DEF OnTime
<1>1. AlarmTypes /\ CallbackInv
  BY DEF AlarmsInv
<1>2. PICK n, f, p : Standing(n, f, p)
  BY DEF AlarmsInv
<1>3. at = "called" => alarm \in registered /\ remaining[alarm] = 0
  BY <1>1 DEF CallbackInv, InCallback
<1>4. ASSUME at = "idle", NEW a \in registered
      PROVE  remaining[a] > 0
  <2>1. /\ Ring(n, f) /\ p \in 1..n+1 /\ f[p] = List
        /\ \A e \in 1..p-1 : Served(f[e])
    BY <1>2, <1>4 DEF Standing, Cursor, InCallback
  <2>2. n \in Nat /\ p = n + 1
    BY <1>1, <2>1, RingFacts
  <2>3. PICK e \in 1..n : f[e] = a
    BY <1>1, <2>1, RingFacts
  <2>4. e \in 1..p-1
    BY <2>2, <2>3
  <2>5. remaining[a] \in 1..TickMod-1 /\ TickMod \in Nat
    BY <2>1, <2>3, <2>4, AlarmsAssumption DEF Served
  <2> QED
    BY <2>5
<1> QED
  BY <1>3, <1>4

\* Going round in steps.
LEMMA RoundIs ==
  ASSUME NEW m \in Nat, m > 0, NEW q \in Int, NEW r \in 0..m-1
  PROVE  (m * q + r) % m = r
OBVIOUS

LEMMA NextRound ==
  ASSUME NEW m \in Nat, m > 0, NEW k \in Nat
  PROVE  /\ k % m \in 0..m-1
         /\ k % m # m - 1 => (k + 1) % m = (k % m) + 1
         /\ k % m = m - 1 => (k + 1) % m = 0
<1> DEFINE q == k \div m
           r == k % m
<1>1. r \in 0..m-1 /\ q \in Int /\ k = m * q + r
  OBVIOUS
<1> HIDE DEF q, r
<1>2. CASE r # m - 1
  <2>1. r + 1 \in 0..m-1 /\ k + 1 = m * q + (r + 1)
    BY <1>1, <1>2
  <2>2. (k + 1) % m = r + 1
    BY <1>1, <2>1, RoundIs
  <2> QED
    BY <1>1, <1>2, <2>2 DEF r
<1>3. CASE r = m - 1
  <2>1. 0 \in 0..m-1 /\ q + 1 \in Int /\ k + 1 = m * (q + 1) + 0
    BY <1>1, <1>3
  <2>2. (k + 1) % m = 0
    BY <1>1, <2>1, RoundIs
  <2> QED
    BY <1>1, <1>3, <2>2 DEF r
<1> QED
  BY <1>2, <1>3

Below == {p \in Nat \X Nat : p[1] < p[2]}

LEMMA Lowest ==
  ASSUME NEW S \in SUBSET Nat, S # {}
  PROVE  \E m \in S : \A n \in S : m <= n
<1>1. IsWellFoundedOn(Below, Nat)
  <2>1. Below = OpToRel(<, Nat)
    BY DEF OpToRel, Below
  <2> QED
    BY <2>1, NatLessThanWellFounded
<1>2. PICK m \in S : \A n \in S : <<n, m>> \notin Below
  BY <1>1, WFMin, Zenon
<1>3. ASSUME NEW n \in S
      PROVE  m <= n
  <2>1. <<n, m>> \notin Below /\ n \in Nat /\ m \in Nat
    BY <1>2
  <2>2. ~(n < m)
    BY <2>1 DEF Below
  <2> QED
    BY <2>1, <2>2
<1> QED
  BY <1>2, <1>3

\* The walk along the list that ListWhole takes.
Walk == CHOOSE g : g = [k \in 0..Cardinality(Alarms) |->
                          IF k = 0 THEN List ELSE nextOf[g[k - 1]]]

\* There are no more alarms in the ring than there are.
LEMMA RingFits ==
  ASSUME AlarmTypes, NEW n, NEW f, Ring(n, f)
  PROVE  Cardinality(Alarms) \in Nat /\ n <= Cardinality(Alarms)
<1>1. IsFiniteSet(Alarms)
  BY AlarmsAssumption
<1>2. Cardinality(Alarms) \in Nat
  BY <1>1, FS_CardinalityType
<1>3. n \in Nat /\ \A e, j \in 0..n : f[e] = f[j] => e = j
  BY DEF Ring
<1>4. IsFiniteSet(1..n) /\ Cardinality(1..n) = n
  <2>1. /\ IsFiniteSet(1..n)
        /\ Cardinality(1..n) = IF 1 > n THEN 0 ELSE n - 1 + 1
    BY <1>3, FS_Interval
  <2> QED
    BY <1>3, <2>1
<1> DEFINE h == [e \in 1..n |-> f[e]]
<1>5. h \in [1..n -> Alarms]
  BY RingFacts
<1>6. ASSUME Cardinality(Alarms) < n
      PROVE  FALSE
  <2> DEFINE S == 1..n
  <2>1. \E e \in S, j \in S : e # j /\ h[e] = h[j]
    <3>1. IsFiniteSet(S) /\ Cardinality(Alarms) < Cardinality(S) /\ h \in [S -> Alarms]
      BY <1>4, <1>5, <1>6
    <3> HIDE DEF S, h
    <3> QED
      BY <1>1, <3>1, FS_PigeonHole, Zenon
  <2>2. PICK e \in 1..n, j \in 1..n : e # j /\ h[e] = h[j]
    BY <2>1
  <2>3. f[e] = f[j] /\ e \in 0..n /\ j \in 0..n
    BY <1>3, <2>2
  <2> QED
    BY <1>3, <2>2, <2>3
<1> QED
  BY <1>2, <1>3, <1>6

LEMMA WalkGoesRound ==
  ASSUME AlarmTypes, NEW n, NEW f, Ring(n, f)
  PROVE  /\ DOMAIN Walk = 0..Cardinality(Alarms)
         /\ \A k \in 0..Cardinality(Alarms) : Walk[k] = f[k % (n + 1)]
<1> DEFINE C == Cardinality(Alarms)
           h == [k \in 0..C |-> f[k % (n + 1)]]
<1>1. /\ C \in Nat /\ n \in Nat /\ n + 1 \in Nat /\ n + 1 > 0 /\ (n + 1) - 1 = n
      /\ f[0] = List /\ f[n + 1] = List
      /\ \A e \in 0..n : nextOf[f[e]] = f[e + 1]
  <2>1. /\ n \in Nat /\ f[0] = List /\ f[n + 1] = List
        /\ \A e \in 0..n : nextOf[f[e]] = f[e + 1]
    BY DEF Ring
  <2>2. C \in Nat
    BY RingFits
  <2> QED
    BY <2>1, <2>2
<1> HIDE DEF C
<1>2. ASSUME NEW k \in 1..C
      PROVE  /\ k - 1 \in 0..C
             /\ nextOf[f[(k - 1) % (n + 1)]] = f[k % (n + 1)]
  <2>1. k - 1 \in Nat /\ (k - 1) + 1 = k /\ k - 1 \in 0..C
    BY <1>1
  <2>2. /\ (k - 1) % (n + 1) \in 0..n
        /\ (k - 1) % (n + 1) # n => k % (n + 1) = ((k - 1) % (n + 1)) + 1
        /\ (k - 1) % (n + 1) = n => k % (n + 1) = 0
    <3>1. /\ (k - 1) % (n + 1) \in 0..(n+1)-1
          /\ (k - 1) % (n + 1) # (n + 1) - 1 =>
               ((k - 1) + 1) % (n + 1) = ((k - 1) % (n + 1)) + 1
          /\ (k - 1) % (n + 1) = (n + 1) - 1 => ((k - 1) + 1) % (n + 1) = 0
      BY <1>1, <2>1, NextRound
    <3> QED
      BY <1>1, <2>1, <3>1
  <2> DEFINE r == (k - 1) % (n + 1)
             s == k % (n + 1)
  <2> HIDE DEF r, s
  <2>3. r \in 0..n /\ (r # n => s = r + 1) /\ (r = n => s = 0)
    BY <2>2 DEF r, s
  <2>4. nextOf[f[r]] = f[s]
    BY <1>1, <2>3
  <2> QED
    BY <2>1, <2>4 DEF r, s
<1>3. 0 % (n + 1) = 0
  BY <1>1
<1>4. \A k \in 0..C : k = 0 \/ k \in 1..C
  BY <1>1
<1>5. h = [k \in 0..C |-> IF k = 0 THEN List ELSE nextOf[h[k - 1]]]
  <2>1. ASSUME NEW k \in 0..C
        PROVE  h[k] = IF k = 0 THEN List ELSE nextOf[h[k - 1]]
    <3>1. CASE k = 0
      BY <1>1, <1>3, <3>1
    <3>2. CASE k \in 1..C
      <4>1. h[k - 1] = f[(k - 1) % (n + 1)] /\ h[k] = f[k % (n + 1)] /\ k # 0
        BY <1>1, <1>2, <3>2
      <4> QED
        BY <1>2, <3>2, <4>1
    <3> QED
      BY <1>4, <3>1, <3>2
  <2> QED
    BY <2>1
<1>6. Walk = [k \in 0..C |-> IF k = 0 THEN List ELSE nextOf[Walk[k - 1]]]
  <2>1. Walk = CHOOSE g : g = [k \in 0..C |-> IF k = 0 THEN List ELSE nextOf[g[k - 1]]]
    BY DEF Walk, C
  <2> HIDE DEF h
  <2>2. \E g : g = [k \in 0..C |-> IF k = 0 THEN List ELSE nextOf[g[k - 1]]]
    BY <1>5
  <2> QED
    BY <2>1, <2>2, Zenon
<1>7. DOMAIN Walk = 0..C
  BY <1>6
<1>8. ASSUME NEW j \in 0..C, Walk[j] # f[j % (n + 1)]
      PROVE  FALSE
  <2> DEFINE S == {k \in 0..C : Walk[k] # f[k % (n + 1)]}
  <2>1. S \in SUBSET Nat /\ S # {}
    BY <1>1, <1>8
  <2>2. PICK m \in S : \A k \in S : m <= k
    BY <2>1, Lowest
  <2>3. m \in 0..C /\ Walk[m] # f[m % (n + 1)] /\ \A k \in 0..m-1 : k \notin S
    BY <1>1, <2>2
  <2>4. CASE m = 0
    <3>1. Walk[0] = List
      BY <1>1, <1>4, <1>6, <2>3, <2>4
    <3> QED
      BY <1>1, <1>3, <2>3, <2>4, <3>1
  <2>5. CASE m \in 1..C
    <3>1. m - 1 \in 0..C /\ m - 1 \in 0..m-1 /\ m # 0
      BY <1>1, <2>5
    <3>2. Walk[m - 1] = f[(m - 1) % (n + 1)]
      BY <2>3, <3>1
    <3>3. Walk[m] = nextOf[Walk[m - 1]]
      BY <1>6, <2>3, <3>1
    <3> QED
      BY <1>2, <2>3, <2>5, <3>2, <3>3
  <2> QED
    BY <1>4, <2>3, <2>4, <2>5
<1> QED
  BY <1>7, <1>8 DEF C

LEMMA InvListWhole == AlarmsInv => ListWhole
<1> SUFFICES ASSUME AlarmsInv
             PROVE  ListWhole
  OBVIOUS
<1>1. AlarmTypes /\ RingInv
  BY DEF AlarmsInv
<1>2. PICK n, f : Ring(n, f)
  BY <1>1 DEF RingInv
<1>3. /\ n \in Nat /\ f[0] = List /\ f[n + 1] = List
      /\ registered = {f[e] : e \in 1..n}
      /\ \A e \in 0..n : nextOf[f[e]] = f[e + 1] /\ previousOf[f[e + 1]] = f[e]
  BY <1>2 DEF Ring
<1> DEFINE C == Cardinality(Alarms)
<1>4. C \in Nat /\ n <= C /\ n + 1 \in Nat /\ n + 1 > 0
  BY <1>1, <1>2, <1>3, RingFits
<1>5. DOMAIN Walk = 0..C /\ \A k \in 0..C : Walk[k] = f[k % (n + 1)]
  BY <1>1, <1>2, WalkGoesRound
<1> HIDE DEF C
<1>6. ASSUME NEW k \in 0..C
      PROVE  Walk[k] \in registered \cup {List}
  <2>1. k % (n + 1) \in 0..n
    <3>1. k \in Nat /\ (n + 1) - 1 = n
      BY <1>3, <1>4
    <3>2. k % (n + 1) \in 0..(n+1)-1
      BY <1>4, <3>1, NextRound
    <3> QED
      BY <3>1, <3>2
  <2> DEFINE r == k % (n + 1)
  <2> HIDE DEF r
  <2>2. r \in 0..n /\ (r = 0 \/ r \in 1..n)
    BY <1>3, <2>1 DEF r
  <2>3. f[r] \in registered \cup {List}
    BY <1>3, <2>2
  <2> QED
    BY <1>5, <2>3 DEF r
<1>7. ASSUME NEW a \in registered \cup {List}
      PROVE  \E e \in 0..n : f[e] = a
  BY <1>3
<1>8. ASSUME NEW e \in 0..n
      PROVE  e \in 0..C /\ Walk[e] = f[e]
  <2>1. e \in 0..C /\ e \in 0..(n+1)-1
    BY <1>3, <1>4
  <2>2. e % (n + 1) = e
    <3>1. ((n + 1) * 0 + e) % (n + 1) = e
      BY <1>4, <2>1, RoundIs
    <3>2. (n + 1) * 0 + e = e
      BY <1>4, <2>1
    <3> QED
      BY <3>1, <3>2
  <2> QED
    BY <1>5, <2>1, <2>2
<1>9. {Walk[k] : k \in DOMAIN Walk} = registered \cup {List}
  BY <1>5, <1>6, <1>7, <1>8
<1>10. \A a \in registered \cup {List} : previousOf[nextOf[a]] = a
  BY <1>3, <1>7
<1> QED
  BY <1>9, <1>10 DEF ListWhole, Walk

\* The list is whole and the alarms are on time, between any two steps of the
\* program, alt_tick and the callbacks, for every set of alarms, width of the
\* counter and set of periods.
THEOREM AlarmsAlwaysKept == AlarmsSpec => []AlarmsKept
<1>1. AlarmsInv => AlarmsKept
  BY InvOnTime, InvListWhole DEF AlarmsKept, AlarmsInv, AlarmTypes
<1> QED
  BY <1>1, AlarmsInvariant, PTL

-----------------------------------------------------------------------------
(***************************************************************************)
(* The time of day.                                                        *)
(***************************************************************************)

\* Microseconds of a tick.
PerTick == ALT_US \div tick_rate

\* What settimeofday kept is the time it set, less the ticks until then: whole
\* seconds and the rest of one.
TimeInv ==
  /\ nticks \in 0..LastTick
  /\ set.tick \in 0..nticks
  /\ set.time.tv_sec \in Nat /\ set.time.tv_usec \in 0..ALT_US-1
  /\ tick_rate > 0 /\ EarlySet =>
       alt_resettime = Time(set.time.tv_sec - set.tick \div tick_rate,
                            set.time.tv_usec - ((set.tick * PerTick) % ALT_US))

\* Seconds and microseconds of a number of ticks.
LEMMA TicksSplit ==
  ASSUME tick_rate > 0, NEW n \in Nat
  PROVE  /\ n \div tick_rate \in Nat /\ n * PerTick \in Nat
         /\ (n * PerTick) % ALT_US \in 0..ALT_US-1
         /\ n * PerTick = (n \div tick_rate) * ALT_US + ((n * PerTick) % ALT_US)
<1> DEFINE q == n \div tick_rate
           r == n % tick_rate
<1>1. /\ ALT_US \in Nat /\ ALT_US > 0 /\ tick_rate \in Nat /\ ALT_US % tick_rate = 0
  BY TimeOfDayAssumption
<1>2. PerTick \in Nat /\ ALT_US = tick_rate * PerTick
  BY <1>1 DEF PerTick
<1>3. q \in Nat /\ r \in 0..tick_rate-1 /\ n = tick_rate * q + r
  BY <1>1
<1> HIDE DEF q, r
<1>4. r * PerTick \in 0..ALT_US-1
  <2>1. PerTick > 0
    BY <1>1, <1>2
  <2>2. r * PerTick >= 0 /\ (r + 1) * PerTick <= tick_rate * PerTick
    BY <1>1, <1>2, <1>3
  <2>3. (r + 1) * PerTick = r * PerTick + PerTick /\ r * PerTick \in Int
    BY <1>2, <1>3
  <2> QED
    BY <1>1, <1>2, <2>1, <2>2, <2>3
<1>5. n * PerTick = ALT_US * q + r * PerTick
  <2>1. n * PerTick = (tick_rate * q) * PerTick + r * PerTick
    BY <1>1, <1>2, <1>3
  <2>2. (tick_rate * q) * PerTick = (tick_rate * PerTick) * q
    BY <1>1, <1>2, <1>3
  <2> QED
    BY <1>2, <2>1, <2>2
<1>6. (n * PerTick) % ALT_US = r * PerTick
  <2> DEFINE rest == r * PerTick
  <2>1. (ALT_US * q + rest) % ALT_US = rest
    <3>1. rest \in 0..ALT_US-1 /\ q \in Int
      BY <1>3, <1>4
    <3> HIDE DEF rest
    <3> QED
      BY <1>1, <3>1, RoundIs
  <2> QED
    BY <1>5, <2>1
<1>7. n * PerTick \in Nat /\ ALT_US * q = q * ALT_US
  BY <1>1, <1>2, <1>3
<1> QED
  BY <1>3, <1>4, <1>5, <1>6, <1>7 DEF q

LEMMA TimeStart == TimeInit => TimeInv
<1> SUFFICES ASSUME TimeInit
             PROVE  TimeInv
  OBVIOUS
<1>1. /\ ALT_US \in Nat /\ ALT_US > 0 /\ LastTick \in Nat
      /\ nticks = 0 /\ alt_resettime = Time(0, 0)
      /\ set.tick = 0 /\ set.time.tv_sec = 0 /\ set.time.tv_usec = 0
  BY TimeOfDayAssumption DEF TimeInit, Time
<1>2. ASSUME tick_rate > 0
      PROVE  0 \div tick_rate = 0 /\ (0 * PerTick) % ALT_US = 0
  <2>1. tick_rate \in Nat /\ PerTick \in Int
    BY <1>2, TimeOfDayAssumption DEF PerTick
  <2>2. 0 * PerTick = 0
    BY <2>1
  <2> QED
    BY <1>1, <1>2, <2>1, <2>2
<1>3. 0 - 0 = 0 /\ 0 \in 0..LastTick /\ 0 \in 0..0 /\ 0 \in 0..ALT_US-1
  BY <1>1
<1> QED
  BY <1>1, <1>2, <1>3 DEF TimeInv

LEMMA TimeStep == TimeInv /\ [TimeNext]_timeVars => TimeInv'
<1> SUFFICES ASSUME TimeInv, [TimeNext]_timeVars
             PROVE  TimeInv'
  OBVIOUS
<1>1. CASE ALT_SETTIMEOFDAY
  <2>1. PICK t \in TimesOfDay :
          /\ alt_resettime' = Time(t.tv_sec - nticks \div tick_rate,
                                   t.tv_usec - ToSubtract)
          /\ set' = [time |-> t, tick |-> nticks]
          /\ nticks' = nticks /\ tick_rate > 0
    BY <1>1 DEF ALT_SETTIMEOFDAY
  <2>2. /\ nticks \in 0..LastTick /\ LastTick \in Nat /\ WordMod \in Nat
        /\ set'.tick = nticks /\ set'.time = t
        /\ t.tv_sec \in Nat /\ t.tv_usec \in 0..ALT_US-1
    BY <2>1, TimeOfDayAssumption DEF TimeInv
  <2>3. ASSUME EarlySet'
        PROVE  ToSubtract = (nticks * PerTick) % ALT_US
    <3>1. nticks * PerTick < WordMod /\ nticks * PerTick \in Nat
      BY <2>1, <2>2, <2>3, TicksSplit DEF EarlySet, PerTick
    <3>2. (nticks * PerTick) % WordMod = nticks * PerTick
      BY <2>2, <3>1
    <3> QED
      BY <3>2 DEF ToSubtract, PerTick
  <2>4. nticks \in 0..nticks
    BY <2>2
  <2> QED
    BY <2>1, <2>2, <2>3, <2>4 DEF TimeInv, PerTick
<1>2. CASE alt_tick
  <2>1. /\ nticks' = nticks + 1 /\ nticks < LastTick
        /\ alt_resettime' = alt_resettime /\ set' = set
    BY <1>2 DEF alt_tick
  <2>2. nticks' \in 0..LastTick /\ set'.tick \in 0..nticks'
    BY <2>1, TimeOfDayAssumption DEF TimeInv
  <2> QED
    BY <2>1, <2>2 DEF TimeInv, EarlySet, PerTick
<1>3. CASE UNCHANGED timeVars
  BY <1>3 DEF timeVars, TimeInv, EarlySet, PerTick
<1> QED
  BY <1>1, <1>2, <1>3 DEF TimeNext

\* No more whole seconds, no more microseconds of the next.
LEMMA TicksOrdered ==
  ASSUME NEW M \in Nat, M > 0, NEW p \in Nat, NEW q \in Nat,
         NEW e \in 0..M-1, NEW j \in 0..M-1, p * M + e <= q * M + j
  PROVE  p <= q /\ (p = q => e <= j)
<1>1. ASSUME q + 1 <= p
      PROVE  FALSE
  <2>1. (q + 1) * M <= p * M
    BY <1>1
  <2>2. (q + 1) * M = q * M + M /\ q * M \in Int /\ p * M \in Int
    OBVIOUS
  <2> QED
    BY <2>1, <2>2
<1>2. p = q => e <= j
  <2>1. p * M \in Int /\ q * M \in Int
    OBVIOUS
  <2> QED
    BY <2>1
<1> QED
  BY <1>1, <1>2

LEMMA InvTimeIsKept == TimeInv => TimeIsKept
<1> SUFFICES ASSUME TimeInv, tick_rate > 0, EarlySet
             PROVE  /\ ALT_GETTIMEOFDAY.tv_usec \in 0..ALT_US-1
                    /\ Micros(ALT_GETTIMEOFDAY) =
                         Micros(set.time) + (nticks - set.tick) * (ALT_US \div tick_rate)
  BY DEF TimeIsKept
<1> DEFINE U == ALT_US
           P == PerTick
           n == nticks
           t == set.tick
           p == t \div tick_rate
           q == n \div tick_rate
           e == (t * P) % U
           j == (n * P) % U
           s == set.time.tv_sec
           u == set.time.tv_usec
           sec == (s - p) + q
           usec == (u - e) + j
<1>1. /\ U \in Nat /\ U > 0 /\ tick_rate \in Nat
      /\ n \in Nat /\ t \in Nat /\ t <= n /\ s \in Nat /\ u \in 0..U-1
      /\ alt_resettime = Time(s - p, u - e)
  BY TimeOfDayAssumption DEF TimeInv
<1>2. P \in Nat
  BY <1>1, TimeOfDayAssumption DEF PerTick
<1>3. /\ p \in Nat /\ q \in Nat /\ e \in 0..U-1 /\ j \in 0..U-1
      /\ t * P = p * U + e /\ n * P = q * U + j
  BY <1>1, TicksSplit
<1>4. ALT_GETTIMEOFDAY = Carried(Time(sec, usec))
  BY <1>1 DEF ALT_GETTIMEOFDAY, ToAdd, Time, PerTick
<1>5. set.time.tv_sec * ALT_US + set.time.tv_usec = s * U + u
  OBVIOUS
<1>6. ALT_US \div tick_rate = P
  BY DEF PerTick
<1> HIDE DEF U, P, n, t, p, q, e, j, s, u
<1>7. t * P <= n * P
  BY <1>1, <1>2
<1>8. p <= q /\ (p = q => e <= j)
  BY <1>1, <1>3, <1>7, TicksOrdered
<1>9. sec \in Nat /\ usec \in Int /\ usec > -U /\ usec < U + U /\ (usec < 0 => sec > 0)
  BY <1>1, <1>3, <1>8
<1>10. sec * U + usec = (s * U + u) + (n - t) * P
  <2>1. sec * U = (s * U - p * U) + q * U /\ (n - t) * P = n * P - t * P
    BY <1>1, <1>2, <1>3
  <2>2. /\ s * U \in Int /\ p * U \in Int /\ q * U \in Int /\ sec * U \in Int
        /\ n * P \in Int /\ t * P \in Int
    BY <1>1, <1>2, <1>3
  <2> DEFINE sU == s * U
             pU == p * U
             qU == q * U
             cU == sec * U
             nP == n * P
             tP == t * P
  <2>3. /\ cU = (sU - pU) + qU /\ (n - t) * P = nP - tP
        /\ tP = pU + e /\ nP = qU + j
        /\ sU \in Int /\ pU \in Int /\ qU \in Int /\ cU \in Int /\ nP \in Int /\ tP \in Int
    BY <1>3, <2>1, <2>2
  <2>4. e \in Int /\ j \in Int /\ u \in Int
    BY <1>1, <1>3
  <2> HIDE DEF sU, pU, qU, cU, nP, tP
  <2>5. cU + usec = (sU + u) + (nP - tP)
    BY <2>3, <2>4
  <2> QED
    BY <2>3, <2>5 DEF cU, sU
<1> DEFINE g == ALT_GETTIMEOFDAY
<1>11. /\ usec < 0 => g.tv_sec = sec - 1 /\ g.tv_usec = usec + U
       /\ usec >= U => g.tv_sec = sec + 1 /\ g.tv_usec = usec - U
       /\ usec >= 0 /\ usec < U => g.tv_sec = sec /\ g.tv_usec = usec
  <2> HIDE DEF sec, usec
  <2>1. /\ Time(sec, usec).tv_sec = sec /\ Time(sec, usec).tv_usec = usec
        /\ \A v, w : Time(v, w).tv_sec = v /\ Time(v, w).tv_usec = w
    BY DEF Time
  <2>2. CASE usec < 0
    <3>1. g = Time(sec - 1, usec + U)
      BY <1>4, <1>9, <2>1, <2>2 DEF Carried, U
    <3>2. ~(usec >= U) /\ ~(usec >= 0)
      BY <1>1, <1>9, <2>2
    <3> QED
      BY <2>1, <3>1, <3>2
  <2>3. CASE usec >= U
    <3>1. ~(usec < 0) /\ ~(usec < U)
      BY <1>1, <1>9, <2>3
    <3>2. g = Time(sec + 1, usec - U)
      BY <1>4, <1>9, <2>1, <2>3, <3>1 DEF Carried, U
    <3> QED
      BY <2>1, <3>1, <3>2
  <2>4. CASE usec >= 0 /\ usec < U
    <3>1. ~(usec < 0) /\ ~(usec >= U)
      BY <1>1, <1>9, <2>4
    <3>2. g = Time(sec, usec)
      BY <1>4, <1>9, <2>1, <2>4, <3>1 DEF Carried, U
    <3> QED
      BY <2>1, <3>1, <3>2
  <2> QED
    BY <1>1, <1>9, <2>2, <2>3, <2>4
<1> HIDE DEF g, sec, usec
<1>12. g.tv_usec \in 0..U-1 /\ g.tv_sec * U + g.tv_usec = sec * U + usec
  <2>1. /\ sec * U \in Int /\ (sec - 1) * U = sec * U - U
        /\ (sec + 1) * U = sec * U + U
    BY <1>1, <1>9
  <2>2. CASE usec < 0
    BY <1>1, <1>9, <1>11, <2>1, <2>2
  <2>3. CASE usec >= U
    BY <1>1, <1>9, <1>11, <2>1, <2>3
  <2>4. CASE usec >= 0 /\ usec < U
    BY <1>1, <1>9, <1>11, <2>1, <2>4
  <2> QED
    BY <1>1, <1>9, <2>2, <2>3, <2>4
<1>13. Micros(g) = Micros(set.time) + (n - t) * P
  BY <1>5, <1>10, <1>12 DEF Micros, U
<1> QED
  BY <1>6, <1>12, <1>13 DEF g, U, n, t

\* Whatever is set when and however often, the time of day is the one that was
\* set last and the ticks since then, for every rate that divides a second, as
\* long as the ticks until then fit a word of microseconds.
THEOREM TimeAlwaysKept == TimeSpec => []TimeIsKept
<1> QED
  BY TimeStart, TimeStep, InvTimeIsKept, PTL DEF TimeSpec

-----------------------------------------------------------------------------
(***************************************************************************)
(* Sleeping.                                                               *)
(***************************************************************************)

\* After a number of big loops: the first of INT_MAX turns, each of the others
\* of those or of a word's more two.
BigTurns(done, turns) ==
  /\ done = 0 => turns = 0
  /\ done > 0 => /\ turns >= done * INT_MAX
                 /\ turns <= done * INT_MAX + (done - 1) * (INT_MAX + 2)

\* What the small loop counts in the end, and what all of them do together.
AllTurns(asked, turns) ==
  LET big == asked \div BigLoop
  IN  /\ turns >= asked * LoopsPerMicrosecond
      /\ big = 0 => turns <= asked * LoopsPerMicrosecond + 1
      /\ big > 0 => turns <= asked * LoopsPerMicrosecond
                             + big * (LoopsPerMicrosecond - 1)
                             + (IF asked % BigLoop = 0 THEN big ELSE big - 1)
                               * (2 * (INT_MAX + 1))

SleepInv ==
  LET big == sleep.asked \div BigLoop
  IN  /\ sleep.at \in {"awake", "big", "small", "done"}
      /\ sleep.asked \in Nat /\ sleep.turns \in Nat
      /\ sleep.at = "big" =>
           /\ big > 0 /\ sleep.big_loops \in 0..big
           /\ sleep.us = sleep.asked - (big - sleep.big_loops) * BigLoop
           /\ BigTurns(big - sleep.big_loops, sleep.turns)
      /\ sleep.at = "small" => big = 0 /\ sleep.us = sleep.asked
      /\ sleep.at = "done" => AllTurns(sleep.asked, sleep.turns)

LEMMA SleepConstants ==
  /\ INT_MAX \in Nat /\ INT_MAX > 0
  /\ LoopsPerMicrosecond \in Nat /\ LoopsPerMicrosecond > 0
  /\ BigLoop \in Nat /\ BigLoop > 0
  /\ BigLoop * LoopsPerMicrosecond <= INT_MAX
  /\ INT_MAX <= BigLoop * LoopsPerMicrosecond + (LoopsPerMicrosecond - 1)
<1> DEFINE L == LoopsPerMicrosecond
           B == BigLoop
           r == INT_MAX % L
<1>1. INT_MAX \in Nat /\ INT_MAX > 0 /\ L \in 1..INT_MAX
  BY SleepAssumption DEF LoopsPerMicrosecond
<1>2. B = INT_MAX \div L
  BY DEF BigLoop
<1> HIDE DEF L, B
<1>3. /\ B \in Nat /\ r \in 0..L-1 /\ INT_MAX = L * B + r
  BY <1>1, <1>2
<1> HIDE DEF r
<1>4. L * B = B * L /\ B * L \in Int
  BY <1>1, <1>3
<1>5. B > 0
  <2>1. ASSUME B = 0
        PROVE  FALSE
    <3>1. L * B = 0
      BY <1>1, <2>1
    <3> QED
      BY <1>1, <1>3, <3>1
  <2> QED
    BY <1>3, <2>1
<1>6. B * L <= INT_MAX /\ INT_MAX <= B * L + (L - 1)
  BY <1>1, <1>3, <1>4
<1> QED
  BY <1>1, <1>3, <1>5, <1>6 DEF L, B

\* A time is so many big loops and a rest.
LEMMA AskedSplit ==
  ASSUME NEW asked \in Nat
  PROVE  /\ asked \div BigLoop \in Nat /\ asked % BigLoop \in 0..BigLoop-1
         /\ asked = (asked \div BigLoop) * BigLoop + (asked % BigLoop)
<1> DEFINE q == asked \div BigLoop
           r == asked % BigLoop
<1>1. q \in Nat /\ r \in 0..BigLoop-1 /\ asked = BigLoop * q + r
  BY SleepConstants
<1>2. BigLoop * q = q * BigLoop
  BY <1>1, SleepConstants
<1> QED
  BY <1>1, <1>2

\* One more big loop.
LEMMA AnotherBigLoop ==
  ASSUME NEW done \in Nat, NEW turns \in Nat, BigTurns(done, turns),
         NEW counter \in {INT_MAX, IF turns = 0 THEN INT_MAX ELSE 0}
  PROVE  BigTurns(done + 1, turns + Turns(counter)) /\ Turns(counter) \in Nat
<1> DEFINE M == INT_MAX
           c == Turns(counter)
<1>1. M \in Nat /\ M > 0
  BY SleepConstants
<1>2. (c = M \/ c = 2 * (M + 1)) /\ (turns = 0 => c = M)
  BY <1>1 DEF Turns
<1> HIDE DEF M, c
<1>3. c \in Nat /\ c >= M /\ c <= M + (M + 2)
  BY <1>1, <1>2
<1>4. /\ (done + 1) * M = done * M + M /\ (done + 1) - 1 = done
      /\ done * M \in Int /\ done * (M + 2) \in Int
      /\ done * (M + 2) = (done - 1) * (M + 2) + (M + 2)
  BY <1>1
<1>5. CASE done = 0
  <2>1. turns = 0 /\ c = M
    BY <1>2, <1>5 DEF BigTurns
  <2>2. 0 * M = 0 /\ 0 * (M + 2) = 0
    BY <1>1
  <2>3. turns + c >= (done + 1) * M /\ turns + c <= (done + 1) * M + done * (M + 2)
    BY <1>1, <1>4, <1>5, <2>1, <2>2
  <2> QED
    BY <1>3, <1>4, <2>3 DEF BigTurns, M, c
<1>6. CASE done > 0
  <2>1. turns >= done * M /\ turns <= done * M + (done - 1) * (M + 2)
    BY <1>6 DEF BigTurns, M
  <2> DEFINE d == done * M
             e == (done - 1) * (M + 2)
  <2>2. d \in Int /\ e \in Int /\ turns >= d /\ turns <= d + e
    <3>1. (done - 1) * (M + 2) \in Int
      BY <1>1
    <3> QED
      BY <1>4, <2>1, <3>1
  <2>3. (done + 1) * M = d + M /\ done * (M + 2) = e + (M + 2)
    BY <1>4
  <2> HIDE DEF d, e
  <2>4. turns + c >= d + M /\ turns + c <= (d + M) + (e + (M + 2))
    BY <1>1, <1>3, <2>2
  <2>5. /\ turns + c >= (done + 1) * M
        /\ turns + c <= (done + 1) * M + ((done + 1) - 1) * (M + 2)
        /\ done + 1 > 0 /\ done + 1 # 0
    BY <1>4, <2>3, <2>4
  <2> QED
    BY <1>3, <2>5 DEF BigTurns, M, c
<1> QED
  BY <1>5, <1>6

\* The rest after the big loops.
LEMMA RestCounted ==
  ASSUME NEW asked \in Nat, NEW turns \in Nat, asked \div BigLoop > 0,
         BigTurns(asked \div BigLoop, turns)
  PROVE  LET us == asked - (asked \div BigLoop) * BigLoop
             c  == Turns(us * LoopsPerMicrosecond)
         IN  AllTurns(asked, turns + c) /\ c \in Nat
<1> DEFINE M == INT_MAX
           L == LoopsPerMicrosecond
           B == BigLoop
           N == asked \div B
           us == asked - N * B
           c == Turns(us * L)
           small == us * L
<1>1. /\ M \in Nat /\ M > 0 /\ L \in Nat /\ L > 0 /\ B \in Nat /\ B > 0
      /\ B * L <= M /\ M <= B * L + (L - 1)
  BY SleepConstants
<1>2. N \in Nat /\ us = asked % B /\ us \in 0..B-1 /\ asked = N * B + us
  <2>1. N \in Nat /\ asked % B \in 0..B-1 /\ asked = N * B + (asked % B)
    BY AskedSplit
  <2>2. N * B \in Int
    BY <1>1, <2>1
  <2> DEFINE r == asked % B
             NB == N * B
  <2>3. r \in 0..B-1 /\ asked = NB + r /\ NB \in Int /\ us = asked - NB
    BY <2>1, <2>2
  <2> HIDE DEF r, NB
  <2>4. us = r
    BY <1>1, <2>3
  <2> QED
    BY <2>1, <2>3, <2>4 DEF r, NB
<1>3. N > 0 /\ turns >= N * M /\ turns <= N * M + (N - 1) * (M + 2)
  BY DEF BigTurns
<1>4. c = IF small = 0 THEN 2 * (M + 1) ELSE small
  BY DEF Turns
<1> HIDE DEF M, L, B, us, N
<1>5. small \in Nat /\ (small = 0 <=> us = 0)
  BY <1>1, <1>2
<1>6. asked * L = N * (B * L) + small
  <2>1. asked * L = (N * B) * L + us * L
    BY <1>1, <1>2
  <2>2. (N * B) * L = N * (B * L)
    BY <1>1, <1>2
  <2> QED
    BY <2>1, <2>2
<1>7. /\ N * (B * L) <= N * M /\ N * M <= N * (B * L) + N * (L - 1)
  <2> DEFINE BL == B * L
  <2>1. BL \in Int /\ BL <= M /\ M <= BL + (L - 1)
    BY <1>1
  <2> HIDE DEF BL
  <2>2. N * BL <= N * M
    BY <1>1, <1>2, <2>1
  <2>3. N * M <= N * (BL + (L - 1))
    BY <1>1, <1>2, <2>1
  <2>4. N * (BL + (L - 1)) = N * BL + N * (L - 1)
    BY <1>1, <1>2, <2>1
  <2> QED
    BY <2>2, <2>3, <2>4 DEF BL
<1>8. (N - 1) * (M + 2) <= (N - 1) * (2 * (M + 1))
  BY <1>1, <1>2, <1>3
<1>9. N * (2 * (M + 1)) = (N - 1) * (2 * (M + 1)) + 2 * (M + 1)
  BY <1>1, <1>2
<1> DEFINE aL == asked * L
           NBL == N * (B * L)
           NM == N * M
           s == N * (L - 1)
           e == (N - 1) * (M + 2)
           w == (N - 1) * (2 * (M + 1))
           W == 2 * (M + 1)
<1>10. /\ aL \in Int /\ NBL \in Int /\ NM \in Int /\ s \in Int /\ e \in Int
       /\ w \in Int /\ W \in Int /\ W > 0
  <2>1. aL \in Int /\ NM \in Int /\ s \in Int /\ e \in Int /\ w \in Int /\ W \in Int /\ W > 0
    BY <1>1, <1>2
  <2>2. B * L \in Int
    BY <1>1
  <2> QED
    BY <1>2, <2>1, <2>2
<1>11. /\ aL = NBL + small /\ NBL <= NM /\ NM <= NBL + s /\ e <= w
       /\ turns >= NM /\ turns <= NM + e /\ N * W = w + W
       /\ c = IF small = 0 THEN W ELSE small
  BY <1>3, <1>4, <1>6, <1>7, <1>8, <1>9
<1> HIDE DEF aL, NBL, NM, s, e, w, W, small, c
<1>12. c \in Nat
  BY <1>5, <1>10, <1>11
<1>13. turns + c >= aL
  BY <1>5, <1>10, <1>11
<1>14. us = 0 => turns + c <= (aL + s) + (w + W)
  BY <1>5, <1>10, <1>11
<1>15. us # 0 => turns + c <= (aL + s) + w
  BY <1>5, <1>10, <1>11
<1>16. N # 0
  BY <1>2, <1>3
<1>17. turns + c <= (aL + s) + (IF asked % B = 0 THEN N ELSE N - 1) * (2 * (M + 1))
  <2>1. CASE us = 0
    BY <1>2, <1>11, <1>14, <2>1 DEF W
  <2>2. CASE us # 0
    BY <1>2, <1>15, <2>2 DEF w
  <2> QED
    BY <2>1, <2>2
<1>18. AllTurns(asked, turns + c)
  BY <1>13, <1>16, <1>17 DEF AllTurns, aL, s, N, M, L, B
<1> QED
  BY <1>12, <1>18 DEF c, small, us, N, L, B

LEMMA SleepStarts ==
  ASSUME alt_usleep
  PROVE  SleepInv'
<1>1. PICK us \in SleepTimes :
        sleep' = [at |-> IF us \div BigLoop > 0 THEN "big" ELSE "small",
                  asked |-> us, us |-> us, big_loops |-> us \div BigLoop, turns |-> 0]
  BY DEF alt_usleep
<1> DEFINE N == us \div BigLoop
<1>2. us \in Nat /\ N \in Nat
  <2>1. us \in Nat
    BY <1>1, SleepAssumption
  <2> QED
    BY <2>1, AskedSplit
<1>3. /\ sleep'.asked = us /\ sleep'.us = us /\ sleep'.turns = 0 /\ sleep'.big_loops = N
      /\ N > 0 => sleep'.at = "big"
      /\ ~(N > 0) => sleep'.at = "small"
  BY <1>1
<1> HIDE DEF N
<1>4. N - N = 0 /\ us - 0 * BigLoop = us /\ N \in 0..N
  BY <1>2, SleepConstants
<1>5. BigTurns(0, 0)
  BY DEF BigTurns
<1>6. ~(N > 0) => N = 0
  BY <1>2
<1> QED
  BY <1>2, <1>3, <1>4, <1>5, <1>6 DEF SleepInv, N

LEMMA BigLoopCounted ==
  ASSUME SleepInv, CountMost
  PROVE  SleepInv'
<1> DEFINE N == sleep.asked \div BigLoop
           done == N - sleep.big_loops
<1>1. PICK counter \in {INT_MAX, IF sleep.turns = 0 THEN INT_MAX ELSE 0} :
        sleep' = [sleep EXCEPT !.big_loops = @ - 1, !.us = @ - BigLoop,
                               !.turns = @ + Turns(counter)]
  BY DEF CountMost
<1>2. /\ sleep.at = "big" /\ sleep.big_loops > 0
      /\ sleep.asked \in Nat /\ sleep.turns \in Nat
      /\ N > 0 /\ sleep.big_loops \in 0..N
      /\ sleep.us = sleep.asked - done * BigLoop
      /\ BigTurns(done, sleep.turns)
  BY DEF CountMost, SleepInv
<1>3. N \in Nat
  BY <1>2, AskedSplit
<1>4. /\ sleep'.at = "big" /\ sleep'.asked = sleep.asked
      /\ sleep'.big_loops = sleep.big_loops - 1 /\ sleep'.us = sleep.us - BigLoop
      /\ sleep'.turns = sleep.turns + Turns(counter)
  <2>1. DOMAIN sleep' = DOMAIN sleep
    BY <1>1
  <2> QED
    BY <1>1, <1>2
<1> HIDE DEF N
<1>5. done \in Nat /\ done + 1 = N - (sleep.big_loops - 1) /\ sleep.big_loops - 1 \in 0..N
  BY <1>2, <1>3
<1>6. sleep.us - BigLoop = sleep.asked - (done + 1) * BigLoop
  <2>1. (done + 1) * BigLoop = done * BigLoop + BigLoop /\ done * BigLoop \in Int
    BY <1>5, SleepConstants
  <2> QED
    BY <1>2, <1>5, <2>1, SleepConstants
<1>7. BigTurns(done + 1, sleep.turns + Turns(counter)) /\ sleep.turns + Turns(counter) \in Nat
  <2>1. BigTurns(done + 1, sleep.turns + Turns(counter)) /\ Turns(counter) \in Nat
    BY <1>1, <1>2, <1>5, AnotherBigLoop
  <2> QED
    BY <1>2, <2>1
<1> HIDE DEF done
<1> QED
  BY <1>2, <1>4, <1>5, <1>6, <1>7 DEF SleepInv, N

LEMMA SleepStep == SleepInv /\ [SleepNext]_sleep => SleepInv'
<1> SUFFICES ASSUME SleepInv, [SleepNext]_sleep
             PROVE  SleepInv'
  OBVIOUS
<1> DEFINE N == sleep.asked \div BigLoop
<1>1. CASE CountRest
  <2>1. /\ sleep.at = "big" /\ sleep.big_loops = 0
        /\ sleep' = [sleep EXCEPT !.at = "done",
                       !.turns = @ + Turns(sleep.us * LoopsPerMicrosecond)]
    BY <1>1 DEF CountRest
  <2>2. /\ sleep.asked \in Nat /\ sleep.turns \in Nat /\ N > 0
        /\ sleep.us = sleep.asked - (N - 0) * BigLoop /\ BigTurns(N - 0, sleep.turns)
    BY <2>1 DEF SleepInv
  <2>3. N - 0 = N
    BY <2>2, AskedSplit
  <2> DEFINE c == Turns(sleep.us * LoopsPerMicrosecond)
  <2>4. AllTurns(sleep.asked, sleep.turns + c) /\ c \in Nat
    BY <2>2, <2>3, RestCounted
  <2>5. sleep'.at = "done" /\ sleep'.asked = sleep.asked /\ sleep'.turns = sleep.turns + c
    BY <2>1, <2>2
  <2> HIDE DEF c
  <2>6. sleep.turns + c \in Nat
    BY <2>2, <2>4
  <2> QED
    BY <2>2, <2>4, <2>5, <2>6 DEF SleepInv
<1>2. CASE CountSmall
  <2> DEFINE counter == sleep.us * LoopsPerMicrosecond
             c == IF counter = 0 THEN 1 ELSE counter
  <2>1. /\ sleep.at = "small"
        /\ sleep' = [sleep EXCEPT !.at = "done", !.turns = c]
    BY <1>2 DEF CountSmall
  <2>2. sleep.asked \in Nat /\ N = 0 /\ sleep.us = sleep.asked /\ sleep.turns \in Nat
    BY <2>1 DEF SleepInv
  <2>3. sleep'.at = "done" /\ sleep'.asked = sleep.asked /\ sleep'.turns = c
    BY <2>1, <2>2
  <2>4. counter \in Nat /\ counter = sleep.asked * LoopsPerMicrosecond
    BY <2>2, SleepConstants
  <2> HIDE DEF counter
  <2>5. c \in Nat /\ c >= counter /\ c <= counter + 1
    BY <2>4
  <2> HIDE DEF c
  <2>6. AllTurns(sleep.asked, c)
    BY <2>2, <2>4, <2>5 DEF AllTurns
  <2> QED
    BY <2>2, <2>3, <2>5, <2>6 DEF SleepInv
<1>3. CASE WakeUp
  BY <1>3 DEF WakeUp, Awake, SleepInv
<1>4. CASE UNCHANGED sleep
  BY <1>4 DEF SleepInv
<1> QED
  BY <1>1, <1>2, <1>3, <1>4, SleepStarts, BigLoopCounted DEF SleepNext

\* From turns to cycles, and from the time asked for to what it would take.
LEMMA InvSleptEnough == SleepInv => SleptEnough
<1> SUFFICES ASSUME SleepInv, sleep.at = "done"
             PROVE  SleptEnough
  BY DEF SleptEnough
<1> DEFINE k == cycles_per_loop
           C == CyclesPerMicrosecond
           L == LoopsPerMicrosecond
           x == C % k
           asked == sleep.asked
           turns == sleep.turns
           big == asked \div BigLoop
           slack == IF big = 0 THEN 1 ELSE big * (L - 1)
           rounds == IF big = 0 THEN 0
                     ELSE big - (IF asked % BigLoop = 0 THEN 0 ELSE 1)
           more == slack + rounds * 2 * (INT_MAX + 1)
<1>1. /\ k \in Nat /\ k > 0 /\ C \in Nat /\ L = C \div k
      /\ asked \in Nat /\ turns \in Nat /\ AllTurns(asked, turns)
  BY SleepAssumption DEF SleepInv, LoopsPerMicrosecond
<1>2. L \in Nat /\ L > 0 /\ INT_MAX \in Nat /\ big \in Nat /\ asked % BigLoop \in Nat
  <2>1. asked % BigLoop \in 0..BigLoop-1 /\ big \in Nat
    BY <1>1, AskedSplit
  <2> QED
    BY <2>1, SleepConstants
<1> HIDE DEF k, C, L, asked, turns
<1>3. x \in 0..k-1 /\ C = k * L + x
  BY <1>1
<1>4. rounds \in Int /\ slack \in Int
  <2> DEFINE B == BigLoop
  <2>1. big * (L - 1) \in Int
    BY <1>2
  <2> HIDE DEF big
  <2> QED
    BY <1>2, <2>1
<1>5. turns >= asked * L /\ turns <= asked * L + more
  <2>1. CASE big = 0
    <3>1. turns >= asked * L /\ turns <= asked * L + 1
      BY <1>1, <2>1 DEF AllTurns, L
    <3>2. more = 1
      <4>1. 0 * 2 * (INT_MAX + 1) = 0 /\ 1 + 0 = 1
        BY <1>2
      <4> QED
        BY <2>1, <4>1
    <3> QED
      BY <3>1, <3>2
  <2>2. CASE big > 0
    <3> DEFINE m == IF asked % BigLoop = 0 THEN big ELSE big - 1
    <3>1. /\ turns >= asked * L
          /\ turns <= asked * L + big * (L - 1) + m * (2 * (INT_MAX + 1))
      BY <1>1, <2>2 DEF AllTurns, L
    <3>2. slack = big * (L - 1) /\ rounds = m /\ m \in Int
      <4>1. big # 0 /\ big - 0 = big /\ big - 1 \in Int /\ big \in Int
        BY <1>2, <2>2
      <4> HIDE DEF big
      <4> QED
        BY <4>1
    <3> DEFINE s == big * (L - 1)
    <3>3. s \in Int /\ asked * L \in Int
      BY <1>1, <1>2
    <3> HIDE DEF m, big
    <3>4. m * 2 * (INT_MAX + 1) = m * (2 * (INT_MAX + 1)) /\ m * (2 * (INT_MAX + 1)) \in Int
      BY <1>2, <3>2
    <3>5. more = s + m * (2 * (INT_MAX + 1))
      BY <3>2, <3>4
    <3> HIDE DEF s, more
    <3>6. turns <= (asked * L + s) + m * (2 * (INT_MAX + 1))
      BY <3>1 DEF s
    <3> QED
      BY <1>1, <3>1, <3>3, <3>4, <3>5, <3>6
  <2> QED
    BY <1>2, <2>1, <2>2
<1>6. more \in Int
  <2> HIDE DEF slack, rounds
  <2> QED
    BY <1>2, <1>4
<1> HIDE DEF more, x
<1> DEFINE aL == asked * L
           akL == aL * k
           ax == asked * x
<1>7. aL \in Int /\ akL \in Int /\ ax \in Int /\ ax >= 0
  BY <1>1, <1>2, <1>3
<1>8. asked * C = akL + ax
  <2>1. asked * C = asked * (k * L) + asked * x
    BY <1>1, <1>2, <1>3
  <2>2. asked * (k * L) = (asked * L) * k
    BY <1>1, <1>2
  <2> QED
    BY <2>1, <2>2
<1>9. turns * k >= akL /\ turns * k <= akL + k * more /\ turns * k \in Int /\ k * more \in Int
  <2>1. turns >= aL /\ turns <= aL + more
    BY <1>5
  <2> HIDE DEF aL
  <2>2. aL * k <= turns * k /\ turns * k <= (aL + more) * k
    BY <1>1, <1>6, <1>7, <2>1
  <2>3. (aL + more) * k = aL * k + k * more
    BY <1>1, <1>6, <1>7
  <2> QED
    BY <1>1, <1>6, <2>2, <2>3
<1> HIDE DEF aL, akL, ax
<1>10. turns * k >= asked * C - ax /\ turns * k <= asked * C + k * more
  BY <1>7, <1>8, <1>9
<1>11. /\ turns * k >= asked * C - asked * (C % k)
       /\ turns * k <= asked * C + k * (slack + rounds * 2 * (INT_MAX + 1))
  BY <1>10 DEF ax, x, more
<1> HIDE DEF slack, rounds
<1> QED
  BY <1>11 DEF SleptEnough, k, C, L, asked, turns, slack, rounds, big

\* usleep sleeps as long as it was asked to, up to what the division of the rates
\* drops, and no longer than the rounds of a word that its assembler code may add,
\* for every rate of the processor, every loop and every time.
THEOREM AlwaysSleptEnough == SleepSpec => []SleptEnough
<1>1. SleepInit => SleepInv
  BY DEF SleepInit, SleepInv, Awake
<1> QED
  BY <1>1, SleepStep, InvSleptEnough, PTL DEF SleepSpec

-----------------------------------------------------------------------------
\* The three keep what they promise side by side, too.
THEOREM ClockAlwaysKept == ClockSpec => []ClockKept
<1>1. ClockInit => AlarmsInit /\ TimeInit /\ SleepInit
  BY DEF ClockInit
<1>2. [ClockNext]_clockVars =>
        [AlarmsNext]_alarmVars /\ [TimeNext]_timeVars /\ [SleepNext]_sleep
  BY DEF ClockNext, AlarmsRun, TimeRuns, SleepRuns, clockVars
<1>3. ClockSpec => AlarmsSpec /\ TimeSpec /\ SleepSpec
  BY <1>1, <1>2, PTL DEF ClockSpec, AlarmsSpec, TimeSpec, SleepSpec
<1>4. AlarmsKept /\ TimeIsKept /\ SleptEnough => ClockKept
  BY DEF ClockKept
<1> QED
  BY <1>3, <1>4, AlarmsAlwaysKept, TimeAlwaysKept, AlwaysSleptEnough, PTL

-----------------------------------------------------------------------------
(***************************************************************************)
(* The profiler.                                                           *)
(***************************************************************************)

\* Of sets of numbered sizes there is a smallest: what takes the place of an
\* induction over the sets.
LEMMA Smallest ==
  ASSUME NEW D, D # {}, \A s \in D : Cardinality(s) \in Nat
  PROVE  \E s \in D : \A r \in D : Cardinality(s) <= Cardinality(r)
<1> DEFINE N == {Cardinality(s) : s \in D}
<1>1. N \in SUBSET Nat /\ N # {}
  OBVIOUS
<1>2. PICK m \in N : \A n \in N : m <= n
  BY <1>1, Lowest
<1>3. PICK s \in D : Cardinality(s) = m
  OBVIOUS
<1> QED
  BY <1>2, <1>3

\* The sum of the counts at some places of a list.
Sum(list, places) == MapThenSumSet(LAMBDA j : list[j].count, places)

\* It is a recursive function of the sets of places: one place after the other
\* is taken out.
Some(s) == CHOOSE j \in s : TRUE

SumsOf(f, list, places) ==
  f = [s \in SUBSET places |->
         IF s = {} THEN 0 ELSE list[Some(s)].count + f[s \ {Some(s)}]]

Sums(list, places) == CHOOSE f : SumsOf(f, list, places)

LEMMA SumIs ==
  ASSUME NEW list, NEW places
  PROVE  Sum(list, places) = Sums(list, places)[places]
BY DEF Sum, MapThenSumSet, MapThenFoldSet, SumsOf, Sums, Some

\* Such a function of fewer places is a part of one of more.
LEMMA SumsOfFewer ==
  ASSUME NEW list, NEW places, NEW f, SumsOf(f, list, places),
         NEW few \in SUBSET places
  PROVE  SumsOf([s \in SUBSET few |-> f[s]], list, few)
<1> DEFINE g == [s \in SUBSET few |-> f[s]]
<1>1. ASSUME NEW s \in SUBSET few
      PROVE  g[s] = IF s = {} THEN 0 ELSE list[Some(s)].count + g[s \ {Some(s)}]
  <2>1. s \in SUBSET places /\ s \ {Some(s)} \in SUBSET few
    OBVIOUS
  <2>2. f[s] = IF s = {} THEN 0 ELSE list[Some(s)].count + f[s \ {Some(s)}]
    BY <2>1 DEF SumsOf
  <2> QED
    BY <2>1, <2>2
<1>2. g = [s \in SUBSET few |->
             IF s = {} THEN 0 ELSE list[Some(s)].count + g[s \ {Some(s)}]]
  BY <1>1
<1> QED
  BY <1>2 DEF SumsOf

\* The places that are left are fewer.
LEMMA OneFewer ==
  ASSUME NEW s, IsFiniteSet(s), s # {}
  PROVE  /\ Some(s) \in s /\ IsFiniteSet(s \ {Some(s)})
         /\ Cardinality(s) \in Nat /\ Cardinality(s \ {Some(s)}) \in Nat
         /\ Cardinality(s \ {Some(s)}) < Cardinality(s)
<1>1. Some(s) \in s
  BY DEF Some
<1>2. IsFiniteSet(s \ {Some(s)}) /\ Cardinality(s \ {Some(s)}) = Cardinality(s) - 1
  BY <1>1, FS_RemoveElement
<1>3. Cardinality(s) \in Nat /\ Cardinality(s \ {Some(s)}) \in Nat
  BY <1>2, FS_CardinalityType
<1> QED
  BY <1>1, <1>2, <1>3

\* There is one such function only, and it depends on the counts alone.
LEMMA SumsUnique ==
  ASSUME NEW places, IsFiniteSet(places),
         NEW list, NEW f, SumsOf(f, list, places),
         NEW other, NEW g, SumsOf(g, other, places),
         \A j \in places : list[j].count = other[j].count
  PROVE  f = g
<1> DEFINE D == {s \in SUBSET places : f[s] # g[s]}
<1>1. \A s \in SUBSET places : IsFiniteSet(s) /\ Cardinality(s) \in Nat
  BY FS_Subset, FS_CardinalityType
<1>2. ASSUME NEW s \in D, \A r \in D : Cardinality(s) <= Cardinality(r)
      PROVE  FALSE
  <2>1. /\ f[s] = IF s = {} THEN 0 ELSE list[Some(s)].count + f[s \ {Some(s)}]
        /\ g[s] = IF s = {} THEN 0 ELSE other[Some(s)].count + g[s \ {Some(s)}]
    BY DEF SumsOf
  <2>2. s # {}
    BY <2>1
  <2>3. Some(s) \in s /\ Cardinality(s \ {Some(s)}) < Cardinality(s)
        /\ Cardinality(s) \in Nat /\ Cardinality(s \ {Some(s)}) \in Nat
    BY <1>1, <2>2, OneFewer
  <2>4. s \ {Some(s)} \notin D
    BY <1>2, <2>3
  <2>5. f[s \ {Some(s)}] = g[s \ {Some(s)}]
    BY <2>4
  <2> QED
    BY <2>1, <2>2, <2>3, <2>5
<1>3. D = {}
  <2>1. \A s \in D : Cardinality(s) \in Nat
    BY <1>1
  <2> HIDE DEF D
  <2> QED
    BY <1>2, <2>1, Smallest
<1>4. f = [s \in SUBSET places |-> f[s]] /\ g = [s \in SUBSET places |-> g[s]]
  BY DEF SumsOf
<1>5. \A s \in SUBSET places : f[s] = g[s]
  BY <1>3
<1> QED
  BY <1>4, <1>5, Zenon

\* And there is one.
LEMMA SumsExist ==
  ASSUME NEW list, NEW places, IsFiniteSet(places)
  PROVE  SumsOf(Sums(list, places), list, places)
<1> DEFINE D == {s \in SUBSET places : ~SumsOf(Sums(list, s), list, s)}
<1>1. \A s \in SUBSET places : IsFiniteSet(s) /\ Cardinality(s) \in Nat
  BY FS_Subset, FS_CardinalityType
<1>2. ASSUME NEW T \in D, \A r \in D : Cardinality(T) <= Cardinality(r)
      PROVE  FALSE
  <2> DEFINE rest == T \ {Some(T)}
             f == [s \in SUBSET T |->
                     IF s # T THEN Sums(list, s)[s]
                     ELSE IF T = {} THEN 0
                     ELSE list[Some(T)].count + Sums(list, rest)[rest]]
  <2>1. IsFiniteSet(T) /\ T \in SUBSET places
    BY <1>1
  <2>2. ASSUME NEW s \in SUBSET T, s # T
        PROVE  SumsOf(Sums(list, s), list, s)
    <3>1. IsFiniteSet(s) /\ Cardinality(s) <= Cardinality(T)
          /\ (Cardinality(s) = Cardinality(T) => s = T)
          /\ Cardinality(s) \in Nat /\ Cardinality(T) \in Nat
      BY <2>1, FS_Subset, FS_CardinalityType
    <3>2. ~(Cardinality(T) <= Cardinality(s))
      BY <2>2, <3>1
    <3>3. s \in SUBSET places
      BY <2>1
    <3>4. s \notin D
      BY <1>2, <3>2
    <3> QED
      BY <3>3, <3>4
  <2>3. ASSUME NEW s \in SUBSET T, s # T, NEW r \in SUBSET s
        PROVE  Sums(list, s)[r] = Sums(list, r)[r]
    <3>1. SumsOf([q \in SUBSET r |-> Sums(list, s)[q]], list, r)
      BY <2>2, <2>3, SumsOfFewer
    <3>2. r \in SUBSET T /\ r # T
      BY <2>3
    <3>3. SumsOf(Sums(list, r), list, r) /\ IsFiniteSet(r)
      BY <2>1, <2>2, <3>2, FS_Subset
    <3>4. [q \in SUBSET r |-> Sums(list, s)[q]] = Sums(list, r)
      BY <3>1, <3>3, SumsUnique
    <3>5. [q \in SUBSET r |-> Sums(list, s)[q]][r] = Sums(list, s)[r]
      OBVIOUS
    <3> QED
      BY <3>4, <3>5
  <2>4. ASSUME NEW s \in SUBSET T
        PROVE  f[s] = IF s = {} THEN 0 ELSE list[Some(s)].count + f[s \ {Some(s)}]
    <3>1. s # {} => Some(s) \in s
      BY DEF Some
    <3>2. CASE s = T
      <4>1. T # {} => rest # T /\ rest \in SUBSET T
        BY <3>1, <3>2
      <4>2. T # {} => f[rest] = Sums(list, rest)[rest]
        BY <4>1
      <4> QED
        BY <3>2, <4>2
    <3>3. CASE s # T
      <4>1. Sums(list, s)[s] =
              IF s = {} THEN 0
              ELSE list[Some(s)].count + Sums(list, s)[s \ {Some(s)}]
        <5>1. s \in SUBSET s
          OBVIOUS
        <5>2. SumsOf(Sums(list, s), list, s)
          BY <2>2, <3>3
        <5> QED
          BY <5>1, <5>2 DEF SumsOf
      <4>2. s # {} => s \ {Some(s)} # T /\ s \ {Some(s)} \in SUBSET T
        BY <3>1
      <4>3. Sums(list, s)[s \ {Some(s)}]
              = Sums(list, s \ {Some(s)})[s \ {Some(s)}]
        <5>1. s \ {Some(s)} \in SUBSET s
          OBVIOUS
        <5> QED
          BY <2>3, <3>3, <5>1
      <4>4. s # {} => f[s \ {Some(s)}] = Sums(list, s \ {Some(s)})[s \ {Some(s)}]
        BY <4>2
      <4>5. f[s] = Sums(list, s)[s]
        BY <3>3
      <4> QED
        BY <4>1, <4>3, <4>4, <4>5
    <3> QED
      BY <3>2, <3>3
  <2>5. f = [s \in SUBSET T |->
               IF s = {} THEN 0 ELSE list[Some(s)].count + f[s \ {Some(s)}]]
    <3>1. f = [s \in SUBSET T |-> f[s]]
      OBVIOUS
    <3> HIDE DEF f
    <3> QED
      BY <2>4, <3>1, Zenon
  <2>6. SumsOf(f, list, T)
    BY <2>5 DEF SumsOf
  <2>7. SumsOf(Sums(list, T), list, T)
    BY <2>6 DEF Sums
  <2> QED
    BY <2>7
<1>3. D = {}
  <2>1. \A s \in D : Cardinality(s) \in Nat
    BY <1>1
  <2> HIDE DEF D
  <2> QED
    BY <1>2, <2>1, Smallest
<1> QED
  BY <1>3

\* So the sum of some places is one place's count and the sum of the others.
LEMMA SumStep ==
  ASSUME NEW list, NEW places, IsFiniteSet(places)
  PROVE  Sum(list, places) =
           IF places = {} THEN 0
           ELSE list[Some(places)].count + Sum(list, places \ {Some(places)})
<1> DEFINE rest == places \ {Some(places)}
           f == Sums(list, places)
           g == [s \in SUBSET rest |-> f[s]]
<1>1. SumsOf(f, list, places)
  BY SumsExist
<1>2. f[places] = IF places = {} THEN 0 ELSE list[Some(places)].count + f[rest]
  <2>1. places \in SUBSET places
    OBVIOUS
  <2> QED
    BY <1>1, <2>1 DEF SumsOf
<1>3. rest \in SUBSET places /\ IsFiniteSet(rest)
  BY FS_Subset
<1>4. SumsOf(g, list, rest)
  BY <1>1, <1>3, SumsOfFewer
<1>5. SumsOf(Sums(list, rest), list, rest)
  BY <1>3, SumsExist
<1>6. g = Sums(list, rest)
  BY <1>3, <1>4, <1>5, SumsUnique
<1>7. g[rest] = f[rest]
  OBVIOUS
<1> QED
  BY <1>2, <1>6, <1>7, SumIs

\* The sum depends on the counts at those places alone.
LEMMA SumSame ==
  ASSUME NEW places, IsFiniteSet(places), NEW list, NEW other,
         \A j \in places : list[j].count = other[j].count
  PROVE  Sum(list, places) = Sum(other, places)
<1>1. SumsOf(Sums(list, places), list, places)
      /\ SumsOf(Sums(other, places), other, places)
  BY SumsExist
<1>2. Sums(list, places) = Sums(other, places)
  BY <1>1, SumsUnique
<1> QED
  BY <1>2, SumIs

\* Counts of numbers have a number as their sum,
LEMMA SumType ==
  ASSUME NEW places, IsFiniteSet(places), NEW list,
         \A j \in places : list[j].count \in Int
  PROVE  Sum(list, places) \in Int
<1> DEFINE D == {s \in SUBSET places : Sum(list, s) \notin Int}
<1>1. \A s \in SUBSET places : IsFiniteSet(s) /\ Cardinality(s) \in Nat
  BY FS_Subset, FS_CardinalityType
<1>2. ASSUME NEW s \in D, \A r \in D : Cardinality(s) <= Cardinality(r)
      PROVE  FALSE
  <2>1. IsFiniteSet(s)
    BY <1>1
  <2>2. Sum(list, s) = IF s = {} THEN 0
                       ELSE list[Some(s)].count + Sum(list, s \ {Some(s)})
    BY <2>1, SumStep
  <2>3. s # {}
    BY <2>2
  <2>4. Some(s) \in s /\ Cardinality(s \ {Some(s)}) < Cardinality(s)
        /\ Cardinality(s) \in Nat /\ Cardinality(s \ {Some(s)}) \in Nat
    BY <2>1, <2>3, OneFewer
  <2>5. s \ {Some(s)} \notin D
    BY <1>2, <2>4
  <2>6. Sum(list, s \ {Some(s)}) \in Int /\ list[Some(s)].count \in Int
    BY <2>4, <2>5
  <2> QED
    BY <2>2, <2>3, <2>6
<1>3. D = {}
  <2>1. \A s \in D : Cardinality(s) \in Nat
    BY <1>1
  <2> HIDE DEF D
  <2> QED
    BY <1>2, <2>1, Smallest
<1> QED
  BY <1>3

\* and it doesn't matter which place is taken out.
LEMMA SumAdd ==
  ASSUME NEW places, IsFiniteSet(places), NEW list,
         \A j \in places : list[j].count \in Int,
         NEW x \in places
  PROVE  Sum(list, places) = list[x].count + Sum(list, places \ {x})
<1> DEFINE Wrong(s, y) == Sum(list, s) # list[y].count + Sum(list, s \ {y})
           D == {s \in SUBSET places : \E y \in s : Wrong(s, y)}
<1>1. \A s \in SUBSET places : IsFiniteSet(s) /\ Cardinality(s) \in Nat
  BY FS_Subset, FS_CardinalityType
<1>2. ASSUME NEW s \in D, \A r \in D : Cardinality(s) <= Cardinality(r)
      PROVE  FALSE
  <2>1. IsFiniteSet(s) /\ s \in SUBSET places
    BY <1>1
  <2>2. PICK y \in s : Wrong(s, y)
    OBVIOUS
  <2> DEFINE c == Some(s)
             one == s \ {c}
             two == one \ {y}
  <2>3. s # {}
    BY <2>2
  <2>4. Sum(list, s) = list[c].count + Sum(list, one)
    BY <2>1, <2>3, SumStep
  <2>5. c # y
    BY <2>2, <2>4
  <2>6. c \in s /\ Cardinality(one) < Cardinality(s) /\ IsFiniteSet(one)
        /\ Cardinality(s) \in Nat /\ Cardinality(one) \in Nat
    BY <2>1, <2>3, OneFewer
  <2>7. one \notin D
    BY <1>2, <2>6
  <2>8. Sum(list, one) = list[y].count + Sum(list, two)
    BY <2>1, <2>5, <2>7
  <2>9. s \ {y} \notin D
    <3>1. Cardinality(s \ {y}) = Cardinality(s) - 1
      BY <2>1, FS_RemoveElement
    <3>2. Cardinality(s) \in Nat /\ ~(Cardinality(s) <= Cardinality(s \ {y}))
      BY <2>6, <3>1
    <3>3. \A r \in D : Cardinality(s) <= Cardinality(r)
      BY <1>2
    <3> HIDE DEF D
    <3> QED
      BY <3>2, <3>3
  <2>10. (s \ {y}) \ {c} = two
    OBVIOUS
  <2>11. c \in s \ {y}
    BY <2>5, <2>6
  <2>12. Sum(list, s \ {y}) = list[c].count + Sum(list, two)
    BY <2>1, <2>9, <2>10, <2>11
  <2>13. Sum(list, two) \in Int /\ list[c].count \in Int /\ list[y].count \in Int
    BY <2>1, <2>6, FS_Subset, SumType
  <2> HIDE DEF D, one, two, c
  <2>14. Sum(list, s) = list[y].count + Sum(list, s \ {y})
    BY <2>4, <2>8, <2>12, <2>13
  <2> QED
    BY <2>2, <2>14
<1>3. D = {}
  <2>1. \A s \in D : Cardinality(s) \in Nat
    BY <1>1
  <2> HIDE DEF D
  <2> QED
    BY <1>2, <2>1, Smallest
<1> QED
  BY <1>3

-----------------------------------------------------------------------------
(* The inductive invariant. *)

Recorded(f, q) == Sum(arcs, Copies(f, q))

Entries(f) == {j \in DOMAIN fns : fns[j] = f}

Arcs(e, q) == {j \in DOMAIN arcs : arcs[j].fn = e /\ arcs[j].from_pc = q}

\* The types, which include what an arc refers to.
ListType ==
  /\ fns \in Seq(SelfPcs)
  /\ arcs \in Seq([fn : Nat, from_pc : FromPcs, count : Nat])
  /\ \A j \in 1..Len(arcs) : arcs[j].fn \in 1..Len(fns)
  /\ called \in [{"program", "handler"} -> [Pairs -> Nat]]

MemType(m) ==
  m \in [heap_end : Nat, slab_ptr : Int, slab_size : Int,
         pieces : SUBSET (Int \X Int), short : BOOLEAN]

McountType ==
  \/ mcount = Idle
  \/ mcount \in [pc : {"search", "record", "init", "insert"}, self_pc : SelfPcs,
                 from_pc : FromPcs, fn_entry : Nat]
  \/ mcount \in [pc : {"store"}, arc : Nat, r2 : Nat, self_pc : SelfPcs,
                 from_pc : FromPcs]

Recording == mcount.pc \in {"record", "init", "insert"}

\* What the program's call has found stays true while handlers come between:
\* lists are only made longer.  The count it has loaded may be an old one, but
\* only if the handler has counted the same call.
FoundInv ==
  /\ Recording \/ mcount.pc = "search" =>
       /\ mcount.fn_entry \in 0..Len(fns)
       /\ mcount.fn_entry # 0 => fns[mcount.fn_entry] = mcount.self_pc
  /\ mcount.pc = "search" => mcount.fn_entry # 0
  /\ mcount.pc = "store" =>
       /\ mcount.arc \in Copies(mcount.self_pc, mcount.from_pc)
       /\ mcount.r2 - 1 <= arcs[mcount.arc].count
       /\ called["handler"][<<mcount.self_pc, mcount.from_pc>>] = 0 =>
            mcount.r2 - 1 = arcs[mcount.arc].count

\* No list has a third entry: where the program is about to put one in that it
\* didn't find, the handler has put in one at most.
OnceInv ==
  /\ \A f \in SelfPcs :
       /\ Cardinality(Entries(f)) <= 2
       /\ Recording /\ mcount.fn_entry = 0 /\ mcount.self_pc = f =>
            Cardinality(Entries(f)) <= 1
  /\ \A e \in 1..Len(fns), q \in FromPcs :
       /\ Cardinality(Arcs(e, q)) <= 2
       /\ Recording /\ mcount.fn_entry = e /\ mcount.from_pc = q =>
            Cardinality(Arcs(e, q)) <= 1

\* Every call of the program is counted, even when the handler's are taken back
\* that the program will write over.
CountInv ==
  \A p \in Pairs :
    /\ called["program"][p] <= Recorded(p[1], p[2])
    /\ Recorded(p[1], p[2]) <= called["program"][p] + called["handler"][p]
    /\ called["handler"][p] = 0 => Recorded(p[1], p[2]) = called["program"][p]
    /\ mcount.pc = "store" /\ mcount.self_pc = p[1] /\ mcount.from_pc = p[2] =>
         called["program"][p] + (arcs[mcount.arc].count - (mcount.r2 - 1))
           <= Recorded(p[1], p[2])

\* Pieces of memory, and what is left of the slab, lie apart below the heap's end.
MemInv(m) ==
  ~m.short =>
    /\ m.slab_size >= 0 /\ m.slab_ptr + m.slab_size <= m.heap_end
    /\ \A p \in m.pieces :
         /\ p[1] <= p[2] /\ p[2] <= m.heap_end
         /\ p[2] <= m.slab_ptr \/ m.slab_ptr + m.slab_size <= p[1]
    /\ \A p, q \in m.pieces : p # q => p[2] <= q[1] \/ q[2] <= p[1]

SampleInv ==
  /\ pcsample_need_init \in BOOLEAN /\ clock \in BOOLEAN /\ s_pcsamples \in Int
  /\ TextBytes % PCSAMPLE_BYTES_PER_BUCKET = 0 => bucket < Histogram

ProfilingInv ==
  /\ ListType /\ McountType /\ FoundInv /\ OnceInv /\ CountInv
  /\ MemType(mem) /\ MemInv(mem) /\ SampleInv

-----------------------------------------------------------------------------
(* Memory. *)

\* A record of what memory is.
Mem(heap_end, slab_ptr, slab_size, pieces, short) ==
  [heap_end |-> heap_end, slab_ptr |-> slab_ptr, slab_size |-> slab_size,
   pieces |-> pieces, short |-> short]

LEMMA MemIs ==
  ASSUME NEW m, MemType(m)
  PROVE  m = Mem(m.heap_end, m.slab_ptr, m.slab_size, m.pieces, m.short)
BY DEF MemType, Mem

\* What sbrk gives out lies above everything that was given out before.
LEMMA SbrkAbove ==
  ASSUME NEW m, MemType(m), NEW incr \in Nat
  PROVE  \E heap_end \in Nat, short \in BOOLEAN :
           /\ ALT_SBRK(m, incr).mem
                = Mem(heap_end, m.slab_ptr, m.slab_size, m.pieces, short)
           /\ ALT_SBRK(m, incr).data \in Int
           /\ ~short => /\ ~m.short /\ m.heap_end <= ALT_SBRK(m, incr).data
                        /\ heap_end = ALT_SBRK(m, incr).data + incr
<1> DEFINE from == Aligned(m.heap_end)
<1>1. from \in Nat /\ m.heap_end <= from /\ heap_limit \in Nat
  BY ProfilingAssumption DEF Aligned, MemType, ProfilingAssumption
<1>2. CASE from + incr > heap_limit
  <2>1. /\ ALT_SBRK(m, incr).mem = [m EXCEPT !.heap_end = from, !.short = TRUE]
        /\ ALT_SBRK(m, incr).data = -1
    BY <1>2 DEF ALT_SBRK, NoRoom
  <2>2. ALT_SBRK(m, incr).mem = Mem(from, m.slab_ptr, m.slab_size, m.pieces, TRUE)
    <3> HIDE DEF from
    <3> QED
      BY <2>1, MemIs DEF Mem
  <2> DEFINE short == TRUE
  <2>3. /\ short \in BOOLEAN /\ short /\ -1 \in Int
        /\ ALT_SBRK(m, incr).mem = Mem(from, m.slab_ptr, m.slab_size, m.pieces, short)
    BY <2>2
  <2> HIDE DEF from, short
  <2> QED
    BY <1>1, <2>1, <2>3
<1>3. CASE ~(from + incr > heap_limit)
  <2>1. /\ ALT_SBRK(m, incr).mem = [m EXCEPT !.heap_end = from + incr]
        /\ ALT_SBRK(m, incr).data = from
    BY <1>3 DEF ALT_SBRK
  <2>2. ALT_SBRK(m, incr).mem
          = Mem(from + incr, m.slab_ptr, m.slab_size, m.pieces, m.short)
    <3> HIDE DEF from
    <3> QED
      BY <2>1, MemIs DEF Mem
  <2>3. m.short \in BOOLEAN /\ from + incr \in Nat
    BY <1>1 DEF MemType
  <2> QED
    BY <1>1, <2>1, <2>2, <2>3
<1> QED
  BY <1>2, <1>3

\* A piece of sbrk's own.
LEMMA SbrkInUse ==
  ASSUME NEW m, MemType(m), MemInv(m), NEW incr \in Nat,
         NEW block, block = ALT_SBRK(m, incr)
  PROVE  /\ MemType(InUse(block.mem, block.data, incr))
         /\ MemInv(InUse(block.mem, block.data, incr))
<1> DEFINE n == InUse(block.mem, block.data, incr)
<1>1. PICK heap_end \in Nat, short \in BOOLEAN :
         /\ block.mem = Mem(heap_end, m.slab_ptr, m.slab_size, m.pieces, short)
         /\ block.data \in Int
         /\ ~short => /\ ~m.short /\ m.heap_end <= block.data
                      /\ heap_end = block.data + incr
  BY SbrkAbove
<1> DEFINE more == m.pieces \cup {<<block.data, block.data + incr>>}
<1>2. n = Mem(heap_end, m.slab_ptr, m.slab_size, more, short)
  BY <1>1 DEF InUse, Mem
<1>3. MemType(n)
  <2>1. more \in SUBSET (Int \X Int)
    BY <1>1 DEF MemType
  <2> HIDE DEF more, n
  <2> QED
    BY <1>2, <2>1 DEF MemType, Mem
<1>4. ASSUME ~n.short
      PROVE  /\ m.slab_size >= 0 /\ m.slab_ptr + m.slab_size <= heap_end
             /\ \A p \in more :
                  /\ p[1] <= p[2] /\ p[2] <= heap_end
                  /\ p[2] <= m.slab_ptr \/ m.slab_ptr + m.slab_size <= p[1]
             /\ \A p, q \in more : p # q => p[2] <= q[1] \/ q[2] <= p[1]
  <2>1. ~short
    BY <1>2, <1>4 DEF Mem
  <2>2. /\ ~m.short /\ m.heap_end <= block.data /\ heap_end = block.data + incr
        /\ block.data \in Int
    BY <1>1, <2>1
  <2> QED
    BY <2>2 DEF MemType, MemInv
<1> HIDE DEF n, more
<1>5. MemInv(n)
  BY <1>2, <1>4 DEF MemInv, Mem
<1> QED
  BY <1>3, <1>5 DEF n

\* A piece of a slab.
LEMMA SlabInUse ==
  ASSUME NEW m, MemType(m), MemInv(m)
  PROVE  /\ MemType(mcount_allocate(m, EntryBytes))
         /\ MemInv(mcount_allocate(m, EntryBytes))
<1> DEFINE block == ALT_SBRK(m, MCOUNT_SLAB_INCREMENT)
           slab == IF EntryBytes > m.slab_size
                   THEN [block.mem EXCEPT !.slab_ptr = block.data,
                                          !.slab_size = MCOUNT_SLAB_INCREMENT]
                   ELSE m
           n == mcount_allocate(m, EntryBytes)
<1>1. /\ MCOUNT_SLAB_INCREMENT \in Nat /\ EntryBytes \in Nat
      /\ MCOUNT_SLAB_INCREMENT >= EntryBytes
  BY ProfilingAssumption DEF ProfilingAssumption
<1>2. PICK heap_end \in Nat, short \in BOOLEAN :
         /\ block.mem = Mem(heap_end, m.slab_ptr, m.slab_size, m.pieces, short)
         /\ block.data \in Int
         /\ ~short => /\ ~m.short /\ m.heap_end <= block.data
                      /\ heap_end = block.data + MCOUNT_SLAB_INCREMENT
  BY <1>1, SbrkAbove
<1>3. n = InUse([slab EXCEPT !.slab_ptr = @ + EntryBytes, !.slab_size = @ - EntryBytes],
                slab.slab_ptr, EntryBytes)
  BY DEF mcount_allocate
<1> HIDE DEF n, block
<1>4. MemType(slab) /\ MemInv(slab) /\ (slab.short \/ slab.slab_size >= EntryBytes)
  <2>1. CASE EntryBytes > m.slab_size
    <3>1. slab = Mem(heap_end, block.data, MCOUNT_SLAB_INCREMENT, m.pieces, short)
      <4>1. [block.mem EXCEPT !.slab_ptr = block.data]
              = Mem(heap_end, block.data, m.slab_size, m.pieces, short)
        BY <1>2 DEF Mem
      <4>2. [Mem(heap_end, block.data, m.slab_size, m.pieces, short)
               EXCEPT !.slab_size = MCOUNT_SLAB_INCREMENT]
              = Mem(heap_end, block.data, MCOUNT_SLAB_INCREMENT, m.pieces, short)
        BY DEF Mem
      <4>3. [block.mem EXCEPT !.slab_ptr = block.data,
                              !.slab_size = MCOUNT_SLAB_INCREMENT]
              = Mem(heap_end, block.data, MCOUNT_SLAB_INCREMENT, m.pieces, short)
        BY <4>1, <4>2, Zenon
      <4> QED
        BY <2>1, <4>3
    <3> HIDE DEF slab
    <3>2. MemType(slab)
      BY <1>1, <1>2, <3>1 DEF MemType, Mem
    <3>3. MemInv(slab)
      BY <1>1, <1>2, <3>1 DEF MemType, MemInv, Mem
    <3> QED
      BY <1>1, <3>1, <3>2, <3>3 DEF Mem
  <2>2. CASE ~(EntryBytes > m.slab_size)
    <3>1. slab = m
      BY <2>2
    <3>2. m.slab_size >= EntryBytes
      BY <1>1, <2>2 DEF MemType
    <3> QED
      BY <3>1, <3>2
  <2> QED
    BY <2>1, <2>2
<1> HIDE DEF slab
<1> DEFINE more == slab.pieces \cup {<<slab.slab_ptr, slab.slab_ptr + EntryBytes>>}
<1>5. n = Mem(slab.heap_end, slab.slab_ptr + EntryBytes, slab.slab_size - EntryBytes,
              more, slab.short)
  <2> DEFINE h == slab.heap_end
             r == slab.slab_ptr
             z == slab.slab_size
             q == slab.pieces
             s == slab.short
  <2>1. slab = Mem(h, r, z, q, s)
    BY <1>4, MemIs
  <2>2. n = InUse([slab EXCEPT !.slab_ptr = r + EntryBytes, !.slab_size = z - EntryBytes],
                  r, EntryBytes)
    BY <1>3
  <2> HIDE DEF h, r, z, q, s
  <2>3. [slab EXCEPT !.slab_ptr = r + EntryBytes] = Mem(h, r + EntryBytes, z, q, s)
    BY <2>1 DEF Mem
  <2>4. [Mem(h, r + EntryBytes, z, q, s) EXCEPT !.slab_size = z - EntryBytes]
          = Mem(h, r + EntryBytes, z - EntryBytes, q, s)
    BY DEF Mem
  <2>5. [slab EXCEPT !.slab_ptr = r + EntryBytes, !.slab_size = z - EntryBytes]
          = Mem(h, r + EntryBytes, z - EntryBytes, q, s)
    BY <2>3, <2>4, Zenon
  <2>6. InUse(Mem(h, r + EntryBytes, z - EntryBytes, q, s), r, EntryBytes)
          = Mem(h, r + EntryBytes, z - EntryBytes,
                q \cup {<<r, r + EntryBytes>>}, s)
    <3> DEFINE x == q \cup {<<r, r + EntryBytes>>}
    <3>1. Mem(h, r + EntryBytes, z - EntryBytes, q, s).pieces = q
      BY DEF Mem
    <3>2. InUse(Mem(h, r + EntryBytes, z - EntryBytes, q, s), r, EntryBytes)
            = [Mem(h, r + EntryBytes, z - EntryBytes, q, s) EXCEPT !.pieces = x]
      BY <3>1 DEF InUse
    <3> HIDE DEF x
    <3>3. [Mem(h, r + EntryBytes, z - EntryBytes, q, s) EXCEPT !.pieces = x]
            = Mem(h, r + EntryBytes, z - EntryBytes, x, s)
      BY DEF Mem
    <3> QED
      BY <3>2, <3>3, Zenon DEF x
  <2> QED
    BY <2>2, <2>5, <2>6 DEF h, r, z, q, s
<1>6. MemType(n)
  <2>1. more \in SUBSET (Int \X Int)
    BY <1>1, <1>4 DEF MemType
  <2>2. /\ slab.heap_end \in Nat /\ slab.slab_ptr + EntryBytes \in Int
        /\ slab.slab_size - EntryBytes \in Int /\ slab.short \in BOOLEAN
    BY <1>1, <1>4 DEF MemType
  <2> HIDE DEF more
  <2> QED
    BY <1>5, <2>1, <2>2 DEF MemType, Mem
<1>7. ASSUME ~slab.short
      PROVE  /\ slab.slab_size - EntryBytes >= 0
             /\ slab.slab_ptr + EntryBytes + (slab.slab_size - EntryBytes) <= slab.heap_end
             /\ \A p \in more :
                  /\ p[1] <= p[2] /\ p[2] <= slab.heap_end
                  /\ \/ p[2] <= slab.slab_ptr + EntryBytes
                     \/ slab.slab_ptr + EntryBytes + (slab.slab_size - EntryBytes) <= p[1]
             /\ \A p, q \in more : p # q => p[2] <= q[1] \/ q[2] <= p[1]
  <2>1. /\ slab.slab_ptr \in Int /\ slab.slab_size \in Int /\ slab.heap_end \in Nat
        /\ slab.slab_size >= EntryBytes
        /\ slab.slab_ptr + slab.slab_size <= slab.heap_end
        /\ \A p \in slab.pieces :
             /\ p[1] \in Int /\ p[2] \in Int /\ p[1] <= p[2] /\ p[2] <= slab.heap_end
             /\ p[2] <= slab.slab_ptr \/ slab.slab_ptr + slab.slab_size <= p[1]
        /\ \A p, q \in slab.pieces : p # q => p[2] <= q[1] \/ q[2] <= p[1]
    BY <1>4, <1>7 DEF MemType, MemInv
  <2> QED
    BY <1>1, <2>1
<1> HIDE DEF more
<1>8. MemInv(n)
  BY <1>5, <1>7 DEF MemInv, Mem
<1> QED
  BY <1>6, <1>8 DEF n

-----------------------------------------------------------------------------
(* The lists. *)

\* A search from the end of a list finds a place, if there is one.
LEMMA LastOf ==
  ASSUME NEW n \in Nat, NEW S \in SUBSET (1..n), S # {}
  PROVE  Max(S) \in S
<1> DEFINE away == {k \in Nat : n - k \in S}
<1>1. away # {}
  <2>1. PICK j \in S : TRUE
    OBVIOUS
  <2>2. n - j \in Nat /\ n - (n - j) = j
    OBVIOUS
  <2> QED
    BY <2>1, <2>2
<1>2. PICK k \in away : \A j \in away : k <= j
  BY <1>1, Lowest
<1>3. ASSUME NEW j \in S
      PROVE  n - k >= j
  <2>1. n - j \in away
    OBVIOUS
  <2>2. k <= n - j /\ k \in Nat /\ j \in Nat
    BY <1>2, <2>1
  <2> QED
    BY <2>2
<1> QED
  BY <1>2, <1>3 DEF Max

\* What the entries of the lists are.
LEMMA ArcTypes ==
  ASSUME ListType
  PROVE  /\ Len(arcs) \in Nat /\ DOMAIN arcs = 1..Len(arcs)
         /\ Len(fns) \in Nat /\ DOMAIN fns = 1..Len(fns)
         /\ \A j \in 1..Len(arcs) :
              /\ arcs[j] \in [fn : Nat, from_pc : FromPcs, count : Nat]
              /\ arcs[j].fn \in 1..Len(fns) /\ arcs[j].count \in Nat
              /\ fns[arcs[j].fn] \in SelfPcs /\ arcs[j].from_pc \in FromPcs
<1> DEFINE A == [fn : Nat, from_pc : FromPcs, count : Nat]
<1>1. arcs \in Seq(A) /\ fns \in Seq(SelfPcs)
  BY DEF ListType
<1>2. \A x \in A : x.count \in Nat /\ x.from_pc \in FromPcs
  OBVIOUS
<1> HIDE DEF A
<1>3. /\ Len(arcs) \in Nat /\ DOMAIN arcs = 1..Len(arcs)
      /\ Len(fns) \in Nat /\ DOMAIN fns = 1..Len(fns)
      /\ \A j \in 1..Len(arcs) : arcs[j] \in A
      /\ \A j \in 1..Len(fns) : fns[j] \in SelfPcs
  BY <1>1
<1>4. \A j \in 1..Len(arcs) : arcs[j].fn \in 1..Len(fns)
  BY DEF ListType
<1> QED
  BY <1>2, <1>3, <1>4 DEF A

LEMMA FoundFn ==
  ASSUME ListType, NEW f \in SelfPcs
  PROVE  /\ FindFn(f) \in 0..Len(fns)
         /\ FindFn(f) # 0 => fns[FindFn(f)] = f
         /\ FindFn(f) = 0 => Entries(f) = {}
<1> DEFINE S == {j \in 1..Len(fns) : fns[j] = f}
<1>1. Len(fns) \in Nat /\ DOMAIN fns = 1..Len(fns)
  BY DEF ListType
<1>2. FindFn(f) = IF S # {} THEN Max(S) ELSE 0
  BY DEF FindFn, SelectLastInSeq
<1>3. S # {} => Max(S) \in S
  BY <1>1, LastOf
<1>4. Entries(f) = S
  BY <1>1 DEF Entries
<1> HIDE DEF S
<1>5. CASE S = {}
  BY <1>1, <1>2, <1>4, <1>5
<1>6. CASE S # {}
  BY <1>1, <1>2, <1>3, <1>6 DEF S
<1> QED
  BY <1>5, <1>6

LEMMA FoundArc ==
  ASSUME ListType, NEW e, NEW q
  PROVE  /\ FindArc(e, q) \in 0..Len(arcs)
         /\ FindArc(e, q) # 0 => FindArc(e, q) \in Arcs(e, q)
         /\ FindArc(e, q) = 0 => Arcs(e, q) = {}
<1> DEFINE S == {j \in 1..Len(arcs) : arcs[j].fn = e /\ arcs[j].from_pc = q}
<1>1. Len(arcs) \in Nat /\ DOMAIN arcs = 1..Len(arcs)
  BY DEF ListType
<1>2. FindArc(e, q) = IF S # {} THEN Max(S) ELSE 0
  BY DEF FindArc, SelectLastInSeq
<1>3. S # {} => Max(S) \in S
  BY <1>1, LastOf
<1>4. Arcs(e, q) = S
  BY <1>1 DEF Arcs
<1> HIDE DEF S
<1>5. CASE S = {}
  BY <1>1, <1>2, <1>4, <1>5
<1>6. CASE S # {}
  BY <1>1, <1>2, <1>3, <1>4, <1>6 DEF S
<1> QED
  BY <1>5, <1>6

\* What the lists are made of is finite, and their sums are numbers.
LEMMA ListsFinite ==
  ASSUME ListType, NEW f, NEW q
  PROVE  /\ IsFiniteSet(Copies(f, q)) /\ IsFiniteSet(Entries(f))
         /\ IsFiniteSet(Arcs(f, q))
         /\ \A j \in Copies(f, q) : arcs[j].count \in Int
         /\ Recorded(f, q) \in Int
<1>1. /\ Len(arcs) \in Nat /\ DOMAIN arcs = 1..Len(arcs)
      /\ Len(fns) \in Nat /\ DOMAIN fns = 1..Len(fns)
  BY DEF ListType
<1>2. IsFiniteSet(1..Len(arcs)) /\ IsFiniteSet(1..Len(fns))
  BY <1>1, FS_Interval
<1>3. /\ Copies(f, q) \in SUBSET (1..Len(arcs)) /\ Entries(f) \in SUBSET (1..Len(fns))
      /\ Arcs(f, q) \in SUBSET (1..Len(arcs))
  BY <1>1 DEF Copies, Entries, Arcs
<1>4. IsFiniteSet(Copies(f, q)) /\ IsFiniteSet(Entries(f)) /\ IsFiniteSet(Arcs(f, q))
  BY <1>2, <1>3, FS_Subset
<1>5. \A j \in Copies(f, q) : arcs[j].count \in Int
  BY <1>3, ArcTypes
<1> QED
  BY <1>4, <1>5, SumType DEF Recorded

\* What Record does with the lists: nothing else in them changes.
PutIn(f, q, e) ==
  /\ ListType'
  /\ Len(fns) <= Len(fns)' /\ \A j \in 1..Len(fns) : fns'[j] = fns[j]
  /\ \A j \in 1..Len(arcs) : arcs'[j] = arcs[j]
  /\ \A g : Entries(g)' = IF g = f /\ e = 0 THEN Entries(g) \cup {Len(fns) + 1}
                                           ELSE Entries(g)
  /\ \A d, r :
       Arcs(d, r)' = IF r = q /\ d = (IF e = 0 THEN Len(fns) + 1 ELSE e)
                     THEN Arcs(d, r) \cup {Len(arcs) + 1} ELSE Arcs(d, r)
  /\ \A g, r : Copies(g, r)' = IF g = f /\ r = q
                               THEN Copies(g, r) \cup {Len(arcs) + 1}
                               ELSE Copies(g, r)
  /\ \A g, r : Recorded(g, r)' = IF g = f /\ r = q THEN Recorded(g, r) + 1
                                                 ELSE Recorded(g, r)
  /\ Len(fns)' = IF e = 0 THEN Len(fns) + 1 ELSE Len(fns)

\* An arc is put in, with an entry for its function if none was found.
LEMMA RecordStep ==
  ASSUME ListType, NEW m, NEW f \in SelfPcs, NEW q \in FromPcs,
         NEW e \in 0..Len(fns), e # 0 => fns[e] = f,
         Record(m, f, q, e),
         called' \in [{"program", "handler"} -> [Pairs -> Nat]]
  PROVE  PutIn(f, q, e)
<1> DEFINE d0 == IF e = 0 THEN Len(fns) + 1 ELSE e
           new == [fn |-> d0, from_pc |-> q, count |-> 1]
<1>1. /\ Len(arcs) \in Nat /\ DOMAIN arcs = 1..Len(arcs)
      /\ Len(fns) \in Nat /\ DOMAIN fns = 1..Len(fns)
  BY DEF ListType
<1>2. /\ fns' \in Seq(SelfPcs) /\ Len(fns)' = IF e = 0 THEN Len(fns) + 1 ELSE Len(fns)
      /\ Len(fns) <= Len(fns)' /\ DOMAIN fns' = 1..Len(fns)'
      /\ \A j \in 1..Len(fns) : fns'[j] = fns[j]
      /\ e = 0 => fns'[Len(fns) + 1] = f
  BY <1>1 DEF Record, ListType
<1>3. d0 \in 1..Len(fns)' /\ d0 \in Nat /\ fns'[d0] = f
  BY <1>1, <1>2
<1>4. new \in [fn : Nat, from_pc : FromPcs, count : Nat]
  BY <1>3
<1>5. arcs' = Append(arcs, new)
  BY DEF Record
<1>6. /\ arcs' \in Seq([fn : Nat, from_pc : FromPcs, count : Nat])
      /\ Len(arcs)' = Len(arcs) + 1 /\ DOMAIN arcs' = 1..(Len(arcs) + 1)
      /\ \A j \in 1..Len(arcs) : arcs'[j] = arcs[j]
      /\ arcs'[Len(arcs) + 1] = new
  <2> HIDE DEF new
  <2> QED
    BY <1>1, <1>4, <1>5 DEF ListType
<1>7. new.fn = d0 /\ new.from_pc = q /\ new.count = 1
  OBVIOUS
<1> HIDE DEF d0, new
<1>8. \A j \in 1..(Len(arcs) + 1) : j \in 1..Len(arcs) \/ j = Len(arcs) + 1
  BY <1>1
<1>9. \A j \in 1..Len(arcs) : /\ arcs[j].fn \in 1..Len(fns)
                              /\ arcs'[j] = arcs[j] /\ j \in 1..(Len(arcs) + 1)
                              /\ fns'[arcs[j].fn] = fns[arcs[j].fn]
  <2>1. \A j \in 1..Len(arcs) : arcs[j].fn \in 1..Len(fns)
    BY ArcTypes
  <2>2. \A j \in 1..Len(arcs) : j \in 1..(Len(arcs) + 1)
    BY <1>1
  <2>3. \A j \in 1..Len(arcs) : arcs'[j] = arcs[j]
    BY <1>6, Zenon
  <2>4. \A k \in 1..Len(fns) : fns'[k] = fns[k]
    BY <1>2, Zenon
  <2> QED
    BY <2>1, <2>2, <2>3, <2>4, Zenon
<1>10. Len(arcs) + 1 \in 1..(Len(arcs) + 1) /\ Len(arcs) + 1 \notin 1..Len(arcs)
  BY <1>1
<1>11. ListType'
  <2>1. ASSUME NEW j \in 1..Len(arcs)'
        PROVE  arcs'[j].fn \in 1..Len(fns)'
    <3>1. CASE j \in 1..Len(arcs)
      <4>1. arcs'[j].fn \in 1..Len(fns)
        BY <1>9, <3>1
      <4> QED
        BY <1>1, <1>2, <4>1
    <3>2. CASE j = Len(arcs) + 1
      BY <1>3, <1>6, <1>7, <3>2
    <3> QED
      BY <1>6, <1>8, <2>1, <3>1, <3>2
  <2> QED
    BY <1>2, <1>6, <2>1 DEF ListType
<1>12. ASSUME NEW g
       PROVE  Entries(g)' = IF g = f /\ e = 0 THEN Entries(g) \cup {Len(fns) + 1}
                                              ELSE Entries(g)
  BY <1>1, <1>2 DEF Entries
<1>13. ASSUME NEW d, NEW r
       PROVE  Arcs(d, r)' = IF r = q /\ d = d0 THEN Arcs(d, r) \cup {Len(arcs) + 1}
                                               ELSE Arcs(d, r)
  BY <1>1, <1>6, <1>7, <1>8, <1>9, <1>10 DEF Arcs
<1>14. ASSUME NEW g, NEW r
       PROVE  Copies(g, r)' = IF g = f /\ r = q THEN Copies(g, r) \cup {Len(arcs) + 1}
                                                ELSE Copies(g, r)
  <2>1. \A j \in 1..Len(arcs) : /\ fns'[arcs'[j].fn] = fns[arcs[j].fn]
                                /\ arcs'[j].from_pc = arcs[j].from_pc
    BY <1>9
  <2>2. fns'[arcs'[Len(arcs) + 1].fn] = f /\ arcs'[Len(arcs) + 1].from_pc = q
    BY <1>3, <1>6, <1>7
  <2>3. Copies(g, r) = {j \in 1..Len(arcs) : fns[arcs[j].fn] = g /\ arcs[j].from_pc = r}
    BY <1>1 DEF Copies
  <2>4. Copies(g, r)' = {j \in 1..(Len(arcs) + 1) :
                           fns'[arcs'[j].fn] = g /\ arcs'[j].from_pc = r}
    BY <1>6 DEF Copies
  <2>5. 1..(Len(arcs) + 1) = 1..Len(arcs) \cup {Len(arcs) + 1}
    BY <1>1
  <2> QED
    BY <1>10, <2>1, <2>2, <2>3, <2>4, <2>5
<1>15. ASSUME NEW g, NEW r
       PROVE  Recorded(g, r)' = IF g = f /\ r = q THEN Recorded(g, r) + 1
                                                  ELSE Recorded(g, r)
  <2> DEFINE x == Len(arcs) + 1
             old == Copies(g, r)
  <2>1. IsFiniteSet(old) /\ Recorded(g, r) \in Int /\ old \in SUBSET (1..Len(arcs))
    <3>1. old \in SUBSET (1..Len(arcs))
      BY <1>1 DEF Copies
    <3> QED
      BY <3>1, ListsFinite
  <2>2. Sum(arcs', old) = Recorded(g, r)
    <3>1. \A j \in old : arcs'[j].count = arcs[j].count
      BY <1>6, <2>1
    <3>2. Sum(arcs', old) = Sum(arcs, old)
      BY <2>1, <3>1, SumSame, Zenon
    <3> QED
      BY <3>2 DEF Recorded
  <2>3. CASE g = f /\ r = q
    <3>1. Copies(g, r)' = old \cup {x}
      BY <1>14, <2>3
    <3>2. IsFiniteSet(old \cup {x}) /\ x \in old \cup {x}
      BY <2>1, FS_AddElement
    <3>3. (old \cup {x}) \ {x} = old
      BY <1>10, <2>1
    <3>4. \A j \in old \cup {x} : arcs'[j].count \in Int
      <4>1. \A j \in 1..Len(arcs) : arcs[j].count \in Int
        BY ArcTypes
      <4>2. \A j \in old : arcs'[j].count \in Int
        BY <1>6, <2>1, <4>1
      <4>3. arcs'[x].count = 1
        BY <1>6, <1>7
      <4> QED
        BY <4>2, <4>3
    <3>5. Sum(arcs', old \cup {x}) = arcs'[x].count + Sum(arcs', (old \cup {x}) \ {x})
      BY <3>2, <3>4, SumAdd, Zenon
    <3>6. arcs'[x].count = 1
      BY <1>6, <1>7
    <3>7. Recorded(g, r)' = 1 + Recorded(g, r)
      BY <2>2, <3>1, <3>3, <3>5, <3>6 DEF Recorded
    <3> QED
      BY <2>1, <2>3, <3>7
  <2>4. CASE ~(g = f /\ r = q)
    <3>1. Copies(g, r)' = old
      BY <1>14, <2>4
    <3> QED
      BY <2>2, <2>4, <3>1 DEF Recorded
  <2> QED
    BY <2>3, <2>4
<1> QED
  BY <1>2, <1>6, <1>11, <1>12, <1>13, <1>14, <1>15 DEF PutIn, d0

\* What storing a count does with the lists.
Stored(a, v) ==
  /\ ListType'
  /\ Len(arcs)' = Len(arcs)
  /\ \A j \in 1..Len(arcs) : arcs'[j].count = IF j = a THEN v ELSE arcs[j].count
  /\ \A g : Entries(g)' = Entries(g)
  /\ \A d, r : Arcs(d, r)' = Arcs(d, r)
  /\ \A g, r : Copies(g, r)' = Copies(g, r)
  /\ \A g, r : Recorded(g, r)' =
                 IF a \in Copies(g, r) THEN Recorded(g, r) - arcs[a].count + v
                                       ELSE Recorded(g, r)

\* A count is stored.
LEMMA StoreStep ==
  ASSUME ListType, NEW a \in 1..Len(arcs), NEW v \in Nat,
         arcs' = [arcs EXCEPT ![a].count = v], fns' = fns,
         called' \in [{"program", "handler"} -> [Pairs -> Nat]]
  PROVE  Stored(a, v)
<1>1. /\ Len(arcs) \in Nat /\ DOMAIN arcs = 1..Len(arcs)
      /\ Len(fns) \in Nat /\ DOMAIN fns = 1..Len(fns)
      /\ \A j \in 1..Len(arcs) : arcs[j] \in [fn : Nat, from_pc : FromPcs, count : Nat]
  BY ArcTypes
<1>2. \A j \in 1..Len(arcs) : j # a => arcs'[j] = arcs[j]
  BY <1>1
<1>3. arcs'[a] = [arcs[a] EXCEPT !.count = v]
  BY <1>1
<1>4. /\ arcs'[a] \in [fn : Nat, from_pc : FromPcs, count : Nat]
      /\ arcs'[a].fn = arcs[a].fn /\ arcs'[a].from_pc = arcs[a].from_pc
      /\ arcs'[a].count = v
  <2> DEFINE old == arcs[a]
             new == arcs'[a]
  <2>1. old \in [fn : Nat, from_pc : FromPcs, count : Nat]
        /\ new = [old EXCEPT !.count = v]
    BY <1>1, <1>3
  <2> HIDE DEF old, new
  <2>2. /\ new \in [fn : Nat, from_pc : FromPcs, count : Nat]
        /\ new.fn = old.fn /\ new.from_pc = old.from_pc /\ new.count = v
    BY <2>1
  <2> QED
    BY <2>2 DEF old, new
<1>5. /\ DOMAIN arcs' = 1..Len(arcs) /\ Len(arcs)' = Len(arcs)
      /\ arcs' \in Seq([fn : Nat, from_pc : FromPcs, count : Nat])
  <2> DEFINE A == [fn : Nat, from_pc : FromPcs, count : Nat]
             new == arcs'[a]
  <2>1. arcs \in Seq(A) /\ new \in A
    BY <1>4 DEF ListType
  <2>2. arcs' = [arcs EXCEPT ![a] = new]
    BY <1>1, <1>3
  <2> HIDE DEF A, new
  <2>3. arcs' \in Seq(A) /\ Len(arcs') = Len(arcs)
    <3>1. [arcs EXCEPT ![a] = new] \in Seq(A) /\ Len([arcs EXCEPT ![a] = new]) = Len(arcs)
      BY <2>1, ExceptSeq
    <3> QED
      BY <2>2, <3>1, Zenon
  <2>4. DOMAIN arcs' = 1..Len(arcs)
    BY <1>1
  <2> QED
    BY <2>3, <2>4 DEF A
<1>6. ListType'
  BY <1>1, <1>2, <1>4, <1>5 DEF ListType
<1>7. \A g : Entries(g)' = Entries(g)
  BY DEF Entries
<1>8. \A j \in 1..Len(arcs) : arcs'[j].fn = arcs[j].fn /\ arcs'[j].from_pc = arcs[j].from_pc
  BY <1>2, <1>4
<1>9. \A d, r : Arcs(d, r)' = Arcs(d, r)
  BY <1>1, <1>5, <1>8 DEF Arcs
<1>10. \A g, r : Copies(g, r)' = Copies(g, r)
  BY <1>1, <1>5, <1>8 DEF Copies
<1>11. ASSUME NEW g, NEW r
       PROVE  Recorded(g, r)' =
                IF a \in Copies(g, r) THEN Recorded(g, r) - arcs[a].count + v
                                      ELSE Recorded(g, r)
  <2> DEFINE places == Copies(g, r)
             others == places \ {a}
  <2>1. IsFiniteSet(places) /\ Recorded(g, r) \in Int /\ places \in SUBSET (1..Len(arcs))
        /\ \A j \in places : arcs[j].count \in Int
    <3>1. places \in SUBSET (1..Len(arcs))
      BY <1>1 DEF Copies
    <3> QED
      BY <3>1, ListsFinite
  <2>2. \A j \in places : arcs'[j].count \in Int
    BY <1>1, <1>2, <1>4, <2>1
  <2>3. IsFiniteSet(others) /\ \A j \in others : arcs[j].count = arcs'[j].count
    BY <1>2, <2>1, FS_RemoveElement
  <2>4. Sum(arcs, others) = Sum(arcs', others)
    BY <2>3, SumSame, Zenon
  <2>5. Recorded(g, r) = Sum(arcs, places) /\ Recorded(g, r)' = Sum(arcs', places)
    BY <1>10 DEF Recorded
  <2>6. CASE a \in places
    <3>1. Sum(arcs, places) = arcs[a].count + Sum(arcs, others)
      BY <2>1, <2>6, SumAdd, Zenon
    <3>2. Sum(arcs', places) = arcs'[a].count + Sum(arcs', others)
      BY <2>1, <2>2, <2>6, SumAdd, Zenon
    <3>3. Sum(arcs, others) \in Int
      BY <2>1, <2>3, SumType
    <3>4. arcs[a].count \in Int
      BY <2>1, <2>6
    <3>5. Recorded(g, r)' = Recorded(g, r) - arcs[a].count + v
      <4> HIDE DEF places, others
      <4> QED
        BY <1>4, <2>4, <2>5, <3>1, <3>2, <3>3, <3>4
    <3> QED
      BY <2>6, <3>5
  <2>7. CASE a \notin places
    <3>1. others = places
      BY <2>7
    <3> QED
      BY <2>4, <2>5, <2>7, <3>1
  <2> QED
    BY <2>6, <2>7
<1>12. \A j \in 1..Len(arcs) : arcs'[j].count = IF j = a THEN v ELSE arcs[j].count
  BY <1>2, <1>4
<1> QED
  BY <1>5, <1>6, <1>7, <1>9, <1>10, <1>11, <1>12 DEF Stored

-----------------------------------------------------------------------------
(* The steps. *)

\* A call is made.
LEMMA CalledStep ==
  ASSUME ListType, NEW who \in {"program", "handler"}, NEW f \in SelfPcs,
         NEW q \in FromPcs, Counted(who, f, q)
  PROVE  /\ called' \in [{"program", "handler"} -> [Pairs -> Nat]]
         /\ \A w \in {"program", "handler"}, p \in Pairs :
              /\ called[w][p] \in Nat
              /\ called'[w][p] = IF w = who /\ p[1] = f /\ p[2] = q
                                 THEN called[w][p] + 1 ELSE called[w][p]
<1> DEFINE c == <<f, q>>
<1>1. c \in Pairs /\ \A p \in Pairs : p = c <=> p[1] = f /\ p[2] = q
  BY DEF Pairs
<1>2. called \in [{"program", "handler"} -> [Pairs -> Nat]]
  BY DEF ListType
<1>3. called' = [called EXCEPT ![who][c] = @ + 1]
  BY DEF Counted
<1> HIDE DEF c
<1>4. /\ called' \in [{"program", "handler"} -> [Pairs -> Nat]]
      /\ \A w \in {"program", "handler"}, p \in Pairs :
           called'[w][p] = IF w = who /\ p = c THEN called[w][p] + 1 ELSE called[w][p]
  BY <1>1, <1>2, <1>3
<1> QED
  BY <1>1, <1>2, <1>4

\* Where lists and counts don't change, nothing that is said of them does.
LEMMA ListsSame ==
  ASSUME fns' = fns, arcs' = arcs, called' = called
  PROVE  /\ \A g : Entries(g)' = Entries(g)
         /\ \A d, r : Arcs(d, r)' = Arcs(d, r)
         /\ \A g, r : Copies(g, r)' = Copies(g, r)
         /\ \A g, r : Recorded(g, r)' = Recorded(g, r)
         /\ ListType => ListType'
<1>1. \A g, r : Copies(g, r)' = Copies(g, r)
  BY DEF Copies
<1>2. \A g, r : Recorded(g, r)' = Recorded(g, r)
  BY <1>1 DEF Recorded
<1> QED
  BY <1>1, <1>2 DEF Entries, Arcs, ListType

\* What is in a call's registers.
LEMMA CallTypes ==
  ASSUME McountType
  PROVE  /\ Recording \/ mcount.pc = "search" =>
              /\ mcount.self_pc \in SelfPcs /\ mcount.from_pc \in FromPcs
              /\ mcount.fn_entry \in Nat
              /\ mcount \in [pc : {"search", "record", "init", "insert"},
                             self_pc : SelfPcs, from_pc : FromPcs, fn_entry : Nat]
         /\ mcount.pc = "store" =>
              /\ mcount.self_pc \in SelfPcs /\ mcount.from_pc \in FromPcs
              /\ mcount.arc \in Nat /\ mcount.r2 \in Nat
<1>1. CASE mcount = Idle
  BY <1>1 DEF Idle, Recording
<1>2. CASE mcount \in [pc : {"search", "record", "init", "insert"}, self_pc : SelfPcs,
                       from_pc : FromPcs, fn_entry : Nat]
  BY <1>2 DEF Recording
<1>3. CASE mcount \in [pc : {"store"}, arc : Nat, r2 : Nat, self_pc : SelfPcs,
                       from_pc : FromPcs]
  BY <1>3 DEF Recording
<1> QED
  BY <1>1, <1>2, <1>3 DEF McountType

\* Memory for what is put in.
LEMMA RecordMem ==
  ASSUME NEW m, MemType(m), MemInv(m), NEW f, NEW q, NEW e, Record(m, f, q, e)
  PROVE  (MemType(mem) /\ MemInv(mem))'
<1> DEFINE entry == IF e = 0 THEN mcount_allocate(m, EntryBytes) ELSE m
<1>1. MemType(entry) /\ MemInv(entry)
  BY SlabInUse
<1>2. mem' = mcount_allocate(entry, EntryBytes)
  BY DEF Record
<1> HIDE DEF entry
<1>3. MemType(mem') /\ MemInv(mem')
  BY <1>1, <1>2, SlabInUse
<1> QED
  BY <1>3

\* Sets of a place or two.
LEMMA OneMore ==
  ASSUME NEW S, IsFiniteSet(S), NEW x
  PROVE  Cardinality(S) \in Nat /\ Cardinality(S \cup {x}) <= Cardinality(S) + 1
<1>1. Cardinality(S) \in Nat
  BY FS_CardinalityType
<1>2. Cardinality(S \cup {x}) = IF x \in S THEN Cardinality(S) ELSE Cardinality(S) + 1
  BY FS_AddElement
<1> QED
  BY <1>1, <1>2

\* An entry above all others has no arcs yet.
LEMMA NewHasNone ==
  ASSUME ListType, NEW q
  PROVE  Arcs(Len(fns) + 1, q) = {}
<1>1. \A j \in DOMAIN arcs : arcs[j].fn # Len(fns) + 1
  BY ArcTypes
<1> QED
  BY <1>1 DEF Arcs

\* The program puts in what it didn't find.
LEMMA InsertStep ==
  ASSUME ProfilingInv, Insert
  PROVE  ProfilingInv'
<1>0. PICK f, q, e : f = mcount.self_pc /\ q = mcount.from_pc /\ e = mcount.fn_entry
  OBVIOUS
<1>1. /\ ListType /\ McountType /\ FoundInv /\ OnceInv /\ CountInv
      /\ MemType(mem) /\ MemInv(mem) /\ SampleInv /\ Recording
  BY DEF ProfilingInv, Insert, Recording
<1>2. f \in SelfPcs /\ q \in FromPcs /\ e \in Nat
  BY <1>0, <1>1, CallTypes
<1>3. e \in 0..Len(fns) /\ (e # 0 => fns[e] = f)
  BY <1>0, <1>1 DEF FoundInv
<1>4. Record(mem, f, q, e) /\ Counted("program", f, q) /\ mcount' = Idle
      /\ UNCHANGED samplerVars
  BY <1>0 DEF Insert
<1>5. /\ called' \in [{"program", "handler"} -> [Pairs -> Nat]]
      /\ \A w \in {"program", "handler"}, p \in Pairs :
           /\ called[w][p] \in Nat
           /\ called'[w][p] = IF w = "program" /\ p[1] = f /\ p[2] = q
                              THEN called[w][p] + 1 ELSE called[w][p]
  BY <1>1, <1>2, <1>4, CalledStep
<1>6. /\ ListType'
      /\ \A g : Entries(g)' = IF g = f /\ e = 0 THEN Entries(g) \cup {Len(fns) + 1}
                                               ELSE Entries(g)
      /\ \A d, r :
           Arcs(d, r)' = IF r = q /\ d = (IF e = 0 THEN Len(fns) + 1 ELSE e)
                         THEN Arcs(d, r) \cup {Len(arcs) + 1} ELSE Arcs(d, r)
      /\ \A g, r : Recorded(g, r)' = IF g = f /\ r = q THEN Recorded(g, r) + 1
                                                     ELSE Recorded(g, r)
      /\ Len(fns)' = IF e = 0 THEN Len(fns) + 1 ELSE Len(fns)
  <2>1. PutIn(f, q, e)
    BY <1>1, <1>2, <1>3, <1>4, <1>5, RecordStep
  <2> QED
    BY <2>1 DEF PutIn
<1>7. mcount'.pc = "idle" /\ ~Recording'
  BY <1>4 DEF Idle, Recording
<1>8. McountType' /\ FoundInv'
  BY <1>4, <1>7 DEF McountType, FoundInv
<1>9. ASSUME NEW g \in SelfPcs PROVE Cardinality(Entries(g))' <= 2
  <2>1. IsFiniteSet(Entries(g)) /\ Cardinality(Entries(g)) <= 2
    BY <1>1, ListsFinite DEF OnceInv
  <2>2. CASE g = f /\ e = 0
    <3>1. Cardinality(Entries(g)) <= 1
      BY <1>0, <1>1, <2>2 DEF OnceInv
    <3>2. Entries(g)' = Entries(g) \cup {Len(fns) + 1}
      BY <1>6, <2>2
    <3>3. /\ Cardinality(Entries(g)) \in Nat
          /\ Cardinality(Entries(g) \cup {Len(fns) + 1}) <= Cardinality(Entries(g)) + 1
      BY <2>1, OneMore
    <3>4. Cardinality(Entries(g) \cup {Len(fns) + 1}) \in Nat
      BY <2>1, FS_AddElement, FS_CardinalityType
    <3> QED
      BY <3>1, <3>2, <3>3, <3>4
  <2>3. CASE ~(g = f /\ e = 0)
    <3>1. Entries(g)' = Entries(g)
      BY <1>6, <2>3
    <3> QED
      BY <2>1, <3>1
  <2> QED
    BY <2>2, <2>3
<1>10. ASSUME NEW d \in 1..Len(fns)', NEW r \in FromPcs
       PROVE  Cardinality(Arcs(d, r))' <= 2
  <2>1. IsFiniteSet(Arcs(d, r)) /\ Len(fns) \in Nat
    BY <1>1, ListsFinite, ArcTypes
  <2>2. CASE r = q /\ d = (IF e = 0 THEN Len(fns) + 1 ELSE e)
    <3>1. Cardinality(Arcs(d, r)) <= 1
      <4>1. CASE e = 0
        <5>1. Arcs(d, r) = {}
          BY <1>1, <2>2, <4>1, NewHasNone
        <5> QED
          BY <5>1, FS_EmptySet
      <4>2. CASE e # 0
        <5>1. e \in 1..Len(fns)
          BY <1>3, <2>1, <4>2
        <5> QED
          BY <1>0, <1>1, <1>2, <2>2, <4>2, <5>1 DEF OnceInv
      <4> QED
        BY <4>1, <4>2
    <3>2. Arcs(d, r)' = Arcs(d, r) \cup {Len(arcs) + 1}
      BY <1>6, <2>2
    <3>3. /\ Cardinality(Arcs(d, r)) \in Nat
          /\ Cardinality(Arcs(d, r) \cup {Len(arcs) + 1}) <= Cardinality(Arcs(d, r)) + 1
      BY <2>1, OneMore
    <3>4. Cardinality(Arcs(d, r) \cup {Len(arcs) + 1}) \in Nat
      BY <2>1, FS_AddElement, FS_CardinalityType
    <3> QED
      BY <3>1, <3>2, <3>3, <3>4
  <2>3. CASE ~(r = q /\ d = (IF e = 0 THEN Len(fns) + 1 ELSE e))
    <3>1. Arcs(d, r)' = Arcs(d, r)
      BY <1>6, <2>3
    <3>2. Cardinality(Arcs(d, r)) <= 2
      <4>1. CASE d \in 1..Len(fns)
        BY <1>1, <4>1 DEF OnceInv
      <4>2. CASE d = Len(fns) + 1
        <5>1. Arcs(d, r) = {}
          BY <1>1, <4>2, NewHasNone
        <5> QED
          BY <5>1, FS_EmptySet
      <4> QED
        BY <1>6, <2>1, <4>1, <4>2
    <3> QED
      BY <3>1, <3>2
  <2> QED
    BY <2>2, <2>3
<1>11. OnceInv'
  BY <1>7, <1>9, <1>10 DEF OnceInv
<1>12. CountInv'
  <2> SUFFICES ASSUME NEW p \in Pairs
               PROVE  /\ called'["program"][p] <= Recorded(p[1], p[2])'
                      /\ Recorded(p[1], p[2])' <= called'["program"][p] + called'["handler"][p]
                      /\ called'["handler"][p] = 0 =>
                           Recorded(p[1], p[2])' = called'["program"][p]
    BY <1>7 DEF CountInv
  <2>1. /\ called["program"][p] <= Recorded(p[1], p[2])
        /\ Recorded(p[1], p[2]) <= called["program"][p] + called["handler"][p]
        /\ called["handler"][p] = 0 => Recorded(p[1], p[2]) = called["program"][p]
    BY <1>1 DEF CountInv
  <2>2. Recorded(p[1], p[2]) \in Int
    BY <1>1, ListsFinite
  <2>3. Recorded(p[1], p[2])' = IF p[1] = f /\ p[2] = q THEN Recorded(p[1], p[2]) + 1
                                                      ELSE Recorded(p[1], p[2])
    BY <1>6
  <2>4. /\ called["program"][p] \in Nat /\ called["handler"][p] \in Nat
        /\ called'["program"][p] = IF p[1] = f /\ p[2] = q
                                   THEN called["program"][p] + 1 ELSE called["program"][p]
        /\ called'["handler"][p] = called["handler"][p]
    BY <1>5
  <2> QED
    BY <2>1, <2>2, <2>3, <2>4
<1>13. (MemType(mem) /\ MemInv(mem))'
  BY <1>1, <1>4, RecordMem
<1>14. SampleInv'
  BY <1>1, <1>4 DEF SampleInv, samplerVars
<1> QED
  BY <1>6, <1>8, <1>11, <1>12, <1>13, <1>14 DEF ProfilingInv

\* The handler puts in what isn't there.
LEMMA HandlerRecord ==
  ASSUME ProfilingInv, NEW f \in SelfPcs, NEW q \in FromPcs,
         NEW e, e = FindFn(f), FindArc(e, q) = 0,
         NEW m, MemType(m), MemInv(m), Record(m, f, q, e),
         Counted("handler", f, q), mcount' = mcount
  PROVE  /\ ListType' /\ McountType' /\ FoundInv' /\ OnceInv' /\ CountInv'
         /\ (MemType(mem) /\ MemInv(mem))'
<1>1. /\ ListType /\ McountType /\ FoundInv /\ OnceInv /\ CountInv
  BY DEF ProfilingInv
<1>2. /\ e \in 0..Len(fns) /\ (e # 0 => fns[e] = f)
      /\ (e = 0 => Entries(f) = {}) /\ Arcs(e, q) = {}
  BY <1>1, FoundFn, FoundArc
<1>3. /\ called' \in [{"program", "handler"} -> [Pairs -> Nat]]
      /\ \A w \in {"program", "handler"}, p \in Pairs :
           /\ called[w][p] \in Nat
           /\ called'[w][p] = IF w = "handler" /\ p[1] = f /\ p[2] = q
                              THEN called[w][p] + 1 ELSE called[w][p]
  BY <1>1, CalledStep
<1>5. /\ ListType'
      /\ Len(fns) <= Len(fns)' /\ \A j \in 1..Len(fns) : fns'[j] = fns[j]
      /\ \A j \in 1..Len(arcs) : arcs'[j] = arcs[j]
      /\ \A g : Entries(g)' = IF g = f /\ e = 0 THEN Entries(g) \cup {Len(fns) + 1}
                                               ELSE Entries(g)
      /\ \A d, r :
           Arcs(d, r)' = IF r = q /\ d = (IF e = 0 THEN Len(fns) + 1 ELSE e)
                         THEN Arcs(d, r) \cup {Len(arcs) + 1} ELSE Arcs(d, r)
      /\ \A g, r : Copies(g, r)' = IF g = f /\ r = q
                                   THEN Copies(g, r) \cup {Len(arcs) + 1}
                                   ELSE Copies(g, r)
      /\ \A g, r : Recorded(g, r)' = IF g = f /\ r = q THEN Recorded(g, r) + 1
                                                     ELSE Recorded(g, r)
      /\ Len(fns)' = IF e = 0 THEN Len(fns) + 1 ELSE Len(fns)
  <2>1. PutIn(f, q, e)
    BY <1>1, <1>2, <1>3, RecordStep
  <2> QED
    BY <2>1 DEF PutIn
<1>6. McountType' /\ (Recording' <=> Recording)
  BY <1>1 DEF McountType, Recording
<1>7. Len(fns) \in Nat /\ Len(fns)' \in Nat /\ DOMAIN arcs = 1..Len(arcs)
  BY <1>1, <1>5, ArcTypes
<1>8. FoundInv'
  <2>1. ASSUME Recording \/ mcount.pc = "search"
        PROVE  /\ mcount.fn_entry \in 0..Len(fns)'
               /\ mcount.fn_entry # 0 => fns'[mcount.fn_entry] = mcount.self_pc
    <3>1. /\ mcount.fn_entry \in 0..Len(fns)
          /\ mcount.fn_entry # 0 => fns[mcount.fn_entry] = mcount.self_pc
      BY <1>1, <2>1 DEF FoundInv
    <3> QED
      BY <1>5, <1>7, <3>1
  <2>2. ASSUME mcount.pc = "store"
        PROVE  /\ mcount.arc \in Copies(mcount.self_pc, mcount.from_pc)'
               /\ mcount.r2 - 1 <= arcs'[mcount.arc].count
               /\ called'["handler"][<<mcount.self_pc, mcount.from_pc>>] = 0 =>
                    mcount.r2 - 1 = arcs'[mcount.arc].count
    <3>1. /\ mcount.arc \in Copies(mcount.self_pc, mcount.from_pc)
          /\ mcount.r2 - 1 <= arcs[mcount.arc].count
          /\ called["handler"][<<mcount.self_pc, mcount.from_pc>>] = 0 =>
               mcount.r2 - 1 = arcs[mcount.arc].count
      BY <1>1, <2>2 DEF FoundInv
    <3>2. arcs'[mcount.arc] = arcs[mcount.arc]
      BY <1>5, <1>7, <3>1 DEF Copies
    <3>3. <<mcount.self_pc, mcount.from_pc>> \in Pairs
      BY <1>1, <2>2, CallTypes DEF Pairs
    <3>4. called'["handler"][<<mcount.self_pc, mcount.from_pc>>] = 0 =>
            called["handler"][<<mcount.self_pc, mcount.from_pc>>] = 0
      BY <1>3, <3>3
    <3>5. mcount.arc \in Copies(mcount.self_pc, mcount.from_pc)'
      BY <1>5, <3>1
    <3> QED
      BY <3>1, <3>2, <3>4, <3>5
  <2>3. mcount.pc = "search" => mcount.fn_entry # 0
    BY <1>1 DEF FoundInv
  <2>4. (Recording \/ mcount.pc = "search")' <=> (Recording \/ mcount.pc = "search")
    BY <1>6
  <2> QED
    BY <2>1, <2>2, <2>3, <2>4 DEF FoundInv
<1>9. ASSUME NEW g \in SelfPcs
      PROVE  /\ Cardinality(Entries(g))' <= 2
             /\ Recording /\ mcount.fn_entry = 0 /\ mcount.self_pc = g =>
                  Cardinality(Entries(g))' <= 1
  <2>1. CASE g = f /\ e = 0
    <3>1. Entries(g)' = {Len(fns) + 1}
      BY <1>2, <1>5, <2>1
    <3>2. Cardinality(Entries(g)') = 1
      BY <3>1, FS_Singleton
    <3> QED
      BY <3>2
  <2>2. CASE ~(g = f /\ e = 0)
    <3>1. Entries(g)' = Entries(g)
      BY <1>5, <2>2
    <3>2. /\ Cardinality(Entries(g)) <= 2
          /\ Recording /\ mcount.fn_entry = 0 /\ mcount.self_pc = g =>
               Cardinality(Entries(g)) <= 1
      BY <1>1 DEF OnceInv
    <3> QED
      BY <3>1, <3>2
  <2> QED
    BY <2>1, <2>2
<1>10. ASSUME NEW d \in 1..Len(fns)', NEW r \in FromPcs
       PROVE  /\ Cardinality(Arcs(d, r))' <= 2
              /\ Recording /\ mcount.fn_entry = d /\ mcount.from_pc = r =>
                   Cardinality(Arcs(d, r))' <= 1
  <2>1. CASE r = q /\ d = (IF e = 0 THEN Len(fns) + 1 ELSE e)
    <3>1. Arcs(d, r) = {}
      BY <1>1, <1>2, <2>1, NewHasNone
    <3>2. Arcs(d, r)' = {Len(arcs) + 1}
      BY <1>5, <2>1, <3>1
    <3>3. Cardinality(Arcs(d, r)') = 1
      BY <3>2, FS_Singleton
    <3> QED
      BY <3>3
  <2>2. CASE ~(r = q /\ d = (IF e = 0 THEN Len(fns) + 1 ELSE e))
    <3>1. Arcs(d, r)' = Arcs(d, r)
      BY <1>5, <2>2
    <3>2. CASE d \in 1..Len(fns)
      <4>1. /\ Cardinality(Arcs(d, r)) <= 2
            /\ Recording /\ mcount.fn_entry = d /\ mcount.from_pc = r =>
                 Cardinality(Arcs(d, r)) <= 1
        BY <1>1, <3>2 DEF OnceInv
      <4> QED
        BY <3>1, <4>1
    <3>3. CASE d = Len(fns) + 1
      <4>1. Arcs(d, r) = {}
        BY <1>1, <3>3, NewHasNone
      <4>2. Cardinality(Arcs(d, r)') = 0
        BY <3>1, <4>1, FS_EmptySet
      <4> QED
        BY <4>2
    <3> QED
      BY <1>5, <1>7, <3>2, <3>3
  <2> QED
    BY <2>1, <2>2
<1>11. OnceInv'
  BY <1>6, <1>9, <1>10 DEF OnceInv
<1>12. CountInv'
  <2> SUFFICES ASSUME NEW p \in Pairs
               PROVE  /\ called'["program"][p] <= Recorded(p[1], p[2])'
                      /\ Recorded(p[1], p[2])' <= called'["program"][p] + called'["handler"][p]
                      /\ called'["handler"][p] = 0 =>
                           Recorded(p[1], p[2])' = called'["program"][p]
                      /\ mcount.pc = "store" /\ mcount.self_pc = p[1]
                           /\ mcount.from_pc = p[2] =>
                           called'["program"][p]
                             + (arcs'[mcount.arc].count - (mcount.r2 - 1))
                             <= Recorded(p[1], p[2])'
    BY DEF CountInv
  <2>1. /\ called["program"][p] <= Recorded(p[1], p[2])
        /\ Recorded(p[1], p[2]) <= called["program"][p] + called["handler"][p]
        /\ called["handler"][p] = 0 => Recorded(p[1], p[2]) = called["program"][p]
    BY <1>1 DEF CountInv
  <2>2. Recorded(p[1], p[2]) \in Int
    BY <1>1, ListsFinite
  <2>3. Recorded(p[1], p[2])' = IF p[1] = f /\ p[2] = q THEN Recorded(p[1], p[2]) + 1
                                                      ELSE Recorded(p[1], p[2])
    BY <1>5
  <2>4. /\ called["program"][p] \in Nat /\ called["handler"][p] \in Nat
        /\ called'["handler"][p] = IF p[1] = f /\ p[2] = q
                                   THEN called["handler"][p] + 1 ELSE called["handler"][p]
        /\ called'["program"][p] = called["program"][p]
    BY <1>3
  <2>5. ASSUME mcount.pc = "store", mcount.self_pc = p[1], mcount.from_pc = p[2]
        PROVE  called'["program"][p] + (arcs'[mcount.arc].count - (mcount.r2 - 1))
                 <= Recorded(p[1], p[2])'
    <3>1. called["program"][p] + (arcs[mcount.arc].count - (mcount.r2 - 1))
            <= Recorded(p[1], p[2])
      BY <1>1, <2>5 DEF CountInv
    <3>2. mcount.arc \in 1..Len(arcs)
      BY <1>1, <1>7, <2>5 DEF FoundInv, Copies
    <3>3. arcs'[mcount.arc] = arcs[mcount.arc] /\ arcs[mcount.arc].count \in Nat
          /\ mcount.r2 \in Nat
      BY <1>1, <1>5, <2>5, <3>2, ArcTypes, CallTypes
    <3> QED
      BY <2>2, <2>3, <2>4, <3>1, <3>3
  <2> QED
    BY <2>1, <2>2, <2>3, <2>4, <2>5
<1>13. (MemType(mem) /\ MemInv(mem))'
  BY RecordMem
<1> QED
  BY <1>5, <1>6, <1>8, <1>11, <1>12, <1>13

\* Nothing is recorded, and the program's call goes on with what it has found.
LEMMA StillRecording ==
  ASSUME ProfilingInv, Recording, NEW place \in {"init", "insert"},
         mcount' = [mcount EXCEPT !.pc = place],
         fns' = fns, arcs' = arcs, called' = called
  PROVE  ListType' /\ McountType' /\ FoundInv' /\ OnceInv' /\ CountInv'
<1> DEFINE M == [pc : {"search", "record", "init", "insert"}, self_pc : SelfPcs,
                 from_pc : FromPcs, fn_entry : Nat]
<1>1. ListType /\ McountType /\ FoundInv /\ OnceInv /\ CountInv
  BY DEF ProfilingInv
<1>2. mcount \in M
  BY <1>1, CallTypes
<1>3. /\ mcount' \in M /\ mcount'.pc = place /\ mcount'.self_pc = mcount.self_pc
      /\ mcount'.from_pc = mcount.from_pc /\ mcount'.fn_entry = mcount.fn_entry
  BY <1>2
<1>4. McountType'
  BY <1>3 DEF McountType
<1> HIDE DEF M
<1>5. Recording' /\ mcount'.pc # "search" /\ mcount'.pc # "store"
  BY <1>3 DEF Recording
<1>6. FoundInv'
  BY <1>1, <1>3, <1>5 DEF FoundInv
<1>7. OnceInv'
  BY <1>1, <1>3, <1>5, ListsSame DEF OnceInv
<1>8. CountInv'
  BY <1>1, <1>5, ListsSame DEF CountInv
<1> QED
  BY <1>1, <1>4, <1>6, <1>7, <1>8, ListsSame

\* Nothing happens to the lists and the call.
LEMMA ListsStay ==
  ASSUME ProfilingInv, mcount' = mcount, fns' = fns, arcs' = arcs, called' = called
  PROVE  ListType' /\ McountType' /\ FoundInv' /\ OnceInv' /\ CountInv'
<1>1. ListType /\ McountType /\ FoundInv /\ OnceInv /\ CountInv
  BY DEF ProfilingInv
<1>2. McountType' /\ Recording' = Recording
  BY <1>1 DEF McountType, Recording
<1>3. \A g, r : Copies(g, r)' = Copies(g, r)
  BY ListsSame
<1>4. FoundInv'
  BY <1>1, <1>2, <1>3 DEF FoundInv
<1>5. OnceInv'
  BY <1>1, <1>2, ListsSame DEF OnceInv
<1>6. CountInv'
  BY <1>1, ListsSame DEF CountInv
<1> QED
  BY <1>1, <1>2, <1>4, <1>5, <1>6, ListsSame

LEMMA SearchFnStep ==
  ASSUME ProfilingInv, SearchFn
  PROVE  ProfilingInv'
<1>1. /\ ListType /\ McountType /\ FoundInv /\ OnceInv /\ CountInv
      /\ MemType(mem) /\ MemInv(mem) /\ SampleInv
  BY DEF ProfilingInv
<1>2. fns' = fns /\ arcs' = arcs /\ called' = called /\ mem' = mem
      /\ UNCHANGED samplerVars
  BY DEF SearchFn, listVars
<1>3. PICK f \in SelfPcs, q \in FromPcs :
        mcount' = [pc |-> IF FindFn(f) = 0 THEN "record" ELSE "search",
                   self_pc |-> f, from_pc |-> q, fn_entry |-> FindFn(f)]
  BY DEF SearchFn, Pairs
<1> DEFINE e == FindFn(f)
           place == IF e = 0 THEN "record" ELSE "search"
<1>4. /\ e \in 0..Len(fns) /\ (e # 0 => fns[e] = f) /\ (e = 0 => Entries(f) = {})
      /\ e \in Nat /\ Len(fns) \in Nat
  <2>1. Len(fns) \in Nat
    BY <1>1, ArcTypes
  <2> QED
    BY <1>1, <2>1, FoundFn
<1>5. mcount' = [pc |-> place, self_pc |-> f, from_pc |-> q, fn_entry |-> e]
      /\ place \in {"record", "search"} /\ (place = "record" <=> e = 0)
  BY <1>3
<1> HIDE DEF e, place
<1>6. /\ mcount'.pc = place /\ mcount'.self_pc = f /\ mcount'.from_pc = q
      /\ mcount'.fn_entry = e
      /\ mcount' \in [pc : {"search", "record", "init", "insert"}, self_pc : SelfPcs,
                      from_pc : FromPcs, fn_entry : Nat]
  BY <1>4, <1>5
<1>7. McountType'
  BY <1>6 DEF McountType
<1>8. FoundInv'
  BY <1>2, <1>4, <1>5, <1>6 DEF FoundInv, Recording
<1>9. (Recording' => e = 0) /\ mcount'.pc # "store"
  BY <1>5, <1>6 DEF Recording
<1>10. OnceInv'
  <2>1. Recording' => e = 0 /\ Cardinality(Entries(f)) = 0
    BY <1>4, <1>9, FS_EmptySet
  <2>2. \A g \in SelfPcs : /\ Cardinality(Entries(g)) <= 2
                           /\ Recording' /\ f = g => Cardinality(Entries(g)) <= 1
    BY <1>1, <2>1 DEF OnceInv
  <2>3. \A d \in 1..Len(fns), r \in FromPcs : Cardinality(Arcs(d, r)) <= 2
    BY <1>1 DEF OnceInv
  <2> QED
    BY <1>2, <1>4, <1>6, <2>1, <2>2, <2>3, ListsSame DEF OnceInv
<1>11. CountInv'
  BY <1>1, <1>2, <1>9, ListsSame DEF CountInv
<1>12. SampleInv'
  BY <1>1, <1>2 DEF SampleInv, samplerVars
<1>13. ListType'
  BY <1>1, <1>2, ListsSame
<1> QED
  BY <1>1, <1>2, <1>7, <1>8, <1>10, <1>11, <1>12, <1>13 DEF ProfilingInv

LEMMA SearchArcStep ==
  ASSUME ProfilingInv, SearchArc
  PROVE  ProfilingInv'
<1>1. /\ ListType /\ McountType /\ FoundInv /\ OnceInv /\ CountInv
      /\ MemType(mem) /\ MemInv(mem) /\ SampleInv
  BY DEF ProfilingInv
<1>2. fns' = fns /\ arcs' = arcs /\ called' = called /\ mem' = mem
      /\ UNCHANGED samplerVars /\ mcount.pc = "search"
  BY DEF SearchArc, listVars
<1>3. PICK f, q, e, a :
         /\ f = mcount.self_pc /\ q = mcount.from_pc /\ e = mcount.fn_entry
         /\ a = FindArc(e, q)
  OBVIOUS
<1>4. /\ f \in SelfPcs /\ q \in FromPcs /\ e \in Nat
      /\ e \in 0..Len(fns) /\ e # 0 /\ fns[e] = f
      /\ mcount \in [pc : {"search", "record", "init", "insert"}, self_pc : SelfPcs,
                     from_pc : FromPcs, fn_entry : Nat]
  BY <1>1, <1>2, <1>3, CallTypes DEF FoundInv
<1>5. /\ a \in 0..Len(arcs) /\ (a # 0 => a \in Arcs(e, q))
      /\ (a = 0 => Arcs(e, q) = {})
  BY <1>1, <1>3, FoundArc
<1>6. ListType' /\ SampleInv'
  BY <1>1, <1>2, ListsSame DEF SampleInv, samplerVars
<1>7. CASE a = 0
  <2>1. mcount' = [mcount EXCEPT !.pc = "record"]
    BY <1>3, <1>7 DEF SearchArc
  <2>2. /\ mcount'.pc = "record" /\ mcount'.self_pc = f /\ mcount'.from_pc = q
        /\ mcount'.fn_entry = e
        /\ mcount' \in [pc : {"search", "record", "init", "insert"}, self_pc : SelfPcs,
                        from_pc : FromPcs, fn_entry : Nat]
    BY <1>3, <1>4, <2>1
  <2>3. McountType' /\ Recording'
    BY <2>2 DEF McountType, Recording
  <2>4. FoundInv'
    BY <1>2, <1>4, <2>2 DEF FoundInv
  <2>5. OnceInv'
    <3>1. Cardinality(Arcs(e, q)) = 0
      BY <1>5, <1>7, FS_EmptySet
    <3>2. \A g \in SelfPcs : Cardinality(Entries(g)) <= 2
      BY <1>1 DEF OnceInv
    <3>3. \A d \in 1..Len(fns), r \in FromPcs :
            /\ Cardinality(Arcs(d, r)) <= 2
            /\ e = d /\ q = r => Cardinality(Arcs(d, r)) <= 1
      BY <1>1, <3>1 DEF OnceInv
    <3> QED
      BY <1>2, <1>4, <2>2, <3>2, <3>3, ListsSame DEF OnceInv
  <2>6. CountInv'
    BY <1>1, <1>2, <2>2, ListsSame DEF CountInv
  <2> QED
    BY <1>1, <1>2, <1>6, <2>3, <2>4, <2>5, <2>6 DEF ProfilingInv
<1>8. CASE a # 0
  <2>1. mcount' = [pc |-> "store", arc |-> a, r2 |-> arcs[a].count + 1,
                   self_pc |-> f, from_pc |-> q]
    BY <1>3, <1>8 DEF SearchArc
  <2>2. a \in Copies(f, q) /\ a \in 1..Len(arcs)
    BY <1>1, <1>4, <1>5, <1>8, ArcTypes DEF Arcs, Copies
  <2>3. arcs[a].count \in Nat /\ a \in Nat
    BY <1>1, <2>2, ArcTypes
  <2>4. /\ mcount'.pc = "store" /\ mcount'.self_pc = f /\ mcount'.from_pc = q
        /\ mcount'.arc = a /\ mcount'.r2 - 1 = arcs[a].count
        /\ mcount' \in [pc : {"store"}, arc : Nat, r2 : Nat, self_pc : SelfPcs,
                        from_pc : FromPcs]
    BY <1>4, <2>1, <2>3
  <2>5. McountType' /\ ~Recording'
    BY <2>4 DEF McountType, Recording
  <2>6. FoundInv'
    BY <1>2, <2>2, <2>3, <2>4, <2>5, ListsSame DEF FoundInv
  <2>7. OnceInv'
    BY <1>1, <1>2, <2>5, ListsSame DEF OnceInv
  <2>8. CountInv'
    <3> SUFFICES ASSUME NEW p \in Pairs
                 PROVE  /\ called["program"][p] <= Recorded(p[1], p[2])
                        /\ Recorded(p[1], p[2])
                             <= called["program"][p] + called["handler"][p]
                        /\ called["handler"][p] = 0 =>
                             Recorded(p[1], p[2]) = called["program"][p]
                        /\ called["program"][p] + (arcs[a].count - arcs[a].count)
                             <= Recorded(p[1], p[2])
      BY <1>2, <2>4, ListsSame DEF CountInv
    <3>1. called["program"][p] \in Nat
      BY <1>1 DEF ListType
    <3> QED
      BY <1>1, <2>3, <3>1 DEF CountInv
  <2> QED
    BY <1>1, <1>2, <1>6, <2>5, <2>6, <2>7, <2>8 DEF ProfilingInv
<1> QED
  BY <1>7, <1>8

\* The count that was loaded is stored: no more is lost than the handler has
\* counted since.
LEMMA StoreCountStep ==
  ASSUME ProfilingInv, StoreCount
  PROVE  ProfilingInv'
<1>1. /\ ListType /\ McountType /\ FoundInv /\ OnceInv /\ CountInv
      /\ MemType(mem) /\ MemInv(mem) /\ SampleInv
  BY DEF ProfilingInv
<1>2. PICK f, q, a, v : /\ f = mcount.self_pc /\ q = mcount.from_pc
                        /\ a = mcount.arc /\ v = mcount.r2
  OBVIOUS
<1>3. /\ mcount.pc = "store" /\ arcs' = [arcs EXCEPT ![a].count = v] /\ fns' = fns
      /\ mem' = mem /\ Counted("program", f, q) /\ mcount' = Idle
      /\ UNCHANGED samplerVars
  BY <1>2 DEF StoreCount
<1>4. f \in SelfPcs /\ q \in FromPcs /\ v \in Nat
  BY <1>1, <1>2, <1>3, CallTypes
<1>5. /\ a \in Copies(f, q) /\ v - 1 <= arcs[a].count
      /\ called["handler"][<<f, q>>] = 0 => v - 1 = arcs[a].count
  BY <1>1, <1>2, <1>3 DEF FoundInv
<1>6. a \in 1..Len(arcs) /\ arcs[a].count \in Nat
  BY <1>1, <1>5, ArcTypes DEF Copies
<1>7. /\ called' \in [{"program", "handler"} -> [Pairs -> Nat]]
      /\ \A w \in {"program", "handler"}, p \in Pairs :
           /\ called[w][p] \in Nat
           /\ called'[w][p] = IF w = "program" /\ p[1] = f /\ p[2] = q
                              THEN called[w][p] + 1 ELSE called[w][p]
  BY <1>1, <1>3, <1>4, CalledStep
<1>8. /\ ListType'
      /\ \A g : Entries(g)' = Entries(g)
      /\ \A d, r : Arcs(d, r)' = Arcs(d, r)
      /\ \A g, r : Recorded(g, r)' =
                     IF a \in Copies(g, r) THEN Recorded(g, r) - arcs[a].count + v
                                           ELSE Recorded(g, r)
  <2>1. Stored(a, v)
    BY <1>1, <1>3, <1>4, <1>6, <1>7, StoreStep
  <2> QED
    BY <2>1 DEF Stored
<1>9. \A g, r : a \in Copies(g, r) <=> g = f /\ r = q
  BY <1>5 DEF Copies
<1>10. mcount'.pc = "idle" /\ ~Recording'
  BY <1>3 DEF Idle, Recording
<1>11. McountType' /\ FoundInv'
  BY <1>3, <1>10 DEF McountType, FoundInv
<1>12. OnceInv'
  BY <1>1, <1>3, <1>8, <1>10 DEF OnceInv
<1>13. CountInv'
  <2> SUFFICES ASSUME NEW p \in Pairs
               PROVE  /\ called'["program"][p] <= Recorded(p[1], p[2])'
                      /\ Recorded(p[1], p[2])' <= called'["program"][p] + called'["handler"][p]
                      /\ called'["handler"][p] = 0 =>
                           Recorded(p[1], p[2])' = called'["program"][p]
    BY <1>10 DEF CountInv
  <2>1. /\ called["program"][p] <= Recorded(p[1], p[2])
        /\ Recorded(p[1], p[2]) <= called["program"][p] + called["handler"][p]
        /\ called["handler"][p] = 0 => Recorded(p[1], p[2]) = called["program"][p]
        /\ p[1] = f /\ p[2] = q =>
             called["program"][p] + (arcs[a].count - (v - 1)) <= Recorded(p[1], p[2])
    BY <1>1, <1>2, <1>3 DEF CountInv
  <2>2. Recorded(p[1], p[2]) \in Int
    BY <1>1, ListsFinite
  <2>3. Recorded(p[1], p[2])' = IF p[1] = f /\ p[2] = q
                                THEN Recorded(p[1], p[2]) - arcs[a].count + v
                                ELSE Recorded(p[1], p[2])
    BY <1>8, <1>9
  <2>4. /\ called["program"][p] \in Nat /\ called["handler"][p] \in Nat
        /\ called'["program"][p] = IF p[1] = f /\ p[2] = q
                                   THEN called["program"][p] + 1 ELSE called["program"][p]
        /\ called'["handler"][p] = called["handler"][p]
    BY <1>7
  <2>5. p[1] = f /\ p[2] = q => p = <<f, q>>
    BY DEF Pairs
  <2>6. p[1] = f /\ p[2] = q => (called["handler"][p] = 0 => v - 1 = arcs[a].count)
    BY <1>5, <2>5
  <2>7. v - 1 <= arcs[a].count
    BY <1>5
  <2>8. CASE p[1] = f /\ p[2] = q
    <3>1. PICK R, c, n, h : /\ R = Recorded(p[1], p[2]) /\ c = arcs[a].count
                            /\ n = called["program"][p] /\ h = called["handler"][p]
      OBVIOUS
    <3>2. /\ R \in Int /\ c \in Nat /\ n \in Nat /\ h \in Nat
          /\ n <= R /\ R <= n + h /\ (h = 0 => R = n)
          /\ n + (c - (v - 1)) <= R /\ v - 1 <= c /\ (h = 0 => v - 1 = c)
      BY <1>6, <2>1, <2>2, <2>4, <2>6, <2>7, <2>8, <3>1
    <3>3. /\ Recorded(p[1], p[2])' = R - c + v /\ called'["program"][p] = n + 1
          /\ called'["handler"][p] = h
      BY <2>3, <2>4, <2>8, <3>1
    <3> QED
      BY <1>4, <3>2, <3>3
  <2>9. CASE ~(p[1] = f /\ p[2] = q)
    BY <2>1, <2>3, <2>4, <2>9
  <2> QED
    BY <2>8, <2>9
<1>14. SampleInv'
  BY <1>1, <1>3 DEF SampleInv, samplerVars
<1> QED
  BY <1>1, <1>3, <1>8, <1>11, <1>12, <1>13, <1>14 DEF ProfilingInv

\* Memory and flags when the sampler is started, or can't be yet.
LEMMA SamplerStart ==
  ASSUME MemType(mem), MemInv(mem), SampleInv, SamplerInit
  PROVE  MemType(AfterSamplerInit) /\ MemInv(AfterSamplerInit) /\ SampleInv'
<1> DEFINE block == ALT_SBRK(mem, 2 * Histogram)
<1>1. 2 * Histogram \in Nat
  <2>1. /\ TextBytes \in Nat /\ PCSAMPLE_BYTES_PER_BUCKET \in Nat
        /\ PCSAMPLE_BYTES_PER_BUCKET > 0
    BY ProfilingAssumption DEF ProfilingAssumption
  <2>2. TextBytes \div PCSAMPLE_BYTES_PER_BUCKET \in Nat
    BY <2>1
  <2> QED
    BY <2>2 DEF Histogram
<1>2. block.data \in Int
  BY <1>1, SbrkAbove
<1>3. /\ MemType(InUse(block.mem, block.data, 2 * Histogram))
      /\ MemInv(InUse(block.mem, block.data, 2 * Histogram))
  BY <1>1, SbrkInUse
<1>4. MemType(AfterSamplerInit) /\ MemInv(AfterSamplerInit)
  BY <1>3 DEF AfterSamplerInit
<1> HIDE DEF block
<1>5. s_pcsamples' \in Int
  BY <1>2 DEF SamplerInit, SampleInv, block
<1> QED
  BY <1>4, <1>5 DEF SampleInv, SamplerInit

LEMMA TestInitStep ==
  ASSUME ProfilingInv, TestInit
  PROVE  ProfilingInv'
<1>1. MemType(mem) /\ MemInv(mem) /\ SampleInv
  BY DEF ProfilingInv
<1>2. /\ Recording /\ mem' = mem /\ fns' = fns /\ arcs' = arcs /\ called' = called
      /\ UNCHANGED samplerVars
  BY DEF TestInit, Recording, listVars
<1>3. PICK place \in {"init", "insert"} : mcount' = [mcount EXCEPT !.pc = place]
  BY DEF TestInit
<1>4. ListType' /\ McountType' /\ FoundInv' /\ OnceInv' /\ CountInv'
  BY <1>2, <1>3, StillRecording
<1>5. SampleInv'
  BY <1>1, <1>2 DEF SampleInv, samplerVars
<1> QED
  BY <1>1, <1>2, <1>4, <1>5 DEF ProfilingInv

LEMMA InitSamplerStep ==
  ASSUME ProfilingInv, InitSampler
  PROVE  ProfilingInv'
<1>1. MemType(mem) /\ MemInv(mem) /\ SampleInv
  BY DEF ProfilingInv
<1>2. /\ Recording /\ fns' = fns /\ arcs' = arcs /\ called' = called
      /\ mem' = AfterSamplerInit /\ SamplerInit
      /\ mcount' = [mcount EXCEPT !.pc = "insert"]
  BY DEF InitSampler, Recording
<1>3. ListType' /\ McountType' /\ FoundInv' /\ OnceInv' /\ CountInv'
  BY <1>2, StillRecording
<1>4. (MemType(mem) /\ MemInv(mem))' /\ SampleInv'
  BY <1>1, <1>2, SamplerStart
<1> QED
  BY <1>3, <1>4 DEF ProfilingInv

\* The handler counts a call of an arc that is there.
LEMMA HandlerCount ==
  ASSUME ProfilingInv, NEW f \in SelfPcs, NEW q \in FromPcs,
         NEW a, a = FindArc(FindFn(f), q), a # 0,
         arcs' = [arcs EXCEPT ![a].count = @ + 1], fns' = fns,
         Counted("handler", f, q), mcount' = mcount
  PROVE  ListType' /\ McountType' /\ FoundInv' /\ OnceInv' /\ CountInv'
<1>1. ListType /\ McountType /\ FoundInv /\ OnceInv /\ CountInv
  BY DEF ProfilingInv
<1>2. PICK e : e = FindFn(f)
  OBVIOUS
<1>3. e \in 0..Len(fns) /\ (e # 0 => fns[e] = f) /\ a \in Arcs(e, q)
  BY <1>1, <1>2, FoundFn, FoundArc
<1>4. a \in 1..Len(arcs) /\ arcs[a].fn = e /\ arcs[a].from_pc = q
      /\ arcs[a].count \in Nat /\ e \in 1..Len(fns) /\ Len(fns) \in Nat
  BY <1>1, <1>3, ArcTypes DEF Arcs
<1>5. a \in Copies(f, q)
  <2>1. e # 0
    BY <1>4
  <2> QED
    BY <1>1, <1>3, <1>4, <2>1, ArcTypes DEF Copies
<1>6. PICK v \in Nat : v = arcs[a].count + 1
  BY <1>4
<1>7. arcs' = [arcs EXCEPT ![a].count = v]
  BY <1>6
<1>8. /\ called' \in [{"program", "handler"} -> [Pairs -> Nat]]
      /\ \A w \in {"program", "handler"}, p \in Pairs :
           /\ called[w][p] \in Nat
           /\ called'[w][p] = IF w = "handler" /\ p[1] = f /\ p[2] = q
                              THEN called[w][p] + 1 ELSE called[w][p]
  BY <1>1, CalledStep
<1>9. /\ ListType'
      /\ \A j \in 1..Len(arcs) : arcs'[j].count = IF j = a THEN v ELSE arcs[j].count
      /\ \A g : Entries(g)' = Entries(g)
      /\ \A d, r : Arcs(d, r)' = Arcs(d, r)
      /\ \A g, r : Copies(g, r)' = Copies(g, r)
      /\ \A g, r : Recorded(g, r)' =
                     IF a \in Copies(g, r) THEN Recorded(g, r) - arcs[a].count + v
                                           ELSE Recorded(g, r)
  <2>1. Stored(a, v)
    BY <1>1, <1>4, <1>7, <1>8, StoreStep
  <2> QED
    BY <2>1 DEF Stored
<1>10. \A g, r : a \in Copies(g, r) <=> g = f /\ r = q
  BY <1>5 DEF Copies
<1>11. McountType' /\ (Recording' <=> Recording)
  BY <1>1 DEF McountType, Recording
\* The arc whose count the program has loaded.
<1>12. ASSUME mcount.pc = "store"
       PROVE  /\ mcount.self_pc \in SelfPcs /\ mcount.from_pc \in FromPcs
              /\ mcount.arc \in Copies(mcount.self_pc, mcount.from_pc)
              /\ mcount.arc \in 1..Len(arcs) /\ mcount.r2 \in Nat
              /\ arcs[mcount.arc].count \in Nat
              /\ arcs'[mcount.arc].count = IF mcount.arc = a THEN arcs[mcount.arc].count + 1
                                           ELSE arcs[mcount.arc].count
              /\ mcount.r2 - 1 <= arcs[mcount.arc].count
              /\ called["handler"][<<mcount.self_pc, mcount.from_pc>>] = 0 =>
                   mcount.r2 - 1 = arcs[mcount.arc].count
              /\ mcount.arc = a => mcount.self_pc = f /\ mcount.from_pc = q
  <2>1. /\ mcount.self_pc \in SelfPcs /\ mcount.from_pc \in FromPcs /\ mcount.r2 \in Nat
        /\ mcount.arc \in Copies(mcount.self_pc, mcount.from_pc)
        /\ mcount.r2 - 1 <= arcs[mcount.arc].count
        /\ called["handler"][<<mcount.self_pc, mcount.from_pc>>] = 0 =>
             mcount.r2 - 1 = arcs[mcount.arc].count
    BY <1>1, <1>12, CallTypes DEF FoundInv
  <2>2. mcount.arc \in 1..Len(arcs) /\ arcs[mcount.arc].count \in Nat
    BY <1>1, <2>1, ArcTypes DEF Copies
  <2>3. arcs'[mcount.arc].count = IF mcount.arc = a THEN arcs[mcount.arc].count + 1
                                  ELSE arcs[mcount.arc].count
    BY <1>6, <1>9, <2>2
  <2>4. mcount.arc = a => mcount.self_pc = f /\ mcount.from_pc = q
    BY <1>10, <2>1
  <2> QED
    BY <2>1, <2>2, <2>3, <2>4
<1>13. FoundInv'
  <2>1. ASSUME mcount.pc = "store"
        PROVE  /\ mcount.r2 - 1 <= arcs'[mcount.arc].count
               /\ called'["handler"][<<mcount.self_pc, mcount.from_pc>>] = 0 =>
                    mcount.r2 - 1 = arcs'[mcount.arc].count
    <3>1. PICK p : p = <<mcount.self_pc, mcount.from_pc>>
      OBVIOUS
    <3>2. p \in Pairs /\ p[1] = mcount.self_pc /\ p[2] = mcount.from_pc
      BY <1>12, <2>1, <3>1 DEF Pairs
    <3>3. /\ called["handler"][p] \in Nat
          /\ called'["handler"][p] = IF p[1] = f /\ p[2] = q
                                     THEN called["handler"][p] + 1 ELSE called["handler"][p]
      BY <1>8, <3>2
    <3>4. called["handler"][p] = 0 => mcount.r2 - 1 = arcs[mcount.arc].count
      BY <1>12, <2>1, <3>1
    <3>5. called'["handler"][p] = 0 => mcount.r2 - 1 = arcs'[mcount.arc].count
      BY <1>12, <2>1, <3>2, <3>3, <3>4
    <3>6. mcount.r2 - 1 <= arcs'[mcount.arc].count
      BY <1>12, <2>1
    <3> QED
      BY <3>1, <3>5, <3>6
  <2> QED
    BY <1>1, <1>9, <1>11, <1>12, <2>1 DEF FoundInv
<1>14. OnceInv'
  BY <1>1, <1>9, <1>11 DEF OnceInv
<1>15. CountInv'
  <2> SUFFICES ASSUME NEW p \in Pairs
               PROVE  /\ called'["program"][p] <= Recorded(p[1], p[2])'
                      /\ Recorded(p[1], p[2])' <= called'["program"][p] + called'["handler"][p]
                      /\ called'["handler"][p] = 0 =>
                           Recorded(p[1], p[2])' = called'["program"][p]
                      /\ mcount.pc = "store" /\ mcount.self_pc = p[1]
                           /\ mcount.from_pc = p[2] =>
                           called'["program"][p]
                             + (arcs'[mcount.arc].count - (mcount.r2 - 1))
                             <= Recorded(p[1], p[2])'
    BY DEF CountInv
  <2>1. /\ called["program"][p] <= Recorded(p[1], p[2])
        /\ Recorded(p[1], p[2]) <= called["program"][p] + called["handler"][p]
        /\ called["handler"][p] = 0 => Recorded(p[1], p[2]) = called["program"][p]
    BY <1>1 DEF CountInv
  <2>2. Recorded(p[1], p[2]) \in Int
    BY <1>1, ListsFinite
  <2>3. Recorded(p[1], p[2])' = IF p[1] = f /\ p[2] = q THEN Recorded(p[1], p[2]) + 1
                                                      ELSE Recorded(p[1], p[2])
    BY <1>4, <1>6, <1>9, <1>10, <2>2
  <2>4. /\ called["program"][p] \in Nat /\ called["handler"][p] \in Nat
        /\ called'["handler"][p] = IF p[1] = f /\ p[2] = q
                                   THEN called["handler"][p] + 1 ELSE called["handler"][p]
        /\ called'["program"][p] = called["program"][p]
    BY <1>8
  <2>5. ASSUME mcount.pc = "store", mcount.self_pc = p[1], mcount.from_pc = p[2]
        PROVE  called'["program"][p] + (arcs'[mcount.arc].count - (mcount.r2 - 1))
                 <= Recorded(p[1], p[2])'
    <3>1. called["program"][p] + (arcs[mcount.arc].count - (mcount.r2 - 1))
            <= Recorded(p[1], p[2])
      BY <1>1, <2>5 DEF CountInv
    <3>2. PICK x, c, r : /\ x = mcount.arc /\ c = arcs[x].count /\ r = mcount.r2
                         /\ c \in Nat /\ r \in Nat
                         /\ arcs'[x].count = IF x = a THEN c + 1 ELSE c
                         /\ x = a => p[1] = f /\ p[2] = q
      BY <1>12, <2>5
    <3>3. called["program"][p] + (c - (r - 1)) <= Recorded(p[1], p[2])
      BY <3>1, <3>2
    <3>4. called'["program"][p] + (arcs'[x].count - (r - 1)) <= Recorded(p[1], p[2])'
      BY <2>2, <2>3, <2>4, <3>2, <3>3
    <3> QED
      BY <3>2, <3>4
  <2> QED
    BY <2>1, <2>2, <2>3, <2>4, <2>5
<1> QED
  BY <1>9, <1>11, <1>13, <1>14, <1>15

LEMMA HandlerMcountStep ==
  ASSUME ProfilingInv, HandlerMcount
  PROVE  ProfilingInv'
<1>1. MemType(mem) /\ MemInv(mem) /\ SampleInv /\ mcount' = mcount
  BY DEF ProfilingInv, HandlerMcount
<1>2. PICK f \in SelfPcs, q \in FromPcs :
        /\ IF FindArc(FindFn(f), q) # 0
           THEN /\ arcs' = [arcs EXCEPT ![FindArc(FindFn(f), q)].count = @ + 1]
                /\ UNCHANGED <<mem, fns, samplerVars>>
           ELSE IF pcsample_need_init
           THEN /\ SamplerInit
                /\ Record(AfterSamplerInit, f, q, FindFn(f))
           ELSE /\ Record(mem, f, q, FindFn(f))
                /\ UNCHANGED samplerVars
        /\ Counted("handler", f, q)
  BY DEF HandlerMcount, Pairs
<1>3. PICK e, a : e = FindFn(f) /\ a = FindArc(e, q)
  OBVIOUS
<1>4. a = FindArc(FindFn(f), q)
  BY <1>3
<1>5. CASE a # 0
  <2>1. /\ arcs' = [arcs EXCEPT ![a].count = @ + 1] /\ fns' = fns /\ mem' = mem
        /\ UNCHANGED samplerVars /\ Counted("handler", f, q)
    BY <1>2, <1>4, <1>5
  <2>2. ListType' /\ McountType' /\ FoundInv' /\ OnceInv' /\ CountInv'
    BY <1>1, <1>4, <1>5, <2>1, HandlerCount
  <2>3. SampleInv'
    BY <1>1, <2>1 DEF SampleInv, samplerVars
  <2> QED
    BY <1>1, <2>1, <2>2, <2>3 DEF ProfilingInv
<1>6. CASE a = 0 /\ pcsample_need_init
  <2>1. PICK m : m = AfterSamplerInit
    OBVIOUS
  <2>2. SamplerInit /\ Record(m, f, q, e) /\ Counted("handler", f, q)
    BY <1>2, <1>3, <1>4, <1>6, <2>1
  <2>3. MemType(m) /\ MemInv(m) /\ SampleInv'
    BY <1>1, <2>1, <2>2, SamplerStart
  <2>4. /\ ListType' /\ McountType' /\ FoundInv' /\ OnceInv' /\ CountInv'
        /\ (MemType(mem) /\ MemInv(mem))'
    BY <1>1, <1>3, <1>6, <2>2, <2>3, HandlerRecord
  <2> QED
    BY <2>3, <2>4 DEF ProfilingInv
<1>7. CASE a = 0 /\ ~pcsample_need_init
  <2>1. PICK m : m = mem
    OBVIOUS
  <2>2. Record(m, f, q, e) /\ Counted("handler", f, q) /\ UNCHANGED samplerVars
    BY <1>2, <1>3, <1>4, <1>7, <2>1
  <2>3. MemType(m) /\ MemInv(m)
    BY <1>1, <2>1
  <2>4. /\ ListType' /\ McountType' /\ FoundInv' /\ OnceInv' /\ CountInv'
        /\ (MemType(mem) /\ MemInv(mem))'
    BY <1>1, <1>3, <1>7, <2>2, <2>3, HandlerRecord
  <2>5. SampleInv'
    BY <1>1, <2>2 DEF SampleInv, samplerVars
  <2> QED
    BY <2>4, <2>5 DEF ProfilingInv
<1> QED
  BY <1>5, <1>6, <1>7

\* Division with remainder.
LEMMA Divided ==
  ASSUME NEW n \in Nat, NEW k \in Nat, k > 0
  PROVE  n \div k \in Int /\ n % k \in 0..k-1 /\ n = k * (n \div k) + (n % k)
OBVIOUS

\* A sample from the text falls into a bucket that the histogram has.
LEMMA InHistogram ==
  ASSUME NEW n \in Nat, NEW k \in Nat, k > 0, n % k = 0, NEW place \in 0..n-1
  PROVE  place \div k < n \div k
<1> DEFINE d == place \div k
           h == n \div k
<1>1. /\ d \in Int /\ h \in Int /\ place \in Nat
      /\ place = k * d + (place % k) /\ place % k \in 0..k-1
      /\ n = k * h
  <2>1. d \in Int /\ place = k * d + (place % k) /\ place % k \in 0..k-1
    BY Divided
  <2>2. h \in Int /\ n = k * h + (n % k)
    BY Divided
  <2>3. n = k * h
    <3>1. k * h \in Int
      BY <2>2
    <3> HIDE DEF h
    <3> QED
      BY <2>2, <3>1
  <2> QED
    BY <2>1, <2>2, <2>3
<1>2. k * d <= place /\ place < k * h
  <2>1. k * d \in Int /\ place < n
    BY <1>1
  <2> HIDE DEF d, h
  <2> QED
    BY <1>1, <2>1
<1> HIDE DEF d, h
<1>3. ASSUME h <= d
      PROVE  FALSE
  <2>1. k * h <= k * d
    BY <1>1, <1>3
  <2>2. k * h \in Int /\ k * d \in Int
    BY <1>1
  <2> HIDE <1>1
  <2> QED
    BY <1>2, <2>1, <2>2
<1>4. d < h
  BY <1>1, <1>3
<1> QED
  BY <1>4 DEF d, h

LEMMA SampleStep ==
  ASSUME ProfilingInv, nios2_pcsample
  PROVE  ProfilingInv'
<1>1. MemType(mem) /\ MemInv(mem) /\ SampleInv
  BY DEF ProfilingInv
<1>2. /\ mem' = mem /\ fns' = fns /\ arcs' = arcs /\ called' = called
      /\ mcount' = mcount /\ UNCHANGED <<pcsample_need_init, s_pcsamples, clock>>
  BY DEF nios2_pcsample, listVars
<1>3. ListType' /\ McountType' /\ FoundInv' /\ OnceInv' /\ CountInv'
  BY <1>2, ListsStay
<1>4. PICK place \in 0..TextBytes-1 : bucket' = place \div PCSAMPLE_BYTES_PER_BUCKET
  BY DEF nios2_pcsample
<1>5. TextBytes % PCSAMPLE_BYTES_PER_BUCKET = 0 => bucket' < Histogram
  <2>1. TextBytes \in Nat /\ PCSAMPLE_BYTES_PER_BUCKET \in Nat
        /\ PCSAMPLE_BYTES_PER_BUCKET > 0
    BY ProfilingAssumption DEF ProfilingAssumption
  <2> QED
    BY <1>4, <2>1, InHistogram DEF Histogram
<1>6. SampleInv'
  BY <1>1, <1>2, <1>5 DEF SampleInv, Histogram
<1> QED
  BY <1>1, <1>2, <1>3, <1>6 DEF ProfilingInv

LEMMA OtherSteps ==
  ASSUME ProfilingInv, TimerStarts \/ malloc \/ ProfilingEnds \/ UNCHANGED profilingVars
  PROVE  ProfilingInv'
<1>1. MemType(mem) /\ MemInv(mem) /\ SampleInv
  BY DEF ProfilingInv
<1>2. fns' = fns /\ arcs' = arcs /\ called' = called /\ mcount' = mcount
  BY DEF TimerStarts, malloc, ProfilingEnds, profilingVars, listVars
<1>3. ListType' /\ McountType' /\ FoundInv' /\ OnceInv' /\ CountInv'
  BY <1>2, ListsStay
<1>4. CASE TimerStarts
  <2>1. mem' = mem /\ SampleInv'
    BY <1>1, <1>4 DEF TimerStarts, SampleInv, listVars
  <2> QED
    BY <1>1, <1>3, <2>1 DEF ProfilingInv
<1>5. CASE malloc
  <2>1. PICK incr \in Increments :
          mem' = InUse(ALT_SBRK(mem, incr).mem, ALT_SBRK(mem, incr).data, incr)
    BY <1>5 DEF malloc
  <2>2. incr \in Nat
    BY ProfilingAssumption DEF ProfilingAssumption
  <2>3. (MemType(mem) /\ MemInv(mem))'
    BY <1>1, <2>1, <2>2, SbrkInUse
  <2>4. SampleInv'
    BY <1>1, <1>5 DEF malloc, SampleInv, samplerVars
  <2> QED
    BY <1>3, <2>3, <2>4 DEF ProfilingInv
<1>6. CASE ProfilingEnds \/ UNCHANGED profilingVars
  <2>1. mem' = mem /\ SampleInv'
    BY <1>1, <1>6 DEF ProfilingEnds, profilingVars, listVars, samplerVars, SampleInv
  <2> QED
    BY <1>1, <1>3, <2>1 DEF ProfilingInv
<1> QED
  BY <1>4, <1>5, <1>6

LEMMA ProfilingStarts ==
  ASSUME ProfilingInit
  PROVE  ProfilingInv
<1>1. /\ fns = <<>> /\ arcs = <<>> /\ Len(fns) = 0 /\ Len(arcs) = 0
      /\ DOMAIN fns = {} /\ DOMAIN arcs = {}
      /\ called = [who \in {"program", "handler"} |-> [p \in Pairs |-> 0]]
  BY DEF ProfilingInit
<1>2. ListType
  BY <1>1 DEF ListType
<1>3. mcount = Idle /\ mcount.pc = "idle" /\ ~Recording
  BY DEF ProfilingInit, Idle, Recording
<1>4. McountType /\ FoundInv
  BY <1>3 DEF McountType, FoundInv
<1>5. \A g, r : Entries(g) = {} /\ Arcs(g, r) = {} /\ Copies(g, r) = {}
  BY <1>1 DEF Entries, Arcs, Copies
<1>6. OnceInv
  <2>1. Cardinality({}) = 0
    BY FS_EmptySet
  <2>2. \A g, r : Cardinality(Entries(g)) = 0 /\ Cardinality(Arcs(g, r)) = 0
    BY <1>5, <2>1
  <2> QED
    BY <2>2 DEF OnceInv
<1>7. \A g, r : Recorded(g, r) = 0
  <2> TAKE g, r
  <2>1. IsFiniteSet(Copies(g, r)) /\ Copies(g, r) = {}
    BY <1>5, FS_EmptySet
  <2> QED
    BY <2>1, SumStep DEF Recorded
<1>8. CountInv
  BY <1>1, <1>3, <1>7 DEF CountInv
<1>9. MemType(mem) /\ MemInv(mem)
  <2>1. mem = Mem(heap_start, 0, 0, {}, FALSE)
    BY DEF ProfilingInit, Mem
  <2>2. heap_start \in Nat
    BY ProfilingAssumption DEF ProfilingAssumption
  <2> QED
    BY <2>1, <2>2 DEF Mem, MemType, MemInv
<1>10. SampleInv
  <2>1. /\ TextBytes \in Nat /\ TextBytes > 0 /\ PCSAMPLE_BYTES_PER_BUCKET \in Nat
        /\ PCSAMPLE_BYTES_PER_BUCKET > 0
    BY ProfilingAssumption DEF ProfilingAssumption
  <2>2. 0 \div PCSAMPLE_BYTES_PER_BUCKET = 0
    BY <2>1
  <2>3. TextBytes % PCSAMPLE_BYTES_PER_BUCKET = 0 => 0 < Histogram
    BY <2>1, <2>2, InHistogram DEF Histogram
  <2>4. pcsample_need_init \in BOOLEAN /\ clock \in BOOLEAN
    BY DEF ProfilingInit
  <2>5. bucket = 0 /\ s_pcsamples \in Int
    BY DEF ProfilingInit
  <2> QED
    BY <2>3, <2>4, <2>5 DEF SampleInv
<1> QED
  BY <1>2, <1>4, <1>6, <1>8, <1>9, <1>10 DEF ProfilingInv

\* What the program's search found is what it finds, whatever the handler's calls
\* put in between, and what they count.
THEOREM ProfilingInvariant == ProfilingSpec => []ProfilingInv
<1>1. ProfilingInit => ProfilingInv
  BY ProfilingStarts
<1>2. ProfilingInv /\ [ProfilingNext]_profilingVars => ProfilingInv'
  BY SearchFnStep, SearchArcStep, StoreCountStep, TestInitStep, InitSamplerStep,
     InsertStep, HandlerMcountStep, SampleStep, OtherSteps DEF ProfilingNext
<1> QED
  BY <1>1, <1>2, PTL DEF ProfilingSpec

LEMMA InvProfileKept == ProfilingInv => ProfileKept
<1> SUFFICES ASSUME ProfilingInv PROVE ProfileKept
  OBVIOUS
<1>1. /\ ListType /\ McountType /\ FoundInv /\ OnceInv /\ CountInv
      /\ MemType(mem) /\ MemInv(mem) /\ SampleInv
  BY DEF ProfilingInv
<1>2. ASSUME NEW p \in Pairs
      PROVE  LET recorded == MapThenSumSet(LAMBDA j : arcs[j].count, Copies(p[1], p[2]))
             IN  /\ called["program"][p] <= recorded
                 /\ recorded <= called["program"][p] + called["handler"][p]
                 /\ called["handler"][p] = 0 => recorded = called["program"][p]
  <2>1. /\ called["program"][p] <= Recorded(p[1], p[2])
        /\ Recorded(p[1], p[2]) <= called["program"][p] + called["handler"][p]
        /\ called["handler"][p] = 0 => Recorded(p[1], p[2]) = called["program"][p]
    BY <1>1 DEF CountInv
  <2>2. Recorded(p[1], p[2]) = MapThenSumSet(LAMBDA j : arcs[j].count, Copies(p[1], p[2]))
    BY DEF Recorded, Sum, MapThenSumSet, MapThenFoldSet
  <2> QED
    BY <2>1, <2>2
<1>3. ASSUME NEW f \in SelfPcs
      PROVE  Cardinality({j \in DOMAIN fns : fns[j] = f}) <= 2
  BY <1>1 DEF OnceInv, Entries
<1>4. ASSUME NEW a \in DOMAIN arcs
      PROVE  Cardinality({j \in DOMAIN arcs : /\ arcs[j].fn = arcs[a].fn
                                              /\ arcs[j].from_pc = arcs[a].from_pc}) <= 2
  <2>1. arcs[a].fn \in 1..Len(fns) /\ arcs[a].from_pc \in FromPcs
    BY <1>1, ArcTypes
  <2>2. Cardinality(Arcs(arcs[a].fn, arcs[a].from_pc)) <= 2
    BY <1>1, <2>1 DEF OnceInv
  <2> QED
    BY <2>2 DEF Arcs
<1>5. ~mem.short =>
        \A p, q \in mem.pieces :
          p # q => (p[2] <= q[1] \/ q[2] <= p[1]) /\ p[2] <= mem.heap_end
  BY <1>1 DEF MemInv
<1>6. TextBytes % PCSAMPLE_BYTES_PER_BUCKET = 0 => bucket < Histogram
  BY <1>1 DEF SampleInv
<1> QED
  BY <1>2, <1>3, <1>4, <1>5, <1>6 DEF ProfileKept

\* Every call of the program is counted once, among at most two copies of an arc,
\* whenever a handler that calls the same functions comes between; and no two
\* pieces of memory overlap.
THEOREM ProfileAlwaysKept == ProfilingSpec => []ProfileKept
<1>1. ProfilingSpec => []ProfilingInv
  BY ProfilingInvariant
<1> QED
  BY <1>1, InvProfileKept, PTL

-----------------------------------------------------------------------------
(***************************************************************************)
(* The names of devices.                                                   *)
(***************************************************************************)

\* The numbers of a set, counted from the least.
UpTo(S, c) == {d \in S : d <= c}
Rank(S, c) == Cardinality(UpTo(S, c))

LEMMA RankType ==
  ASSUME NEW S \in SUBSET Nat, IsFiniteSet(S), NEW c \in Nat
  PROVE  /\ Rank(S, c) \in 0..Cardinality(S) /\ IsFiniteSet(UpTo(S, c))
         /\ c \in S => Rank(S, c) # 0
<1>1. UpTo(S, c) \in SUBSET S
  BY DEF UpTo
<1>2. IsFiniteSet(UpTo(S, c)) /\ Rank(S, c) <= Cardinality(S)
  BY <1>1, FS_Subset DEF Rank
<1>3. Rank(S, c) \in Nat /\ Cardinality(S) \in Nat
  BY <1>2, FS_CardinalityType DEF Rank
<1>4. c \in S => c \in UpTo(S, c)
  BY DEF UpTo
<1> QED
  BY <1>2, <1>3, <1>4, FS_EmptySet DEF Rank

LEMMA RankGrows ==
  ASSUME NEW S \in SUBSET Nat, IsFiniteSet(S), NEW c \in Nat, NEW d \in Nat, c <= d
  PROVE  /\ Rank(S, c) <= Rank(S, d)
         /\ d \in S /\ c < d => Rank(S, c) < Rank(S, d)
<1>1. UpTo(S, c) \in SUBSET UpTo(S, d)
  <2> SUFFICES ASSUME NEW x \in UpTo(S, c) PROVE x \in UpTo(S, d)
    OBVIOUS
  <2>1. x \in S /\ x \in Nat /\ x <= c
    BY DEF UpTo
  <2>2. x <= d
    BY <2>1
  <2> QED
    BY <2>1, <2>2 DEF UpTo
<1>2. d \in S /\ c < d => d \in UpTo(S, d) /\ d \notin UpTo(S, c)
  BY DEF UpTo
<1>3. IsFiniteSet(UpTo(S, d)) /\ Rank(S, d) \in Nat /\ Rank(S, c) \in Nat
  BY RankType
<1>4. /\ Cardinality(UpTo(S, c)) <= Cardinality(UpTo(S, d))
      /\ Cardinality(UpTo(S, d)) = Cardinality(UpTo(S, c)) => UpTo(S, d) = UpTo(S, c)
  BY <1>1, <1>3, FS_Subset
<1> QED
  BY <1>2, <1>3, <1>4 DEF Rank

\* Every rank is taken.
LEMMA RankTaken ==
  ASSUME NEW S \in SUBSET Nat, IsFiniteSet(S), NEW k \in 1..Cardinality(S)
  PROVE  \E c \in S : Rank(S, c) = k
<1> DEFINE n == Cardinality(S)
           r == [c \in S |-> Rank(S, c)]
<1>1. n \in Nat
  BY FS_CardinalityType
<1>2. \A c \in S : Rank(S, c) \in 1..n
  BY <1>1, RankType
<1>3. \A c, d \in S : Rank(S, c) = Rank(S, d) => c = d
  <2> SUFFICES ASSUME NEW c \in S, NEW d \in S, Rank(S, c) = Rank(S, d), c # d
               PROVE  FALSE
    OBVIOUS
  <2>1. c \in Nat /\ d \in Nat /\ (c < d \/ d < c)
    OBVIOUS
  <2>2. Rank(S, c) \in Nat /\ Rank(S, d) \in Nat
    BY <2>1, RankType
  <2> QED
    BY <2>1, <2>2, RankGrows
<1>4. r \in Injection(S, 1..n)
  BY <1>2, <1>3 DEF Injection, IsInjective
<1>5. IsFiniteSet(1..n) /\ Cardinality(1..n) = n
  BY <1>1, FS_Interval
<1>6. r \in Surjection(S, 1..n)
  BY <1>4, <1>5, FS_Injection
<1> QED
  BY <1>6 DEF Surjection

LEMMA CutsFinite ==
  ASSUME NEW name \in Seq(STRING)
  PROVE  /\ Cuts(name) \in SUBSET Nat /\ IsFiniteSet(Cuts(name))
         /\ Cardinality(Cuts(name)) \in Nat /\ Cuts(name) \subseteq 0..Len(name) + 1
         /\ 0 \in Cuts(name) /\ Len(name) + 1 \in Cuts(name)
         /\ \A z \in 1..Len(name) : z \in Cuts(name) <=> name[z] = "/"
<1>1. Cuts(name) \in SUBSET (0..Len(name) + 1) /\ Len(name) \in Nat
  BY DEF Cuts
<1>2. IsFiniteSet(0..Len(name) + 1)
  BY <1>1, FS_Interval
<1>3. IsFiniteSet(Cuts(name)) /\ Cardinality(Cuts(name)) \in Nat
  BY <1>1, <1>2, FS_Subset, FS_CardinalityType
<1> QED
  BY <1>1, <1>3 DEF Cuts

\* The k-th cut is the one with this rank.
LEMMA CutIs ==
  ASSUME NEW name \in Seq(STRING)
  PROVE  /\ \A k \in 1..Cardinality(Cuts(name)) :
              Cut(name, k) \in Cuts(name) /\ Rank(Cuts(name), Cut(name, k)) = k
         /\ \A c \in Cuts(name) : /\ Rank(Cuts(name), c) \in 1..Cardinality(Cuts(name))
                                  /\ Cut(name, Rank(Cuts(name), c)) = c
<1> DEFINE C == Cuts(name)
<1>1. C \in SUBSET Nat /\ IsFiniteSet(C) /\ Cardinality(C) \in Nat
  BY CutsFinite
<1>2. \A k : Cut(name, k) = CHOOSE c \in C : Rank(C, c) = k
  BY DEF Cut, Rank, UpTo
<1> HIDE DEF C
<1>3. ASSUME NEW k \in 1..Cardinality(C)
      PROVE  Cut(name, k) \in C /\ Rank(C, Cut(name, k)) = k
  <2>1. \E c \in C : Rank(C, c) = k
    BY <1>1, RankTaken
  <2> QED
    BY <1>2, <2>1
<1>4. ASSUME NEW c \in C
      PROVE  Rank(C, c) \in 1..Cardinality(C) /\ Cut(name, Rank(C, c)) = c
  <2>1. Rank(C, c) \in 1..Cardinality(C)
    BY <1>1, RankType
  <2> DEFINE e == Cut(name, Rank(C, c))
  <2>2. e \in C /\ Rank(C, e) = Rank(C, c)
    BY <1>3, <2>1
  <2> HIDE DEF e
  <2>3. e \in Nat /\ c \in Nat
    BY <1>1, <2>2
  <2>4. e = c
    BY <1>1, <2>1, <2>2, <2>3, RankGrows
  <2> QED
    BY <2>1, <2>4 DEF e
<1> QED
  BY <1>3, <1>4 DEF C

LEMMA CutsGrow ==
  ASSUME NEW name \in Seq(STRING), NEW k \in 1..Cardinality(Cuts(name)),
         NEW l \in 1..Cardinality(Cuts(name)), k < l
  PROVE  Cut(name, k) < Cut(name, l)
<1> DEFINE C == Cuts(name)
           c == Cut(name, k)
           d == Cut(name, l)
<1>1. C \in SUBSET Nat /\ IsFiniteSet(C) /\ Cardinality(C) \in Nat
  BY CutsFinite
<1>2. c \in C /\ d \in C /\ Rank(C, c) = k /\ Rank(C, d) = l
  BY CutIs
<1> HIDE DEF C, c, d
<1>3. c \in Nat /\ d \in Nat
  BY <1>1, <1>2
<1>4. d <= c => Rank(C, d) <= Rank(C, c)
  BY <1>1, <1>3, RankGrows
<1>5. c < d
  BY <1>1, <1>2, <1>3, <1>4
<1> QED
  BY <1>5 DEF c, d

\* A step is what is between a cut and the next.
LEMMA StepIs ==
  ASSUME NEW name \in Seq(STRING), NEW k \in 1..Cardinality(Cuts(name)) - 1
  PROVE  LET a == Cut(name, k)
             b == Cut(name, k + 1)
         IN  /\ a \in Nat /\ b \in Nat /\ a < b /\ b <= Len(name) + 1
             /\ Steps(name)[k] \in Seq(STRING) /\ Len(Steps(name)[k]) = b - a - 1
             /\ \A j \in 1..b - a - 1 : Steps(name)[k][j] = name[a + j]
<1> DEFINE a == Cut(name, k)
           b == Cut(name, k + 1)
           s == SubSeq(name, a + 1, b - 1)
<1>1. Cardinality(Cuts(name)) \in Nat /\ Cuts(name) \subseteq 0..Len(name) + 1
      /\ Len(name) \in Nat
  BY CutsFinite
<1>2. k \in 1..Cardinality(Cuts(name)) /\ k + 1 \in 1..Cardinality(Cuts(name)) /\ k < k + 1
  BY <1>1
<1>3. a \in Cuts(name) /\ b \in Cuts(name) /\ a < b
  BY <1>2, CutIs, CutsGrow
<1>4. Steps(name)[k] = s
  BY DEF Steps
<1> HIDE DEF a, b
<1>5. a \in Nat /\ b \in Nat /\ b <= Len(name) + 1
  BY <1>1, <1>3
<1>6. /\ s \in Seq(STRING) /\ Len(s) = b - a - 1
      /\ \A j \in 1..b - a - 1 : s[j] = name[a + j]
  BY <1>1, <1>3, <1>5
<1> QED
  BY <1>3, <1>4, <1>5, <1>6 DEF a, b

LEMMA StepsAre ==
  ASSUME NEW name \in Seq(STRING)
  PROVE  /\ Steps(name) \in Seq(Seq(STRING))
         /\ Len(Steps(name)) = Cardinality(Cuts(name)) - 1
         /\ Len(Steps(name)) \in Nat
<1> DEFINE n == Cardinality(Cuts(name)) - 1
<1>1. n \in Nat
  <2>1. 0 \in Cuts(name) /\ IsFiniteSet(Cuts(name)) /\ Cardinality(Cuts(name)) \in Nat
    BY CutsFinite
  <2> QED
    BY <2>1, FS_EmptySet
<1>2. \A k \in 1..n : Steps(name)[k] \in Seq(STRING)
  BY StepIs
<1>3. DOMAIN Steps(name) = 1..n /\ Steps(name) = [k \in 1..n |-> Steps(name)[k]]
  BY DEF Steps
<1> HIDE DEF n
<1>4. Steps(name) \in [1..n -> Seq(STRING)]
  BY <1>2, <1>3
<1>5. Steps(name) \in Seq(Seq(STRING)) /\ Len(Steps(name)) = n
  BY <1>1, <1>4
<1> QED
  BY <1>1, <1>5 DEF n

\* A character that is no slash lies between two cuts.
LEMMA BetweenCuts ==
  ASSUME NEW name \in Seq(STRING), NEW z \in 1..Len(name), name[z] # "/"
  PROVE  \E k \in 1..Cardinality(Cuts(name)) - 1 : Cut(name, k) < z /\ z < Cut(name, k + 1)
<1> DEFINE C == Cuts(name)
           n == Cardinality(C)
           k == Rank(C, z)
<1>1. /\ C \in SUBSET Nat /\ IsFiniteSet(C) /\ n \in Nat
      /\ 0 \in C /\ Len(name) + 1 \in C /\ z \notin C /\ Len(name) \in Nat
  BY CutsFinite
<1>2. \A l \in 1..n : Cut(name, l) \in C /\ Rank(C, Cut(name, l)) = l
  BY CutIs
<1> HIDE DEF C
<1>3. k \in 1..n - 1
  <2>1. Rank(C, 0) <= Rank(C, z) /\ Rank(C, z) < Rank(C, Len(name) + 1)
    BY <1>1, RankGrows
  <2>2. Rank(C, 0) \in 1..n /\ Rank(C, z) \in Nat /\ Rank(C, Len(name) + 1) \in 0..n
    BY <1>1, RankType
  <2> QED
    BY <1>1, <2>1, <2>2
<1> DEFINE a == Cut(name, k)
           b == Cut(name, k + 1)
<1>4. a \in C /\ Rank(C, a) = k /\ b \in C /\ Rank(C, b) = k + 1
  BY <1>1, <1>2, <1>3
<1> HIDE DEF a, b
<1>5. a \in Nat /\ b \in Nat /\ a # z /\ b # z /\ z \in Nat
  BY <1>1, <1>4
<1>6. (z < a => k < Rank(C, a)) /\ (b <= z => Rank(C, b) <= k)
  BY <1>1, <1>4, <1>5, RankGrows
<1> HIDE DEF k
<1>7. ~(z < a) /\ ~(b <= z)
  BY <1>1, <1>3, <1>4, <1>6
<1> QED
  BY <1>3, <1>5, <1>7 DEF a, b, C

LEMMA PrefixIs ==
  ASSUME NEW S, NEW s \in Seq(S), NEW t \in Seq(S)
  PROVE  IsPrefix(s, t) <=> Len(s) <= Len(t) /\ \A z \in 1..Len(s) : s[z] = t[z]
<1>1. CASE Len(s) <= Len(t)
  <2> DEFINE u == SubSeq(s, 1, Len(s))
             v == SubSeq(t, 1, Len(s))
  <2>1. /\ u \in Seq(S) /\ Len(u) = Len(s) /\ \A z \in 1..Len(s) : u[z] = s[z]
        /\ v \in Seq(S) /\ Len(v) = Len(s) /\ \A z \in 1..Len(s) : v[z] = t[z]
    BY <1>1
  <2>2. IsPrefix(s, t) <=> u = v
    BY <1>1 DEF IsPrefix
  <2> HIDE DEF u, v
  <2>3. u = v <=> \A z \in 1..Len(s) : u[z] = v[z]
    BY <2>1, SeqEqual
  <2> QED
    BY <1>1, <2>1, <2>2, <2>3
<1>2. CASE ~(Len(s) <= Len(t))
  BY <1>2 DEF IsPrefix
<1> QED
  BY <1>1, <1>2

\* What the search compares.
Begins(path, name) ==
  /\ Len(path) <= Len(name) /\ \A z \in 1..Len(path) : path[z] = name[z]
  /\ Len(path) = Len(name) \/ name[Len(path) + 1] = "/"

\* As long as the path's characters are the name's, so are its cuts.
LEMMA SameCuts ==
  ASSUME NEW path \in Seq(STRING), NEW name \in Seq(STRING), Begins(path, name)
  PROVE  /\ Cardinality(Cuts(path)) <= Cardinality(Cuts(name))
         /\ \A k \in 1..Cardinality(Cuts(path)) : Cut(path, k) = Cut(name, k)
<1> DEFINE C == Cuts(path)
           D == Cuts(name)
           len == Len(path)
<1>1. /\ C \in SUBSET Nat /\ IsFiniteSet(C) /\ Cardinality(C) \in Nat
      /\ D \in SUBSET Nat /\ IsFiniteSet(D) /\ Cardinality(D) \in Nat
      /\ len \in Nat /\ Len(name) \in Nat
  BY CutsFinite
<1>2. C = {d \in D : d <= len + 1}
  <2>1. len <= Len(name) /\ \A z \in 1..len : path[z] = name[z]
    BY DEF Begins
  <2>2. len + 1 \in D
    BY <2>1, <1>1 DEF Begins, Cuts
  <2>3. ASSUME NEW d \in 0..len + 1
        PROVE  d \in C <=> d \in D
    <3>1. d = 0 \/ d = len + 1 \/ d \in 1..len
      BY <1>1
    <3>2. CASE d \in 1..len
      BY <1>1, <2>1, <3>2, CutsFinite
    <3> QED
      BY <2>2, <3>1, <3>2, CutsFinite
  <2>4. C \subseteq 0..len + 1
    BY CutsFinite
  <2> HIDE DEF C, D, len
  <2>5. ASSUME NEW d \in D, d <= len + 1 PROVE d \in 0..len + 1
    BY <1>1, <2>5
  <2>6. C \subseteq {d \in D : d <= len + 1}
    BY <1>1, <2>3, <2>4
  <2> QED
    BY <2>3, <2>5, <2>6
<1>3. Cardinality(C) <= Cardinality(D)
  BY <1>1, <1>2, FS_Subset
<1>4. \A c \in C : Rank(C, c) = Rank(D, c)
  <2> SUFFICES ASSUME NEW c \in C PROVE UpTo(C, c) = UpTo(D, c)
    BY DEF Rank
  <2> HIDE DEF C, D, len
  <2>1. c \in Nat /\ c <= len + 1
    BY <1>1, <1>2
  <2>2. ASSUME NEW d \in D, d <= c PROVE d \in C
    <3>1. d <= len + 1
      BY <1>1, <2>1, <2>2
    <3> QED
      BY <1>2, <3>1
  <2>3. C \subseteq D
    BY <1>2
  <2> QED
    BY <2>2, <2>3 DEF UpTo
<1>5. ASSUME NEW k \in 1..Cardinality(C)
      PROVE  Cut(path, k) = Cut(name, k)
  <2>1. Cut(path, k) \in C /\ Rank(C, Cut(path, k)) = k
    BY CutIs
  <2>2. Cut(path, k) \in D /\ Rank(D, Cut(path, k)) = k
    BY <1>2, <1>4, <2>1
  <2> QED
    BY <2>2, CutIs
<1> QED
  BY <1>3, <1>5

LEMMA BegunSteps ==
  ASSUME NEW path \in Seq(STRING), NEW name \in Seq(STRING), Begins(path, name)
  PROVE  IsPrefix(Steps(path), Steps(name))
<1> DEFINE n == Cardinality(Cuts(path))
           m == Cardinality(Cuts(name))
<1>1. n \in Nat /\ m \in Nat /\ n <= m /\ \A k \in 1..n : Cut(path, k) = Cut(name, k)
  BY SameCuts, CutsFinite
<1>2. Len(path) <= Len(name) /\ \A z \in 1..Len(path) : path[z] = name[z]
  BY DEF Begins
<1> HIDE DEF n, m
<1>3. ASSUME NEW k \in 1..n - 1
      PROVE  Steps(path)[k] = Steps(name)[k]
  <2> DEFINE a == Cut(path, k)
             b == Cut(path, k + 1)
             s == Steps(path)[k]
             t == Steps(name)[k]
  <2>1. a = Cut(name, k) /\ b = Cut(name, k + 1) /\ k \in 1..m - 1
    BY <1>1
  <2>2. /\ a \in Nat /\ b \in Nat /\ a < b /\ b <= Len(path) + 1
        /\ s \in Seq(STRING) /\ Len(s) = b - a - 1
        /\ \A j \in 1..b - a - 1 : s[j] = path[a + j]
    BY StepIs DEF n
  <2>3. /\ t \in Seq(STRING) /\ Len(t) = b - a - 1
        /\ \A j \in 1..b - a - 1 : t[j] = name[a + j]
    BY <2>1, StepIs DEF m
  <2> HIDE DEF a, b, s, t
  <2>4. \A j \in 1..b - a - 1 : a + j \in 1..Len(path)
    BY <2>2
  <2>5. \A j \in 1..b - a - 1 : s[j] = t[j]
    BY <1>2, <2>2, <2>3, <2>4
  <2>6. s = t
    BY <2>2, <2>3, <2>5, SeqEqual
  <2> QED
    BY <2>6 DEF s, t
<1>4. /\ Steps(path) \in Seq(Seq(STRING)) /\ Len(Steps(path)) = n - 1
      /\ Steps(name) \in Seq(Seq(STRING)) /\ Len(Steps(name)) = m - 1
  BY StepsAre DEF n, m
<1> QED
  BY <1>1, <1>3, <1>4, PrefixIs

LEMMA FirstCut ==
  ASSUME NEW name \in Seq(STRING)
  PROVE  Cut(name, 1) = 0
<1>1. Cuts(name) \in SUBSET Nat /\ 0 \in Cuts(name)
  BY CutsFinite
<1>2. UpTo(Cuts(name), 0) = {0}
  BY <1>1 DEF UpTo
<1>3. Cardinality({0}) = 1
  BY FS_Singleton
<1> QED
  BY <1>1, <1>2, <1>3, CutIs DEF Rank

\* The cuts lie where they lie in the name, one step after the other.
LEMMA PrefixCuts ==
  ASSUME NEW path \in Seq(STRING), NEW name \in Seq(STRING),
         IsPrefix(Steps(path), Steps(name))
  PROVE  /\ Cardinality(Cuts(path)) <= Cardinality(Cuts(name))
         /\ \A k \in 1..Cardinality(Cuts(path)) - 1 : Steps(path)[k] = Steps(name)[k]
         /\ \A k \in 1..Cardinality(Cuts(path)) : Cut(path, k) = Cut(name, k)
<1> DEFINE n == Cardinality(Cuts(path))
           m == Cardinality(Cuts(name))
           Bad == {k \in 1..n : Cut(path, k) # Cut(name, k)}
<1>1. n \in Nat /\ m \in Nat
  BY CutsFinite
<1>2. n <= m /\ \A k \in 1..n - 1 : Steps(path)[k] = Steps(name)[k]
  BY <1>1, StepsAre, PrefixIs
<1>3. ASSUME Bad # {}
      PROVE  FALSE
  <2>1. Bad \in SUBSET Nat
    BY <1>1
  <2>2. PICK l \in Bad : \A k \in Bad : l <= k
    <3> HIDE DEF Bad
    <3> QED
      BY <1>3, <2>1, Lowest
  <2>3. l # 1
    BY <2>2, FirstCut
  <2> DEFINE k == l - 1
             a == Cut(path, k)
             b == Cut(path, k + 1)
             c == Cut(name, k + 1)
  <2>4. k \in 1..n - 1 /\ k \in 1..m - 1 /\ k \in 1..n /\ ~(l <= k) /\ k + 1 = l
    BY <1>1, <1>2, <2>2, <2>3
  <2>5. a = Cut(name, k) /\ b # c
    BY <2>2, <2>4
  <2>6. Steps(path)[k] = Steps(name)[k]
    BY <1>2, <2>4
  <2>7. a \in Nat /\ b \in Nat /\ Len(Steps(path)[k]) = b - a - 1
    BY <2>4, StepIs
  <2>8. c \in Nat /\ Len(Steps(name)[k]) = c - a - 1
    <3>1. Cut(name, k) \in Nat /\ c \in Nat /\ Len(Steps(name)[k]) = c - Cut(name, k) - 1
      BY <2>4, StepIs
    <3> QED
      BY <2>5, <3>1
  <2> HIDE DEF a, b, c, k
  <2> QED
    BY <2>5, <2>6, <2>7, <2>8
<1> QED
  BY <1>2, <1>3

LEMMA PrefixBegins ==
  ASSUME NEW path \in Seq(STRING), NEW name \in Seq(STRING),
         IsPrefix(Steps(path), Steps(name))
  PROVE  Begins(path, name)
<1> DEFINE n == Cardinality(Cuts(path))
           m == Cardinality(Cuts(name))
<1>1. /\ n \in Nat /\ m \in Nat /\ Len(path) \in Nat /\ Len(name) \in Nat
  BY CutsFinite
<1>2. /\ n <= m /\ \A k \in 1..n - 1 : Steps(path)[k] = Steps(name)[k]
      /\ \A k \in 1..n : Cut(path, k) = Cut(name, k)
  BY PrefixCuts
<1> HIDE DEF n, m
<1>3. \A c \in Cuts(path) : c \in Cuts(name)
  <2> SUFFICES ASSUME NEW c \in Cuts(path) PROVE c \in Cuts(name)
    OBVIOUS
  <2> DEFINE k == Rank(Cuts(path), c)
  <2>1. k \in 1..n /\ Cut(path, k) = c
    BY CutIs DEF n
  <2> HIDE DEF k
  <2>2. k \in 1..m /\ Cut(name, k) = c
    BY <1>1, <1>2, <2>1
  <2> QED
    BY <2>2, CutIs DEF m
<1>4. Len(path) <= Len(name) /\ Len(path) + 1 \in Cuts(name)
  <2>1. Len(path) + 1 \in Cuts(name)
    BY <1>3, CutsFinite
  <2>2. Cuts(name) \subseteq 0..Len(name) + 1
    BY CutsFinite
  <2> QED
    BY <1>1, <2>1, <2>2
<1>5. Len(path) = Len(name) \/ name[Len(path) + 1] = "/"
  BY <1>1, <1>4 DEF Cuts
<1>6. ASSUME NEW z \in 1..Len(path)
      PROVE  path[z] = name[z]
  <2>1. z \in 1..Len(name)
    BY <1>1, <1>4
  <2>2. CASE path[z] = "/"
    <3>1. z \in Cuts(name)
      BY <1>3, <2>2, CutsFinite
    <3> QED
      BY <2>1, <2>2, <3>1, CutsFinite
  <2>3. CASE path[z] # "/"
    <3>1. PICK k \in 1..n - 1 : Cut(path, k) < z /\ z < Cut(path, k + 1)
      BY <2>3, BetweenCuts DEF n
    <3> DEFINE a == Cut(path, k)
               b == Cut(path, k + 1)
    <3>2. a = Cut(name, k) /\ b = Cut(name, k + 1) /\ k \in 1..m - 1
          /\ Steps(path)[k] = Steps(name)[k]
      BY <1>1, <1>2
    <3>3. /\ a \in Nat /\ b \in Nat
          /\ \A j \in 1..b - a - 1 : Steps(path)[k][j] = path[a + j]
      BY StepIs DEF n
    <3>4. \A j \in 1..b - a - 1 : Steps(name)[k][j] = name[a + j]
      BY <3>2, StepIs DEF m
    <3>5. a < z /\ z < b
      BY <3>1
    <3> HIDE DEF a, b
    <3>6. z - a \in 1..b - a - 1 /\ a + (z - a) = z
      BY <3>3, <3>5
    <3> QED
      BY <3>2, <3>3, <3>4, <3>6
  <2> QED
    BY <2>2, <2>3
<1> QED
  BY <1>4, <1>5, <1>6 DEF Begins

\* So a file system's path means the files below it, as its steps do.
LEMMA BeginsIsPrefix ==
  ASSUME NEW path \in Seq(STRING), NEW name \in Seq(STRING)
  PROVE  IsPrefix(Steps(path), Steps(name)) <=> Begins(path, name)
BY BegunSteps, PrefixBegins

Plain == {name \in Seq(STRING) : "NUL" \notin ToSet(name)}

LEMMA PlainIs ==
  ASSUME NEW name \in Plain
  PROVE  /\ name \in Seq(STRING) /\ Len(name) \in Nat
         /\ \A z \in 1..Len(name) : name[z] # "NUL" /\ Char(name, z) = name[z]
         /\ \A z \in Nat : z > Len(name) => Char(name, z) = "NUL"
<1>1. name \in Seq(STRING) /\ Len(name) \in Nat /\ DOMAIN name = 1..Len(name)
  BY DEF Plain
<1>2. \A z \in 1..Len(name) : name[z] # "NUL"
  BY <1>1 DEF Plain, ToSet
<1> QED
  BY <1>1, <1>2 DEF Char

\* Comparing one character more than a name has compares the whole.
LEMMA SameName ==
  ASSUME NEW s \in Plain, NEW t \in Plain
  PROVE  SameBytes(s, t, Len(t) + 1) <=> s = t
<1>1. /\ s \in Seq(STRING) /\ Len(s) \in Nat
      /\ \A z \in 1..Len(s) : s[z] # "NUL" /\ Char(s, z) = s[z]
      /\ \A z \in Nat : z > Len(s) => Char(s, z) = "NUL"
  BY PlainIs
<1>2. /\ t \in Seq(STRING) /\ Len(t) \in Nat
      /\ \A z \in 1..Len(t) : t[z] # "NUL" /\ Char(t, z) = t[z]
      /\ \A z \in Nat : z > Len(t) => Char(t, z) = "NUL"
  BY PlainIs
<1>3. ASSUME SameBytes(s, t, Len(t) + 1)
      PROVE  s = t
  <2>1. \A z \in 1..Len(t) + 1 : Char(s, z) = Char(t, z)
    BY <1>3 DEF SameBytes
  <2>2. Len(t) + 1 \in 1..Len(t) + 1 /\ Len(t) + 1 \in Nat /\ Len(t) + 1 > Len(t)
    BY <1>2
  <2>3. Char(s, Len(t) + 1) = "NUL"
    BY <1>2, <2>1, <2>2
  <2>4. ~(Len(t) + 1 \in 1..Len(s))
    BY <1>1, <2>3
  <2>5. \A z \in 1..Len(t) : ~(z > Len(s))
    <3> SUFFICES ASSUME NEW z \in 1..Len(t), z > Len(s) PROVE FALSE
      OBVIOUS
    <3>1. z \in Nat /\ z \in 1..Len(t) + 1
      BY <1>2
    <3> QED
      BY <1>1, <1>2, <2>1, <3>1
  <2>6. Len(s) = Len(t)
    <3>1. Len(s) <= Len(t)
      BY <1>1, <1>2, <2>4
    <3>2. Len(t) # 0 => Len(t) \in 1..Len(t)
      BY <1>2
    <3> QED
      BY <1>1, <1>2, <2>5, <3>1, <3>2
  <2>7. \A z \in 1..Len(s) : s[z] = t[z]
    <3> SUFFICES ASSUME NEW z \in 1..Len(s) PROVE s[z] = t[z]
      OBVIOUS
    <3>1. z \in 1..Len(t) /\ z \in 1..Len(t) + 1
      BY <1>2, <2>6
    <3> QED
      BY <1>1, <1>2, <2>1, <3>1
  <2> QED
    BY <1>1, <1>2, <2>6, <2>7, SeqEqual
<1> QED
  BY <1>3 DEF SameBytes

\* The path of a mount point, and what the search compares of it.
Path(mount) == IF Last(mount) = "/" THEN Front(mount) ELSE mount
PathLength(mount) == Len(mount) - (IF Last(mount) = "/" THEN 1 ELSE 0)

LEMMA PathIs ==
  ASSUME NEW mount \in Plain, mount # <<>>
  PROVE  /\ Path(mount) \in Seq(STRING) /\ Len(Path(mount)) = PathLength(mount)
         /\ PathLength(mount) \in 0..Len(mount)
         /\ \A z \in 1..PathLength(mount) : Path(mount)[z] = mount[z]
<1>1. mount \in Seq(STRING) /\ Len(mount) \in Nat /\ Len(mount) # 0
  BY PlainIs, EmptySeq
<1>2. CASE Last(mount) = "/"
  <2> DEFINE n == Len(mount) - 1
  <2>1. Path(mount) = SubSeq(mount, 1, n) /\ PathLength(mount) = n
    BY <1>2 DEF Path, PathLength, Front
  <2>2. n \in 0..Len(mount) /\ n \in Nat
    BY <1>1
  <2> HIDE DEF n
  <2>3. /\ SubSeq(mount, 1, n) \in Seq(STRING) /\ Len(SubSeq(mount, 1, n)) = n
        /\ \A z \in 1..n : SubSeq(mount, 1, n)[z] = mount[z]
    BY <1>1, <2>2
  <2> QED
    BY <2>1, <2>2, <2>3
<1>3. CASE Last(mount) # "/"
  BY <1>1, <1>3 DEF Path, PathLength
<1> QED
  BY <1>2, <1>3

LEMMA SameFile ==
  ASSUME NEW mount \in Plain, mount # <<>>, NEW name \in Plain
  PROVE  (/\ Char(name, PathLength(mount) + 1) \in {"/", "NUL"}
          /\ SameBytes(mount, name, PathLength(mount)))
           <=> Mounted(mount, name)
<1> DEFINE path == Path(mount)
           len == PathLength(mount)
<1>1. /\ path \in Seq(STRING) /\ Len(path) = len /\ len \in 0..Len(mount)
      /\ \A z \in 1..len : path[z] = mount[z]
  BY PathIs
<1>2. /\ Len(mount) \in Nat
      /\ \A z \in 1..Len(mount) : mount[z] # "NUL" /\ Char(mount, z) = mount[z]
  BY PlainIs
<1>3. /\ name \in Seq(STRING) /\ Len(name) \in Nat
      /\ \A z \in 1..Len(name) : name[z] # "NUL" /\ Char(name, z) = name[z]
      /\ \A z \in Nat : z > Len(name) => Char(name, z) = "NUL"
  BY PlainIs
<1>4. Mounted(mount, name) <=> Begins(path, name)
  BY <1>1, <1>3, BeginsIsPrefix DEF Mounted, Path
<1> HIDE DEF path, len
<1>5. \A z \in 1..len : z \in Nat /\ path[z] # "NUL" /\ Char(mount, z) = path[z]
  BY <1>1, <1>2
<1>6. SameBytes(mount, name, len)
        <=> len <= Len(name) /\ \A z \in 1..len : path[z] = name[z]
  <2>1. SameBytes(mount, name, len) <=> \A z \in 1..len : path[z] = Char(name, z)
    BY <1>5 DEF SameBytes
  <2>2. ASSUME \A z \in 1..len : path[z] = Char(name, z)
        PROVE  len <= Len(name) /\ \A z \in 1..len : path[z] = name[z]
    <3>1. \A z \in 1..len : ~(z > Len(name))
      BY <1>3, <1>5, <2>2
    <3>2. len # 0 => len \in 1..len
      BY <1>1, <1>2
    <3>3. len <= Len(name)
      BY <1>1, <1>2, <1>3, <3>1, <3>2
    <3>4. \A z \in 1..len : z \in 1..Len(name)
      BY <1>1, <1>2, <1>3, <3>3
    <3> QED
      BY <1>3, <2>2, <3>3, <3>4
  <2>3. ASSUME len <= Len(name), \A z \in 1..len : path[z] = name[z]
        PROVE  \A z \in 1..len : path[z] = Char(name, z)
    <3>1. \A z \in 1..len : z \in 1..Len(name)
      BY <1>1, <1>2, <1>3, <2>3
    <3> QED
      BY <1>3, <2>3, <3>1
  <2> QED
    BY <2>1, <2>2, <2>3
<1>7. ASSUME len <= Len(name)
      PROVE  Char(name, len + 1) \in {"/", "NUL"} <=> len = Len(name) \/ name[len + 1] = "/"
  <2>1. CASE len = Len(name)
    <3>1. len + 1 \in Nat /\ len + 1 > Len(name)
      BY <1>3, <2>1
    <3> QED
      BY <1>3, <2>1, <3>1
  <2>2. CASE len # Len(name)
    <3>1. len + 1 \in 1..Len(name)
      BY <1>1, <1>2, <1>3, <1>7, <2>2
    <3> QED
      BY <1>3, <2>2, <3>1
  <2> QED
    BY <2>1, <2>2
<1>8. Begins(path, name)
        <=> /\ len <= Len(name) /\ \A z \in 1..len : path[z] = name[z]
            /\ len = Len(name) \/ name[len + 1] = "/"
  BY <1>1 DEF Begins
<1>9. (Char(name, len + 1) \in {"/", "NUL"} /\ SameBytes(mount, name, len))
        <=> Begins(path, name)
  BY <1>6, <1>7, <1>8
<1> QED
  BY <1>4, <1>9 DEF len

-----------------------------------------------------------------------------
\* Devices, and lists with the newest in front.
Devs == [name : DeviceNames, unit : Nat]

Descending(list) ==
  \A z, j \in 1..Len(list) : z < j => list[j].unit < list[z].unit

LEMMA ItemsOf ==
  ASSUME NEW S, NEW list \in Seq(S)
  PROVE  /\ Len(list) \in Nat /\ DOMAIN list = 1..Len(list)
         /\ \A z \in 1..Len(list) : list[z] \in S /\ list[z] \in ToSet(list)
         /\ ToSet(list) \subseteq S
BY DEF ToSet

LEMMA DevsAre == \A d \in Devs : d.name \in DeviceNames /\ d.unit \in Nat
BY DEF Devs

LEMMA NoDeviceIs == NoDevice \notin Devs /\ NoDevice.name = NoName
<1>1. NoDevice.unit = -1 /\ -1 \notin Nat /\ NoDevice.name = NoName
  BY DEF NoDevice
<1>2. \A d \in Devs : d.unit \in Nat
  BY DEF Devs
<1> QED
  BY <1>1, <1>2

\* The first that matches is the newest that does.
LEMMA FirstIsNewest ==
  ASSUME NEW list \in Seq(Devs), Descending(list), NEW D \in SUBSET ToSet(list),
         NEW matching, matching = {z \in 1..Len(list) : list[z] \in D}
  PROVE  /\ FirstOf(list, matching) = Newest(D)
         /\ IF D = {} THEN Newest(D) = NoDevice ELSE Newest(D) \in D
         /\ Newest(D) = NoDevice <=> D = {}
<1>1. Len(list) \in Nat /\ DOMAIN list = 1..Len(list)
      /\ \A z \in 1..Len(list) : list[z] \in Devs /\ list[z].unit \in Nat
  BY ItemsOf, DevsAre
<1>2. \A d \in D : d \in Devs /\ \E z \in matching : d = list[z]
  BY <1>1 DEF ToSet
<1>3. CASE D = {}
  <2>1. matching = {}
    BY <1>3
  <2> QED
    BY <1>3, <2>1 DEF FirstOf, Newest
<1>4. CASE D # {}
  <2>1. matching # {} /\ matching \in SUBSET Nat
    BY <1>1, <1>2, <1>4
  <2>2. \E m \in matching : \A n \in matching : m <= n
    BY <2>1, Lowest
  <2> DEFINE m == Min(matching)
  <2>3. m \in matching /\ \A n \in matching : m <= n
    BY <2>2 DEF Min
  <2>4. FirstOf(list, matching) = list[m]
    BY <2>1 DEF FirstOf
  <2> HIDE DEF m
  <2>5. list[m] \in D /\ m \in 1..Len(list)
    BY <2>3
  <2>6. ASSUME NEW e \in D, e # list[m]
        PROVE  e.unit < list[m].unit
    <3>1. PICK j \in matching : e = list[j]
      BY <1>2
    <3>2. j \in 1..Len(list) /\ m < j
      BY <1>1, <2>3, <2>5, <2>6, <3>1
    <3> QED
      BY <2>5, <3>1, <3>2 DEF Descending
  <2>7. \A e \in D : e.unit \in Nat
    BY <1>2 DEF Devs
  <2> DEFINE best(d) == \A e \in D : e.unit <= d.unit
  <2>8. best(list[m])
    BY <2>5, <2>6, <2>7
  <2>9. \A d \in D : best(d) => d = list[m]
    <3> SUFFICES ASSUME NEW d \in D, best(d), d # list[m] PROVE FALSE
      OBVIOUS
    <3>1. list[m].unit <= d.unit
      BY <2>5
    <3>2. d.unit < list[m].unit
      BY <2>6
    <3> QED
      BY <2>5, <2>7, <3>1, <3>2
  <2>10. Newest(D) = CHOOSE d \in D : best(d)
    BY <1>4 DEF Newest
  <2> HIDE DEF best
  <2>11. Newest(D) = list[m]
    BY <2>5, <2>8, <2>9, <2>10
  <2> QED
    BY <1>2, <1>4, <2>4, <2>5, <2>11, NoDeviceIs
<1> QED
  BY <1>3, <1>4

LEMMA NamesPlain ==
  /\ DeviceNames \subseteq Plain /\ FileNames \subseteq Plain
  /\ <<>> \notin DeviceNames /\ NoName \notin DeviceNames
BY DevicesAssumption DEF DevicesAssumption, Plain

\* The devices of a name, and the file systems a file may be in.
Called(list, name) == {d \in ToSet(list) : d.name = name}
Holding(list, name) == {d \in ToSet(list) : Mounted(d.name, name)}

\* The two searches, of a list in this order.
LEMMA FindDevIs ==
  ASSUME NEW list \in Seq(Devs), Descending(list), NEW name \in DeviceNames \cup FileNames
  PROVE  LET D == Called(list, name)
         IN  /\ alt_find_dev(name, list) = Newest(D)
             /\ IF D = {} THEN Newest(D) = NoDevice ELSE Newest(D) \in D
             /\ Newest(D) = NoDevice <=> D = {}
<1> DEFINE D == Called(list, name)
           matching == {z \in 1..Len(list) : SameBytes(list[z].name, name, Len(name) + 1)}
<1>1. \A z \in 1..Len(list) : list[z] \in ToSet(list) /\ list[z].name \in DeviceNames
  BY ItemsOf, DevsAre
<1>2. \A z \in 1..Len(list) : SameBytes(list[z].name, name, Len(name) + 1)
                                <=> list[z].name = name
  BY <1>1, NamesPlain, SameName
<1>3. matching = {z \in 1..Len(list) : list[z] \in D}
  BY <1>1, <1>2 DEF Called
<1>4. alt_find_dev(name, list) = FirstOf(list, matching)
  BY DEF alt_find_dev
<1>5. D \in SUBSET ToSet(list)
  BY DEF Called
<1> HIDE DEF matching, D
<1>6. /\ FirstOf(list, matching) = Newest(D)
      /\ IF D = {} THEN Newest(D) = NoDevice ELSE Newest(D) \in D
      /\ Newest(D) = NoDevice <=> D = {}
  BY <1>3, <1>5, FirstIsNewest
<1>7. alt_find_dev(name, list) = Newest(D)
  BY <1>4, <1>6
<1> QED
  BY <1>6, <1>7 DEF D

LEMMA FindFileIs ==
  ASSUME lists.fs \in Seq(Devs), Descending(lists.fs), NEW name \in FileNames
  PROVE  LET D == Holding(lists.fs, name)
         IN  /\ alt_find_file(name) = Newest(D)
             /\ IF D = {} THEN Newest(D) = NoDevice ELSE Newest(D) \in D
             /\ Newest(D) = NoDevice <=> D = {}
<1> DEFINE list == lists.fs
           D == Holding(list, name)
           Matches(item) == /\ Char(name, PathLength(item.name) + 1) \in {"/", "NUL"}
                            /\ SameBytes(item.name, name, PathLength(item.name))
           matching == {z \in 1..Len(list) : Matches(list[z])}
<1>1. \A z \in 1..Len(list) : list[z] \in ToSet(list) /\ list[z].name \in DeviceNames
  BY ItemsOf, DevsAre
<1>2. \A z \in 1..Len(list) : Matches(list[z]) <=> Mounted(list[z].name, name)
  BY <1>1, NamesPlain, SameFile
<1>3. alt_find_file(name) = FirstOf(list, matching)
  BY DEF alt_find_file, PathLength
<1> HIDE DEF Matches, list, D
<1>4. matching = {z \in 1..Len(list) : list[z] \in D}
  BY <1>1, <1>2 DEF D, Holding
<1>5. D \in SUBSET ToSet(list) /\ list \in Seq(Devs) /\ Descending(list)
  BY DEF D, list, Holding
<1> HIDE DEF matching, D
<1>6. /\ FirstOf(list, matching) = Newest(D)
      /\ IF D = {} THEN Newest(D) = NoDevice ELSE Newest(D) \in D
      /\ Newest(D) = NoDevice <=> D = {}
  BY <1>4, <1>5, FirstIsNewest
<1>7. alt_find_file(name) = Newest(D)
  BY <1>3, <1>6
<1> QED
  BY <1>6, <1>7 DEF D, list

-----------------------------------------------------------------------------
Numbers == {d.unit : d \in UNION {ToSet(lists[kind]) : kind \in Kinds}}

ListsKept ==
  /\ lists \in [Kinds -> Seq(Devs)]
  /\ Units \in Nat /\ Numbers = 0..Units - 1
  /\ \A kind \in Kinds : Descending(lists[kind])

FoundKept ==
  /\ found \in [kind : Handles \cup {"none", "file"},
                name : DeviceNames \cup FileNames \cup {NoName},
                device : Devs \cup {NoDevice}, error : {"none", "ENODEV"}, units : Nat]
  /\ found.units <= Units

\* Units are numbered in the order of their registration, and an answer knows how
\* many there were, so that it stays right when there are more.
DevicesInv == ListsKept /\ FoundKept /\ DevicesFound

\* What DevicesFound says is meant.
There(kind) == {d \in ToSet(lists[kind]) : d.unit < found.units}
NamedSo(kind) == {d \in There(kind) : d.name = found.name}
Meant ==
  IF found.kind # "file" THEN NamedSo(found.kind)
  ELSE IF NamedSo("dev") # {} THEN NamedSo("dev")
  ELSE {d \in There("fs") : Mounted(d.name, found.name)}

FoundMeant ==
  found.kind # "none" =>
    /\ found.device = Newest(Meant)
    /\ found.kind # "flash" /\ Meant = {} => found.error # "none"

LEMMA FoundIsMeant == DevicesFound <=> FoundMeant
BY DEF DevicesFound, FoundMeant, Meant, There, NamedSo

LEMMA KindsAre == Handles \subseteq Kinds /\ "dev" \in Kinds /\ "fs" \in Kinds
BY DEF Handles, Kinds

LEMMA InitKept == DevicesInit => DevicesInv
<1> SUFFICES ASSUME DevicesInit PROVE DevicesInv
  OBVIOUS
<1>1. lists = [kind \in Kinds |-> <<>>]
      /\ found = [kind |-> "none", name |-> NoName, device |-> NoDevice,
                  error |-> "none", units |-> 0]
  BY DEF DevicesInit
<1>2. \A kind \in Kinds : lists[kind] = <<>> /\ ToSet(lists[kind]) = {}
  BY <1>1 DEF ToSet
<1>3. Numbers = {}
  BY <1>2 DEF Numbers
<1>4. Units = 0
  BY <1>3, FS_EmptySet DEF Units, Numbers
<1>5. ListsKept
  <2>1. \A kind \in Kinds : Descending(lists[kind])
    BY <1>2 DEF Descending
  <2>2. lists \in [Kinds -> Seq(Devs)]
    BY <1>1
  <2> QED
    BY <1>3, <1>4, <2>1, <2>2 DEF ListsKept
<1>6. FoundKept
  BY <1>1, <1>4 DEF FoundKept
<1>7. DevicesFound
  BY <1>1 DEF DevicesFound
<1> QED
  BY <1>5, <1>6, <1>7 DEF DevicesInv

LEMMA ListGrows ==
  ASSUME NEW list \in Seq(Devs), NEW new \in Devs, Descending(list),
         \A d \in ToSet(list) : d.unit < new.unit
  PROVE  LET more == <<new>> \o list
         IN  /\ more \in Seq(Devs) /\ Descending(more)
             /\ ToSet(more) = ToSet(list) \cup {new}
<1> DEFINE more == <<new>> \o list
<1>1. /\ more \in Seq(Devs) /\ Len(more) = Len(list) + 1 /\ Len(list) \in Nat
      /\ more[1] = new /\ \A z \in 2..Len(list) + 1 : more[z] = list[z - 1]
  OBVIOUS
<1>2. \A z \in 1..Len(list) : more[z + 1] = list[z]
  BY <1>1
<1> HIDE DEF more
<1>3. ToSet(more) = ToSet(list) \cup {new}
  <2>1. DOMAIN more = 1..Len(list) + 1 /\ DOMAIN list = 1..Len(list)
    BY <1>1
  <2>2. \A z \in 1..Len(list) + 1 : z = 1 \/ z - 1 \in 1..Len(list)
    BY <1>1
  <2>3. \A z \in 1..Len(list) : z + 1 \in 1..Len(list) + 1
    BY <1>1
  <2>4. ToSet(more) \subseteq ToSet(list) \cup {new}
    BY <1>1, <2>1, <2>2 DEF ToSet
  <2>5. 1 \in 1..Len(list) + 1
    BY <1>1
  <2>6. ToSet(list) \cup {new} \subseteq ToSet(more)
    BY <1>1, <1>2, <2>1, <2>3, <2>5 DEF ToSet
  <2> QED
    BY <2>4, <2>6
<1>4. Descending(more)
  <2> SUFFICES ASSUME NEW z \in 1..Len(more), NEW j \in 1..Len(more), z < j
               PROVE  more[j].unit < more[z].unit
    BY DEF Descending
  <2>1. j - 1 \in 1..Len(list) /\ more[j] = list[j - 1]
    BY <1>1
  <2>2. CASE z = 1
    <3>1. list[j - 1] \in ToSet(list)
      BY <2>1 DEF ToSet
    <3> QED
      BY <1>1, <2>1, <2>2, <3>1
  <2>3. CASE z # 1
    <3>1. z - 1 \in 1..Len(list) /\ more[z] = list[z - 1] /\ z - 1 < j - 1
      BY <1>1, <2>3
    <3> QED
      BY <2>1, <3>1 DEF Descending
  <2> QED
    BY <2>2, <2>3
<1> QED
  BY <1>1, <1>3, <1>4 DEF more

LEMMA RegisterKeeps ==
  ASSUME DevicesInv, NEW kind \in Kinds, RegisterDevice(kind)
  PROVE  DevicesInv'
<1>1. PICK name \in DeviceNames :
        lists' = [lists EXCEPT ![kind] = <<[name |-> name, unit |-> Units]>> \o @]
  BY DEF RegisterDevice
<1> DEFINE new == [name |-> name, unit |-> Units]
<1>2. found' = found
  BY DEF RegisterDevice
<1>3. /\ lists \in [Kinds -> Seq(Devs)] /\ Units \in Nat /\ Numbers = 0..Units - 1
      /\ \A k \in Kinds : Descending(lists[k])
  BY DEF DevicesInv, ListsKept
<1>4. \A k \in Kinds : \A d \in ToSet(lists[k]) : d \in Devs /\ d.unit \in Numbers
  <2>1. \A k \in Kinds : \A d \in ToSet(lists[k]) : d \in Devs
    BY <1>3, ItemsOf
  <2> QED
    BY <2>1 DEF Numbers
<1>5. new \in Devs /\ new.unit = Units /\ \A d \in ToSet(lists[kind]) : d.unit < new.unit
  BY <1>3, <1>4 DEF Devs
<1>6. lists'[kind] = <<new>> \o lists[kind] /\ \A k \in Kinds : k # kind => lists'[k] = lists[k]
  BY <1>1, <1>3
<1>7. /\ lists'[kind] \in Seq(Devs) /\ Descending(lists'[kind])
      /\ ToSet(lists'[kind]) = ToSet(lists[kind]) \cup {new}
  BY <1>3, <1>5, <1>6, ListGrows
<1> HIDE DEF new
<1>8. lists' \in [Kinds -> Seq(Devs)] /\ \A k \in Kinds : Descending(lists'[k])
  BY <1>1, <1>3, <1>6, <1>7
<1>9. Numbers' = 0..Units
  <2>1. Numbers' = Numbers \cup {Units}
    <3>1. UNION {ToSet(lists'[k]) : k \in Kinds}
            = (UNION {ToSet(lists[k]) : k \in Kinds}) \cup {new}
      <4>1. \A k \in Kinds : ToSet(lists'[k]) = IF k = kind THEN ToSet(lists[k]) \cup {new}
                                                             ELSE ToSet(lists[k])
        BY <1>6, <1>7
      <4> QED
        BY <4>1
    <3> QED
      BY <1>5, <3>1 DEF Numbers
  <2> QED
    BY <1>3, <2>1
<1>10. Units' = Units + 1
  <2>1. Units' = Cardinality(Numbers')
    BY DEF Units, Numbers
  <2>2. Cardinality(0..Units) = Units + 1
    BY <1>3, FS_Interval
  <2> QED
    BY <1>9, <2>1, <2>2
<1>11. ListsKept'
  <2>1. 0..Units = 0..(Units + 1) - 1
    BY <1>3
  <2> QED
    BY <1>3, <1>8, <1>9, <1>10, <2>1 DEF ListsKept
<1>12. FoundKept' /\ found.units <= Units /\ found.units \in Nat
  <2>1. FoundKept
    BY DEF DevicesInv
  <2>2. found.units \in Nat /\ found.units <= Units
    BY <2>1 DEF FoundKept
  <2>3. found.units <= Units'
    BY <1>3, <1>10, <2>2
  <2> QED
    BY <1>2, <2>1, <2>2, <2>3 DEF FoundKept
<1>13. \A k \in Kinds : There(k)' = There(k)
  <2>1. ~(new.unit < found.units)
    BY <1>3, <1>5, <1>12
  <2> QED
    BY <1>2, <1>6, <1>7, <2>1 DEF There
<1>14. DevicesFound'
  <2>1. found.kind # "none" /\ found.kind # "file" => found.kind \in Kinds
    BY KindsAre DEF DevicesInv, FoundKept
  <2>2. found.kind # "none" => Meant' = Meant
    BY <1>2, <1>13, <2>1, KindsAre DEF Meant, NamedSo
  <2>3. FoundMeant
    BY FoundIsMeant DEF DevicesInv
  <2>4. FoundMeant'
    BY <1>2, <2>2, <2>3 DEF FoundMeant
  <2>5. (DevicesFound <=> FoundMeant)'
    BY FoundIsMeant, PTL
  <2> QED
    BY <2>4, <2>5
<1> QED
  BY <1>11, <1>12, <1>14 DEF DevicesInv

\* Now everything that was registered is there.
LEMMA ThereNow ==
  ASSUME ListsKept, lists' = lists, found'.units = Units, NEW kind \in Kinds
  PROVE  There(kind)' = ToSet(lists[kind])
<1>1. lists[kind] \in Seq(Devs) /\ Units \in Nat /\ Numbers = 0..Units - 1
  BY DEF ListsKept
<1>2. \A d \in ToSet(lists[kind]) : d.unit < Units
  <2>1. \A d \in ToSet(lists[kind]) : d.unit \in Numbers
    BY DEF Numbers
  <2> QED
    BY <1>1, <2>1
<1>3. There(kind)' = {d \in ToSet(lists[kind]) : d.unit < Units}
  BY DEF There
<1> QED
  BY <1>2, <1>3

LEMMA SameLists ==
  ASSUME ListsKept, lists' = lists
  PROVE  ListsKept' /\ Units' = Units
<1>1. Units' = Units /\ Numbers' = Numbers
  BY DEF Units, Numbers
<1> QED
  BY <1>1 DEF ListsKept

LEMMA FindKeeps == DevicesInv /\ FindFile => DevicesInv'
<1> SUFFICES ASSUME DevicesInv, FindFile PROVE DevicesInv'
  OBVIOUS
<1>1. PICK name \in FileNames :
        LET picked == alt_find_dev(name, lists.dev)
            device == IF picked = NoDevice THEN alt_find_file(name) ELSE picked
        IN  /\ found' = Answer("file", name, device,
                               IF device = NoDevice THEN "ENODEV" ELSE "none")
            /\ UNCHANGED lists
  BY DEF FindFile
<1> DEFINE picked == alt_find_dev(name, lists.dev)
           device == IF picked = NoDevice THEN alt_find_file(name) ELSE picked
           D == Called(lists.dev, name)
           F == Holding(lists.fs, name)
           M == IF D # {} THEN D ELSE F
<1>2. lists' = lists /\ ListsKept /\ Units \in Nat
  BY <1>1 DEF DevicesInv, ListsKept
<1>3. /\ found'.kind = "file" /\ found'.name = name /\ found'.device = device
      /\ found'.error = IF device = NoDevice THEN "ENODEV" ELSE "none"
      /\ found'.units = Units
      /\ found' = [kind |-> "file", name |-> name, device |-> device,
                   error |-> IF device = NoDevice THEN "ENODEV" ELSE "none",
                   units |-> Units]
  BY <1>1 DEF Answer
<1>4. /\ lists.dev \in Seq(Devs) /\ Descending(lists.dev)
      /\ lists.fs \in Seq(Devs) /\ Descending(lists.fs)
  BY <1>2, KindsAre DEF ListsKept
<1>5. /\ picked = Newest(D) /\ IF D = {} THEN picked = NoDevice ELSE picked \in D
      /\ picked = NoDevice <=> D = {}
  BY <1>4, FindDevIs
<1>6. LET file == alt_find_file(name)
      IN  /\ file = Newest(F) /\ IF F = {} THEN file = NoDevice ELSE file \in F
          /\ file = NoDevice <=> F = {}
  BY <1>4, FindFileIs
<1>7. \A d \in D \cup F : d \in Devs
  BY <1>4, ItemsOf DEF Called, Holding
<1>8. Meant' = M
  <2>1. There("dev")' = ToSet(lists.dev) /\ There("fs")' = ToSet(lists.fs)
    BY <1>2, <1>3, ThereNow, KindsAre
  <2>2. NamedSo("dev")' = D
    BY <1>3, <2>1 DEF NamedSo, Called
  <2>3. {d \in There("fs")' : Mounted(d.name, found'.name)} = F
    BY <1>3, <2>1 DEF Holding
  <2>4. Meant' = IF found'.kind # "file" THEN NamedSo(found.kind)'
                 ELSE IF NamedSo("dev")' # {} THEN NamedSo("dev")'
                 ELSE {d \in There("fs")' : Mounted(d.name, found'.name)}
    BY DEF Meant
  <2> HIDE DEF D, F, M
  <2>5. Meant' = IF D # {} THEN D ELSE F
    BY <1>3, <2>2, <2>3, <2>4
  <2> QED
    BY <2>5 DEF M
<1>9. device = Newest(M) /\ (device = NoDevice <=> M = {}) /\ device \in Devs \cup {NoDevice}
  <2> HIDE DEF picked, D, F
  <2> QED
    BY <1>5, <1>6, <1>7
<1> HIDE DEF device, M
<1>10. FoundMeant'
  <2>1. M = {} => found'.error = "ENODEV"
    BY <1>3, <1>9
  <2> QED
    BY <1>3, <1>8, <1>9, <2>1 DEF FoundMeant
<1>11. (DevicesFound <=> FoundMeant)'
  BY FoundIsMeant, PTL
<1>12. ListsKept' /\ Units' = Units
  BY <1>2, SameLists
<1>13. FoundKept'
  BY <1>2, <1>3, <1>9, <1>12 DEF FoundKept
<1> QED
  BY <1>10, <1>11, <1>12, <1>13 DEF DevicesInv

LEMMA OpenKeeps ==
  ASSUME DevicesInv, NEW kind \in Handles, OpenHandle(kind)
  PROVE  DevicesInv'
<1>1. PICK name \in DeviceNames :
        LET picked == alt_find_dev(name, lists[kind])
        IN  /\ found' = Answer(kind, name, picked,
                               IF picked = NoDevice /\ kind # "flash" THEN "ENODEV" ELSE "none")
            /\ UNCHANGED lists
  BY DEF OpenHandle
<1> DEFINE picked == alt_find_dev(name, lists[kind])
           D == Called(lists[kind], name)
<1>2. lists' = lists /\ ListsKept /\ Units \in Nat
  BY <1>1 DEF DevicesInv, ListsKept
<1>3. /\ found'.kind = kind /\ found'.name = name /\ found'.device = picked
      /\ found'.error = IF picked = NoDevice /\ kind # "flash" THEN "ENODEV" ELSE "none"
      /\ found'.units = Units
      /\ found' = [kind |-> kind, name |-> name, device |-> picked,
                   error |-> IF picked = NoDevice /\ kind # "flash" THEN "ENODEV" ELSE "none",
                   units |-> Units]
  BY <1>1 DEF Answer
<1>4. lists[kind] \in Seq(Devs) /\ Descending(lists[kind]) /\ kind \in Kinds
      /\ kind # "file" /\ kind # "none"
  BY <1>2, KindsAre DEF ListsKept, Handles
<1>5. /\ picked = Newest(D) /\ IF D = {} THEN picked = NoDevice ELSE picked \in D
      /\ picked = NoDevice <=> D = {}
  BY <1>4, FindDevIs
<1>6. \A d \in D : d \in Devs
  BY <1>4, ItemsOf DEF Called
<1>7. Meant' = D
  <2>1. There(kind)' = ToSet(lists[kind])
    BY <1>2, <1>3, <1>4, ThereNow
  <2>2. NamedSo(kind)' = D
    BY <1>3, <2>1 DEF NamedSo, Called
  <2>3. Meant' = NamedSo(kind)'
    BY <1>3, <1>4 DEF Meant, NamedSo, There
  <2> QED
    BY <2>2, <2>3
<1> HIDE DEF picked, D
<1>8. FoundMeant'
  <2>1. kind # "flash" /\ D = {} => found'.error = "ENODEV"
    BY <1>3, <1>5
  <2> QED
    BY <1>3, <1>5, <1>7, <2>1 DEF FoundMeant
<1>9. (DevicesFound <=> FoundMeant)'
  BY FoundIsMeant, PTL
<1>10. ListsKept' /\ Units' = Units
  BY <1>2, SameLists
<1>11. FoundKept'
  BY <1>2, <1>3, <1>5, <1>6, <1>10 DEF FoundKept
<1> QED
  BY <1>8, <1>9, <1>10, <1>11 DEF DevicesInv

\* A request changes nothing but whether it was refused.
LEMMA AskKeeps == DevicesInv /\ (AskChannel \/ AskUnchecked) => DevicesInv'
<1> SUFFICES ASSUME DevicesInv, AskChannel \/ AskUnchecked PROVE DevicesInv'
  OBVIOUS
<1>1. lists' = lists /\ ListsKept /\ FoundKept /\ FoundMeant
  BY FoundIsMeant DEF DevicesInv, AskChannel, AskUnchecked
<1>2. PICK error \in {"none", "ENODEV"} :
        /\ found' = [found EXCEPT !.error = error]
        /\ found.kind # "flash" /\ error = "none" => found.device # NoDevice
        /\ found.kind \in Handles
  <2>1. CASE AskChannel
    BY <2>1 DEF AskChannel, Handles
  <2>2. CASE AskUnchecked
    BY <2>2 DEF AskUnchecked, Handles
  <2> QED
    BY <2>1, <2>2
<1>3. found.kind # "none" /\ found.kind # "file"
  BY <1>2 DEF Handles
<1>4. /\ found'.kind = found.kind /\ found'.name = found.name
      /\ found'.device = found.device /\ found'.units = found.units
      /\ found'.error = error
  BY <1>1, <1>2 DEF FoundKept
<1>5. Meant' = Meant
  BY <1>1, <1>4 DEF Meant, NamedSo, There
<1>6. FoundMeant'
  <2>1. Meant = {} => found.device = NoDevice
    BY <1>1, <1>3 DEF FoundMeant, Newest
  <2> QED
    BY <1>1, <1>2, <1>3, <1>4, <1>5, <2>1 DEF FoundMeant
<1>7. (DevicesFound <=> FoundMeant)'
  BY FoundIsMeant, PTL
<1>8. ListsKept' /\ Units' = Units
  BY <1>1, SameLists
<1>9. FoundKept'
  BY <1>1, <1>2, <1>8 DEF FoundKept
<1> QED
  BY <1>6, <1>7, <1>8, <1>9 DEF DevicesInv

LEMMA CloseKeeps == DevicesInv /\ CloseHandle => DevicesInv'
<1> SUFFICES ASSUME DevicesInv, CloseHandle PROVE DevicesInv'
  OBVIOUS
<1>1. /\ lists' = lists /\ ListsKept /\ Units \in Nat
      /\ found' = [kind |-> "none", name |-> NoName, device |-> NoDevice,
                   error |-> "none", units |-> Units]
  BY DEF DevicesInv, CloseHandle, Answer, ListsKept
<1>2. ListsKept' /\ Units' = Units
  BY <1>1, SameLists
<1>3. FoundKept'
  BY <1>1, <1>2 DEF FoundKept
<1>4. DevicesFound'
  BY <1>1 DEF DevicesFound
<1> QED
  BY <1>2, <1>3, <1>4 DEF DevicesInv

\* Lists are as they were filled, and what was found is what was meant.
THEOREM DevicesInvariant == DevicesSpec => []DevicesInv
<1>1. ASSUME DevicesInv, DevicesNext PROVE DevicesInv'
  <2>1. CASE \E kind \in Kinds : RegisterDevice(kind)
    BY <1>1, <2>1, RegisterKeeps
  <2>2. CASE FindFile
    BY <1>1, <2>2, FindKeeps
  <2>3. CASE \E kind \in Handles : OpenHandle(kind)
    BY <1>1, <2>3, OpenKeeps
  <2>4. CASE AskChannel \/ AskUnchecked
    BY <1>1, <2>4, AskKeeps
  <2>5. CASE CloseHandle
    BY <1>1, <2>5, CloseKeeps
  <2> QED
    BY <1>1, <2>1, <2>2, <2>3, <2>4, <2>5 DEF DevicesNext
<1>2. DevicesInv /\ UNCHANGED devicesVars => DevicesInv'
  <2> SUFFICES ASSUME DevicesInv, UNCHANGED devicesVars PROVE DevicesInv'
    OBVIOUS
  <2>1. lists' = lists /\ found' = found
    BY DEF devicesVars
  <2>2. ListsKept' /\ Units' = Units
    BY <2>1, SameLists DEF DevicesInv
  <2>3. FoundKept'
    BY <2>1, <2>2 DEF DevicesInv, FoundKept
  <2>4. DevicesFound'
    BY <2>1 DEF DevicesInv, DevicesFound
  <2> QED
    BY <2>2, <2>3, <2>4 DEF DevicesInv
<1> QED
  BY <1>1, <1>2, InitKept, PTL DEF DevicesSpec

\* A name means the newest device that has it, a file the newest file system
\* mounted at or above it, for any names, devices and number of them; and what was
\* found stays the same whatever is registered later.
THEOREM DevicesAlwaysFound == DevicesSpec => []DevicesFound
<1>1. DevicesInv => DevicesFound
  BY DEF DevicesInv
<1> QED
  BY <1>1, DevicesInvariant, PTL
=============================================================================
