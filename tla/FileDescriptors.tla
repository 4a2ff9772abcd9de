--------------------------- MODULE FileDescriptors ---------------------------
(***************************************************************************)
(* The HAL's file descriptors: open, close, the exclusive lock of a device *)
(* (TIOCEXCL), fcntl, and the redirection of the standard descriptors at   *)
(* start-up, by several threads.  The semaphore alt_fd_list_lock protects  *)
(* the search for a free descriptor and the granting of a lock; everything *)
(* else reads and writes the table without it.  Every look at an entry of  *)
(* the table is a step.                                                    *)
(*                                                                         *)
(* The flags of an entry are a set: ALT_FD_DEV, ALT_FD_EXCL, and those of  *)
(* open().                                                                 *)
(***************************************************************************)
EXTENDS Integers, FiniteSets

CONSTANTS
  Threads, Main,    \* the threads; Main runs alt_main
  ALT_MAX_FD,
  Devices,          \* registered with alt_dev_reg
  FileSystems,      \* registered with alt_fs_reg
  alt_dev_null, Stdio, \* two of Devices; Stdio is ALT_STDIN, _STDOUT, _STDERR
  NoDev,            \* a null pointer
  Nobody,           \* no thread
  Openable, OpenModes \* bounds: what the threads open, and how

ASSUME FilesAssumption ==
  /\ Main \in Threads /\ Nobody \notin Threads
  /\ ALT_MAX_FD \in Nat /\ ALT_MAX_FD > 3
  /\ alt_dev_null \in Devices /\ Stdio \in Devices /\ Stdio # alt_dev_null
  /\ Openable \subseteq (Devices \cup FileSystems) \ {Stdio, alt_dev_null}
  /\ OpenModes \subseteq {"O_RDONLY", "O_WRONLY", "O_RDWR"}
  /\ Devices \cap FileSystems = {} /\ NoDev \notin Devices \cup FileSystems

Fds == 0..ALT_MAX_FD-1
StdFds == 0..2
Targets == Devices \cup FileSystems
AccessModes == {"O_RDONLY", "O_WRONLY", "O_RDWR"}

VARIABLES
  alt_fd_list,      \* [dev, fd_flags] of every descriptor
  alt_max_fd,       \* the highest ever allocated
  alt_fd_list_lock, \* the thread that has the semaphore, or Nobody
  pc,               \* where each thread's call stands
  i, fd,            \* its loop counter, the descriptor it works on
  want,             \* what an open asks for: [dev, mode]
  replaces,         \* the standard descriptor an open is meant to replace, or -1
  booted,           \* how many standard descriptors alt_main has dealt with
  held,             \* who opened each descriptor and how: [by, dev, mode]
  lockedAt          \* alt_max_fd when a descriptor was locked

table == <<alt_fd_list, alt_max_fd>>
history == <<held, lockedAt>>
filesVars == <<table, alt_fd_list_lock, pc, i, fd, want, replaces, booted,
               history>>

Free == [dev |-> NoDev, fd_flags |-> {}]
NotHeld == [by |-> Nobody, dev |-> NoDev, mode |-> "O_RDONLY"]

dev(f) == alt_fd_list[f].dev
fd_flags(f) == alt_fd_list[f].fd_flags

At(t, label) == pc[t] = label
GoTo(t, label) == pc' = [pc EXCEPT ![t] = label]

NoWant == [dev |-> alt_dev_null, mode |-> "O_RDONLY"]

\* The call returns: its locals are gone.
Return(t) ==
  /\ GoTo(t, "idle")
  /\ i' = [i EXCEPT ![t] = 0] /\ fd' = [fd EXCEPT ![t] = 0]
  /\ want' = [want EXCEPT ![t] = NoWant]
  /\ replaces' = [replaces EXCEPT ![t] = -1]
  /\ booted' = IF replaces[t] >= 0 THEN booted + 1 ELSE booted

-----------------------------------------------------------------------------
(* open *)

Begin_open(t, d, mode, std) ==
  /\ want' = [want EXCEPT ![t] = [dev |-> d, mode |-> mode]]
  /\ replaces' = [replaces EXCEPT ![t] = std]
  /\ GoTo(t, "get_fd")
  /\ UNCHANGED <<table, alt_fd_list_lock, i, fd, history>>

\* A thread opens a name that belongs to a device or a file system.
Open(t) ==
  /\ At(t, "idle") /\ booted = 3
  /\ \E d \in Openable, mode \in OpenModes : Begin_open(t, d, mode, -1)
  /\ UNCHANGED booted

GetFdPend(t) ==
  /\ At(t, "get_fd") /\ alt_fd_list_lock = Nobody
  /\ alt_fd_list_lock' = t
  /\ i' = [i EXCEPT ![t] = 0]
  /\ GoTo(t, "search")
  /\ UNCHANGED <<table, fd, want, replaces, booted, history>>

\* Looks at the next entry.
GetFdSkip(t) ==
  /\ At(t, "search") /\ i[t] < ALT_MAX_FD /\ dev(i[t]) # NoDev
  /\ i' = [i EXCEPT ![t] = @ + 1]
  /\ UNCHANGED <<table, alt_fd_list_lock, pc, fd, want, replaces, booted,
                 history>>

GetFdTake(t) ==
  /\ At(t, "search") /\ i[t] < ALT_MAX_FD /\ dev(i[t]) = NoDev
  /\ alt_fd_list' = [alt_fd_list EXCEPT ![i[t]].dev = want[t].dev]
  /\ alt_max_fd' = IF i[t] > alt_max_fd THEN i[t] ELSE alt_max_fd
  /\ alt_fd_list_lock' = Nobody
  /\ fd' = [fd EXCEPT ![t] = i[t]]
  /\ GoTo(t, "set_flags")
  /\ UNCHANGED <<i, want, replaces, booted, history>>

\* The table is full: EMFILE.
GetFdNone(t) ==
  /\ At(t, "search") /\ i[t] = ALT_MAX_FD
  /\ alt_fd_list_lock' = Nobody
  /\ Return(t)
  /\ UNCHANGED <<table, history>>

\* The flags of the new descriptor; a device's lock is looked for next.
SetFlags(t) ==
  /\ At(t, "set_flags")
  /\ LET isafs == want[t].dev \in FileSystems
     IN  /\ alt_fd_list' = [alt_fd_list EXCEPT ![fd[t]].fd_flags =
                              {want[t].mode} \cup (IF isafs THEN {} ELSE {"DEV"})]
         /\ GoTo(t, IF isafs THEN "open" ELSE "file_locked")
  /\ i' = [i EXCEPT ![t] = 0]
  /\ UNCHANGED <<alt_max_fd, alt_fd_list_lock, fd, want, replaces, booted,
                 history>>

\* Mutant: only descriptors below the new one are looked at.
FileLocked_Below(t) ==
  /\ At(t, "file_locked")
  /\ IF i[t] >= fd[t]
     THEN GoTo(t, "open") /\ UNCHANGED i
     ELSE IF /\ i[t] # fd[t] /\ dev(i[t]) = dev(fd[t])
             /\ "EXCL" \in fd_flags(i[t])
     THEN GoTo(t, "release") /\ UNCHANGED i
     ELSE i' = [i EXCEPT ![t] = @ + 1] /\ UNCHANGED pc
  /\ UNCHANGED <<table, alt_fd_list_lock, fd, want, replaces, booted, history>>

\* Looks at the next entry for a lock of the same device.
FileLocked(t) ==
  /\ At(t, "file_locked")
  /\ IF i[t] > alt_max_fd
     THEN GoTo(t, "open") /\ UNCHANGED i
     ELSE IF /\ i[t] # fd[t] /\ dev(i[t]) = dev(fd[t])
             /\ "EXCL" \in fd_flags(i[t])
     THEN GoTo(t, "release") /\ UNCHANGED i
     ELSE i' = [i EXCEPT ![t] = @ + 1] /\ UNCHANGED pc
  /\ UNCHANGED <<table, alt_fd_list_lock, fd, want, replaces, booted, history>>

\* The device's or file system's own open(), which may refuse.
DriverOpens(t) ==
  /\ At(t, "open")
  /\ IF replaces[t] >= 0
     THEN /\ GoTo(t, "redirect")
          /\ UNCHANGED <<i, fd, want, replaces, booted, held>>
     ELSE /\ Return(t)
          /\ held' = [held EXCEPT ![fd[t]] =
                        [by |-> t, dev |-> want[t].dev, mode |-> want[t].mode]]
  /\ UNCHANGED <<table, alt_fd_list_lock, lockedAt>>

DriverRefuses(t) ==
  /\ At(t, "open") /\ want[t].dev # Stdio
  /\ GoTo(t, "release")
  /\ UNCHANGED <<table, alt_fd_list_lock, i, fd, want, replaces, booted,
                 history>>

-----------------------------------------------------------------------------
(* alt_release_fd, in two accesses *)

\* Mutant: the entry is given back before its flags are cleared.
ReleaseOrder_DevFirst == <<"dev", "fd_flags">>

ReleaseOrder == <<"fd_flags", "dev">>

\* The standard descriptors stay as they are.
Cleared(f, field) ==
  IF f <= 2 THEN alt_fd_list
  ELSE IF field = "dev" THEN [alt_fd_list EXCEPT ![f].dev = NoDev]
  ELSE [alt_fd_list EXCEPT ![f].fd_flags = {}]

ReleaseFirst(t) ==
  /\ At(t, "release")
  /\ alt_fd_list' = Cleared(fd[t], ReleaseOrder[1])
  /\ GoTo(t, "release_rest")
  /\ UNCHANGED <<alt_max_fd, alt_fd_list_lock, i, fd, want, replaces, booted,
                 history>>

ReleaseRest(t) ==
  /\ At(t, "release_rest")
  /\ alt_fd_list' = Cleared(fd[t], ReleaseOrder[2])
  /\ Return(t)
  /\ lockedAt' = [lockedAt EXCEPT ![fd[t]] = -1]
  /\ UNCHANGED <<alt_max_fd, alt_fd_list_lock, held>>

-----------------------------------------------------------------------------
(* alt_main: the standard descriptors are redirected before main() runs. *)

\* stdout, stdin, stderr.
Redirected == <<1, 0, 2>>

BootOpen ==
  /\ At(Main, "idle") /\ booted < 3
  /\ Begin_open(Main, Stdio, IF Redirected[booted + 1] = 0 THEN "O_RDONLY"
                             ELSE "O_WRONLY", Redirected[booted + 1])
  /\ UNCHANGED booted

\* alt_open_fd: the new descriptor is copied into the standard one and
\* released.
Redirect(t) ==
  /\ At(t, "redirect")
  /\ alt_fd_list' = [alt_fd_list EXCEPT ![replaces[t]] = alt_fd_list[fd[t]]]
  /\ GoTo(t, "release")
  /\ UNCHANGED <<alt_max_fd, alt_fd_list_lock, i, fd, want, replaces, booted,
                 history>>

-----------------------------------------------------------------------------
(* close, ioctl(TIOCEXCL), ioctl(TIOCNXCL), fcntl(F_SETFL) *)

\* The descriptors a thread may use: those it opened and the standard ones.
Opened(t) == {f \in Fds : held[f].by = t}
Usable(t) == Opened(t) \cup StdFds

\* Whether or not the driver's close() succeeds, the descriptor is released.
Close(t) ==
  /\ At(t, "idle") /\ booted = 3
  /\ \E f \in Usable(t) :
       /\ fd' = [fd EXCEPT ![t] = f]
       /\ held' = [held EXCEPT ![f] = NotHeld]
  /\ GoTo(t, "release")
  /\ UNCHANGED <<table, alt_fd_list_lock, i, want, replaces, booted, lockedAt>>

Lock(t) ==
  /\ At(t, "idle") /\ booted = 3
  /\ \E f \in Usable(t) :
       /\ "DEV" \in fd_flags(f)
       /\ fd' = [fd EXCEPT ![t] = f]
  /\ GoTo(t, "fd_lock")
  /\ UNCHANGED <<table, alt_fd_list_lock, i, want, replaces, booted, history>>

LockPend(t) ==
  /\ At(t, "fd_lock") /\ alt_fd_list_lock = Nobody
  /\ alt_fd_list_lock' = t
  /\ i' = [i EXCEPT ![t] = 0]
  /\ GoTo(t, "look")
  /\ UNCHANGED <<table, fd, want, replaces, booted, history>>

LockLook(t) ==
  /\ At(t, "look") /\ i[t] < alt_max_fd
  /\ IF i[t] # fd[t] /\ dev(i[t]) = dev(fd[t])
     THEN /\ Return(t)
          /\ alt_fd_list_lock' = Nobody
     ELSE /\ i' = [i EXCEPT ![t] = @ + 1]
          /\ UNCHANGED <<pc, alt_fd_list_lock, fd, want, replaces, booted>>
  /\ UNCHANGED <<table, history>>

\* The loop ends before alt_max_fd: that descriptor is not looked at.
LockGrant(t) ==
  /\ At(t, "look") /\ i[t] >= alt_max_fd
  /\ alt_fd_list' = [alt_fd_list EXCEPT ![fd[t]].fd_flags = @ \cup {"EXCL"}]
  /\ lockedAt' = [lockedAt EXCEPT ![fd[t]] = alt_max_fd]
  /\ alt_fd_list_lock' = Nobody
  /\ Return(t)
  /\ UNCHANGED <<alt_max_fd, held>>

Unlock(t) ==
  /\ At(t, "idle") /\ booted = 3
  /\ \E f \in Usable(t) :
       /\ {"DEV", "EXCL"} \subseteq fd_flags(f)
       /\ alt_fd_list' = [alt_fd_list EXCEPT ![f].fd_flags = @ \ {"EXCL"}]
       /\ lockedAt' = [lockedAt EXCEPT ![f] = -1]
  /\ UNCHANGED <<alt_max_fd, alt_fd_list_lock, pc, i, fd, want, replaces, booted,
                 held>>

Settable == {"O_NONBLOCK"}      \* ALT_FCNTL_FLAGS_MASK, O_APPEND left out

\* Of the descriptors a thread opened itself, to bound the states.
Fcntl(t) ==
  /\ At(t, "idle") /\ booted = 3
  /\ \E f \in Opened(t), arg \in SUBSET Settable :
       alt_fd_list' = [alt_fd_list EXCEPT ![f].fd_flags =
                         (@ \ Settable) \cup arg]
  /\ UNCHANGED <<alt_max_fd, alt_fd_list_lock, pc, i, fd, want, replaces, booted,
                 history>>

-----------------------------------------------------------------------------
(* What the other calls do with a descriptor: the driver's function is      *)
(* called, or an error is returned.  None changes the table.                *)

CONSTANTS CanRead, CanWrite, CanSeek, HasStat, HasIoctl
  \* the devices and file systems that have these functions

ALT_READ(f) ==
  IF f < 0 THEN "EBADFD"
  ELSE IF "O_WRONLY" \notin fd_flags(f) /\ dev(f) \in CanRead THEN "driver"
  ELSE "EACCES"

ALT_WRITE(f) ==
  IF f < 0 THEN "EBADFD"
  ELSE IF "O_RDONLY" \notin fd_flags(f) /\ dev(f) \in CanWrite THEN "driver"
  ELSE "EACCES"

ALT_LSEEK(f) ==
  IF f < 0 THEN "EBADFD" ELSE IF dev(f) \in CanSeek THEN "driver"
  ELSE "ENOTSUP"

ALT_FSTAT(f) ==
  IF f < 0 THEN "EBADFD" ELSE IF dev(f) \in HasStat THEN "driver"
  ELSE "character device"

ALT_IOCTL(f, req) ==
  IF f < 0 THEN "EBADFD"
  ELSE IF "DEV" \in fd_flags(f) /\ req \in {"TIOCEXCL", "TIOCNXCL"} THEN "lock"
  ELSE IF dev(f) \in HasIoctl THEN "driver" ELSE "ENOTTY"

ALT_ISATTY(f) == f >= 0 /\ dev(f) \notin HasStat

-----------------------------------------------------------------------------
FilesInit ==
  /\ alt_fd_list = [f \in Fds |->
       IF f \in StdFds THEN [dev |-> alt_dev_null, fd_flags |-> {"O_RDONLY"}]
       ELSE Free]
  /\ alt_max_fd = -1
  /\ alt_fd_list_lock = Nobody
  /\ pc = [t \in Threads |-> "idle"]
  /\ i = [t \in Threads |-> 0] /\ fd = [t \in Threads |-> 0]
  /\ want = [t \in Threads |-> NoWant]
  /\ replaces = [t \in Threads |-> -1]
  /\ booted = 0
  /\ held = [f \in Fds |-> NotHeld]
  /\ lockedAt = [f \in Fds |-> -1]

Opening(t) ==
  \/ GetFdPend(t) \/ GetFdSkip(t) \/ GetFdTake(t) \/ GetFdNone(t)
  \/ SetFlags(t) \/ FileLocked(t) \/ DriverOpens(t) \/ DriverRefuses(t)
  \/ Redirect(t)

Locking(t) == LockPend(t) \/ LockLook(t) \/ LockGrant(t)

Releasing(t) == ReleaseFirst(t) \/ ReleaseRest(t)

Calls(t) == Open(t) \/ Close(t) \/ Lock(t) \/ Unlock(t) \/ Fcntl(t)

FilesNext ==
  \/ BootOpen
  \/ \E t \in Threads : Opening(t) \/ Locking(t) \/ Releasing(t) \/ Calls(t)

FilesSpec == FilesInit /\ [][FilesNext]_filesVars

\* A thread in a call goes on.
FilesFairness ==
  \A t \in Threads : WF_filesVars(Opening(t) \/ Locking(t) \/ Releasing(t))

FairFilesSpec == FilesSpec /\ FilesFairness

-----------------------------------------------------------------------------
(* Properties. *)

Entry == [dev : Targets \cup {NoDev},
          fd_flags : SUBSET ({"DEV", "EXCL"} \cup Settable \cup AccessModes)]

\* The table, the semaphore and every thread's call keep their types.
FilesTypeOK ==
  /\ alt_fd_list \in [Fds -> Entry]
  /\ alt_max_fd \in -1..ALT_MAX_FD-1
  /\ alt_fd_list_lock \in Threads \cup {Nobody}
  /\ pc \in [Threads -> {"idle", "get_fd", "search", "set_flags", "file_locked",
                         "open", "redirect", "release", "release_rest",
                         "fd_lock", "look"}]
  /\ i \in [Threads -> 0..ALT_MAX_FD] /\ fd \in [Threads -> Fds]
  /\ want \in [Threads -> [dev : Targets, mode : AccessModes]]
  /\ replaces \in [Threads -> -1..2] /\ booted \in 0..3
  /\ held \in [Fds -> [by : Threads \cup {Nobody}, dev : Targets \cup {NoDev},
                       mode : AccessModes]]
  /\ lockedAt \in [Fds -> -1..ALT_MAX_FD-1]

\* A descriptor that open() has returned refers to what was opened, in the mode
\* in which it was opened, until it is closed: no two calls are given the same
\* entry, and no release still under way touches an entry given out again.
HeldIntact ==
  \A f \in Fds : held[f].by # Nobody =>
    /\ dev(f) = held[f].dev
    /\ fd_flags(f) \cap AccessModes = {held[f].mode}
    /\ ("DEV" \in fd_flags(f)) = (dev(f) \in Devices)

\* No descriptor in use is above alt_max_fd, where the searches for a lock end.
HighWater == \A f \in Fds \ StdFds : dev(f) # NoDev => f <= alt_max_fd

\* A device that is locked is open nowhere else, but for the one descriptor the
\* lock does not look at: the highest allocated so far, of that moment.  (The
\* comment above alt_fd_lock promises it without the exception.)
LockExclusive ==
  \A f, g \in Fds :
    (f # g /\ "EXCL" \in fd_flags(f) /\ held[g].by # Nobody /\ dev(g) = dev(f))
      => g = lockedAt[f]

\* The standard descriptors always refer to a device: /dev/null until alt_main
\* has redirected them, the configured one from then on, whoever closes them.
StandardKept ==
  \A f \in StdFds :
    dev(f) = Stdio \/ (booted < 3 /\ dev(f) = alt_dev_null)

\* Calls reach the driver as the descriptor was opened, whatever fcntl() has
\* been asked to set since, and only devices take the requests for the lock.
AccessAsOpened ==
  \A f \in Fds : held[f].by # Nobody =>
    /\ (ALT_READ(f) = "driver") =
         (held[f].mode # "O_WRONLY" /\ held[f].dev \in CanRead)
    /\ (ALT_WRITE(f) = "driver") =
         (held[f].mode # "O_RDONLY" /\ held[f].dev \in CanWrite)
    /\ (ALT_IOCTL(f, "TIOCEXCL") = "lock") = (held[f].dev \in Devices)

\* A descriptor stays what open() made it, for the thread that has it and for all
\* searches of the table, whatever the other threads open and release.
DescriptorsKept ==
  FilesTypeOK /\ HeldIntact /\ HighWater /\ StandardKept /\ AccessAsOpened

\* The semaphore is always given back.
SemaphoreReturned ==
  \A t \in Threads : (alt_fd_list_lock = t) ~> (alt_fd_list_lock = Nobody)
=============================================================================
