------------------------------- MODULE Devices -------------------------------
(***************************************************************************)
(* The HAL's registers of devices: the lists of character devices, mounted *)
(* file systems, flash memories and DMA channels, how a name finds the     *)
(* device it means, and what is answered to requests.                      *)
(*                                                                         *)
(* Names are sequences of characters.  Devices are told apart by the       *)
(* number of registrations before theirs; none is registered twice.        *)
(***************************************************************************)
EXTENDS Integers, Sequences, SequencesExt, FiniteSetsExt

CONSTANTS
  DeviceNames,        \* what devices are registered as
  FileNames,          \* what is opened
  NoName,             \* a null pointer
  MaxUnits            \* bound: devices registered

ASSUME DevicesAssumption ==
  /\ DeviceNames \subseteq Seq(STRING) \ {<<>>} /\ FileNames \subseteq Seq(STRING)
  /\ \A name \in DeviceNames \cup FileNames : "NUL" \notin ToSet(name)
  /\ NoName \notin DeviceNames \cup FileNames /\ MaxUnits \in Nat

VARIABLES
  lists,              \* the lists of devices, [name, unit]
  found               \* what the program asked for last, and uses now

devicesVars == <<lists, found>>

Handles == {"flash", "rxchan", "txchan"}
Kinds == {"dev", "fs"} \cup Handles

NoDevice == [name |-> NoName, unit |-> -1]
Units == Cardinality({d.unit : d \in UNION {ToSet(lists[kind]) : kind \in Kinds}})

\* kind: "file" or that of a handle.  units: the devices there were.
Answer(kind, name, device, error) ==
  [kind |-> kind, name |-> name, device |-> device, error |-> error, units |-> Units]

-----------------------------------------------------------------------------
(* The searches. *)

\* strlen, memcmp and what follows the last character.
Char(s, i) == IF i <= Len(s) THEN s[i] ELSE "NUL"
SameBytes(s, t, len) == \A i \in 1..len : Char(s, i) = Char(t, i)

\* From the head of a list, where the newest is.
FirstOf(list, matching) ==
  IF matching = {} THEN NoDevice ELSE list[Min(matching)]

\* Mutant: the end of the name isn't compared.
alt_find_dev_Prefix(name, list) ==
  FirstOf(list, {i \in 1..Len(list) : SameBytes(list[i].name, name, Len(name))})

alt_find_dev(name, list) ==
  FirstOf(list, {i \in 1..Len(list) : SameBytes(list[i].name, name, Len(name) + 1)})

alt_find_file(name) ==
  LET Matches(next) ==
        LET len == Len(next.name) - (IF Last(next.name) = "/" THEN 1 ELSE 0)
        IN  Char(name, len + 1) \in {"/", "NUL"} /\ SameBytes(next.name, name, len)
  IN  FirstOf(lists.fs, {i \in 1..Len(lists.fs) : Matches(lists.fs[i])})

-----------------------------------------------------------------------------
(* The program's calls. *)

\* alt_llist_insert puts it behind the head.  A device without a name is refused.
RegisterDevice(kind) ==
  /\ Units < MaxUnits
  /\ \E name \in DeviceNames :
       lists' = [lists EXCEPT ![kind] = <<[name |-> name, unit |-> Units]>> \o @]
  /\ UNCHANGED found

\* The search of ALT_OPEN: devices first, then file systems.
FindFile ==
  \E name \in FileNames :
    LET dev    == alt_find_dev(name, lists.dev)
        device == IF dev = NoDevice THEN alt_find_file(name) ELSE dev
    IN  /\ found' = Answer("file", name, device,
                           IF device = NoDevice THEN "ENODEV" ELSE "none")
        /\ UNCHANGED lists

\* A handle is the device itself.  Flash memory that isn't found is no error.
OpenHandle(kind) ==
  \E name \in DeviceNames :
    LET dev == alt_find_dev(name, lists[kind])
    IN  /\ found' = Answer(kind, name, dev, IF dev = NoDevice /\ kind # "flash"
                                            THEN "ENODEV" ELSE "none")
        /\ UNCHANGED lists

\* Channels are asked to send, prepare, for their space or by an ioctl; a null
\* one answers for itself.
AskChannel ==
  /\ found.kind \in {"rxchan", "txchan"}
  /\ found' = [found EXCEPT !.error = IF found.device = NoDevice THEN "ENODEV"
                                                                ELSE "none"]
  /\ UNCHANGED lists

\* Flash memory is locked, written, read, described or erased, and a channel's
\* depth read, only where there is one: nothing looks.
AskUnchecked ==
  /\ found.kind \in {"flash", "rxchan"} /\ found.device # NoDevice
  /\ found' = [found EXCEPT !.error = "none"]
  /\ UNCHANGED lists

\* Closing flash memory may do something, closing a channel does nothing; the
\* handle is forgotten.
CloseHandle ==
  /\ found.kind \in Handles
  /\ found' = Answer("none", NoName, NoDevice, "none")
  /\ UNCHANGED lists

DevicesInit ==
  /\ lists = [kind \in Kinds |-> <<>>]
  /\ found = [kind |-> "none", name |-> NoName, device |-> NoDevice, error |-> "none",
              units |-> 0]

DevicesNext ==
  \/ \E kind \in Kinds : RegisterDevice(kind)
  \/ FindFile
  \/ \E kind \in Handles : OpenHandle(kind)
  \/ AskChannel \/ AskUnchecked \/ CloseHandle

DevicesSpec == DevicesInit /\ [][DevicesNext]_devicesVars

-----------------------------------------------------------------------------
(* Properties. *)

\* The steps of a path: what is between its slashes.
Cuts(name) == {0, Len(name) + 1} \cup {i \in 1..Len(name) : name[i] = "/"}
Cut(name, k) == CHOOSE c \in Cuts(name) : Cardinality({d \in Cuts(name) : d <= c}) = k
Steps(name) == [k \in 1..Cardinality(Cuts(name)) - 1 |->
                  SubSeq(name, Cut(name, k) + 1, Cut(name, k + 1) - 1)]

\* A mount point is a path with or without a slash at its end, and has below it
\* the files whose path goes on from its own.
Mounted(mount, name) ==
  IsPrefix(Steps(IF Last(mount) = "/" THEN Front(mount) ELSE mount), Steps(name))

Newest(devices) ==
  IF devices = {} THEN NoDevice
  ELSE CHOOSE d \in devices : \A e \in devices : e.unit <= d.unit

\* A name means the device that was registered by exactly this name, the last of
\* them; a file that is no device belongs to the last file system mounted at or
\* above it, though another may be mounted closer; and what is not found is
\* refused, except flash memory.  What was found stays the same whatever is
\* registered later.
DevicesFound ==
  LET Then(kind) == {d \in ToSet(lists[kind]) : d.unit < found.units}
      Named(kind) == {d \in Then(kind) : d.name = found.name}
      above == {d \in Then("fs") : Mounted(d.name, found.name)}
      meant == IF found.kind # "file" THEN Named(found.kind)
               ELSE IF Named("dev") # {} THEN Named("dev") ELSE above
  IN  found.kind # "none" =>
        /\ found.device = Newest(meant)
        /\ found.kind # "flash" /\ meant = {} => found.error # "none"
=============================================================================
