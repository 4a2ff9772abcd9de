------------------------------ MODULE MCMemory ------------------------------
(* The memory behind the interconnect: the SDRAM controller with its chip,   *)
(* of two banks with two rows of two cells, and the multiplexer before a     *)
(* slave of three masters.  "part" says which of them runs; the other stays  *)
(* as it begins, where no fairness asks anything of it.                      *)
EXTENDS SDRAMController, CommandMux, TLC

VARIABLE part

At(bank, row, column) == [bank |-> bank, row |-> row, column |-> column]
ReadOf(addr) == [rnw |-> TRUE, addr |-> addr, dqm |-> FALSE, data |-> 0]
WriteTo(addr, data) == [rnw |-> FALSE, addr |-> addr, dqm |-> FALSE, data |-> data]
Masked(addr) == [rnw |-> FALSE, addr |-> addr, dqm |-> TRUE, data |-> 0]

\* The same row, another row of the same bank and the same row of another bank;
\* data are left out where they are told apart already.
MCRequests ==
  {ReadOf(At(0, 0, 0)), ReadOf(At(0, 0, 1)), ReadOf(At(0, 1, 0)), ReadOf(At(1, 0, 0)),
   WriteTo(At(0, 0, 0), 1), WriteTo(At(0, 0, 1), 1), Masked(At(0, 0, 0))}

MCInit ==
  /\ part \in {"controller", "mux"}
  /\ SDRAMInit /\ MuxInit
  \* Other data are written later; and one beginning is enough for what doesn't
  \* run.
  /\ \A addr \in Addresses : cells[addr] = 0
  /\ part = "mux" => \A bank \in Banks : rows[bank] = NoRow

ControllerRuns == part = "controller" /\ SDRAMNext /\ UNCHANGED <<part, muxVars>>

MuxRuns == part = "mux" /\ MuxNext /\ UNCHANGED <<part, sdramVars>>

MCVars == <<part, sdramVars, muxVars>>

MCSpec ==
  /\ MCInit /\ [][ControllerRuns \/ MuxRuns]_MCVars
  /\ WF_MCVars(ControllerRuns)
=============================================================================
