-------------------------- MODULE SDRAMController --------------------------
(***************************************************************************)
(* The SDRAM controller (sopc_new_sdram_controller_0.v) and the chip it    *)
(* drives.  Requests wait in a FIFO of two; the main FSM opens a row,      *)
(* serves requests to it for as long as they come, and closes it for a     *)
(* request to another one, for a change of direction or for a refresh.     *)
(* While it serves, the request at the FIFO's head is looked at one cycle  *)
(* before it is taken, and "active" is a copy of the one looked at last.   *)
(*                                                                         *)
(* One step is one rising edge of clk, an action one state of m_state with *)
(* everything the other always blocks and the chip do at that edge.        *)
(***************************************************************************)
EXTENDS Integers, Sequences

CONSTANTS
  Banks, Rows, Columns,
  Values,
  Requests,         \* [rnw, addr, dqm, data]; addr is [bank, row, column]
  NoRequest, NoData, NoRow,
  PowerUp,          \* refresh_counter after a reset (24000)
  Period,           \* and afterwards (937)
  InitRefs,         \* refreshes at the beginning (8)
  TRCD, TRP, TRFC, TWR, TMRD    \* the chip's times, in cycles

Addresses == [bank : Banks, row : Rows, column : Columns]

ASSUME SDRAMAssumption ==
  /\ PowerUp \in Nat /\ InitRefs \in Nat \ {0}
  \* A refresh that is due is done before the next one is.
  /\ Period \in Nat /\ Period >= 13
  \* The waits generated into the FSMs are as long as the chip asks for.
  /\ {TRCD, TRP, TRFC, TWR, TMRD} \subseteq 1..TRFC
  /\ TRCD <= 4 /\ TRP <= 3 /\ TRFC <= 9 /\ TWR <= 3 /\ TMRD <= 6
  /\ Requests \subseteq
       [rnw : BOOLEAN, addr : Addresses, dqm : BOOLEAN, data : Values]
  /\ \A r \in Requests : r.rnw => ~r.dqm
  /\ NoRequest \notin Requests /\ NoData \notin Values /\ NoRow \notin Rows

VARIABLES
  fifo,                     \* the_..._input_efifo_module
  i_state, i_next, i_cmd, i_count, i_refs, init_done,
  refresh_counter, refresh_request, ack_refresh_request, za_cannotrefresh,
  m_state, m_next, m_cmd, m_count, f_pop,
  active,                   \* active_rnw, active_addr, active_data, active_dqm;
                            \* NoRequest while active_cs_n is high
  rd_valid, za_valid, za_data,
  rows, cells, out, since, refs,    \* the chip
  store, owed               \* history: the memory as its masters know it

initVars    == <<i_state, i_next, i_cmd, i_count, i_refs, init_done>>
refreshVars == <<refresh_counter, refresh_request, za_cannotrefresh>>
mainVars    == <<m_state, m_next, m_cmd, m_count, f_pop, active,
                 ack_refresh_request>>
chipVars    == <<rows, cells, out, since, refs>>
sdramVars   == <<fifo, initVars, refreshVars, mainVars, rd_valid, za_valid,
                 za_data, chipVars, store, owed>>

-----------------------------------------------------------------------------
(* Commands, with the address and data registers where the chip uses them. *)

NOP == [op |-> "NOP"]
PRE == [op |-> "PRE"]       \* of all banks: m_addr is all ones
ARF == [op |-> "ARF"]
LMR == [op |-> "LMR"]
ACT(r) == [op |-> "ACT", bank |-> r.addr.bank, row |-> r.addr.row]
RD(r)  == [op |-> "RD", bank |-> r.addr.bank, column |-> r.addr.column]
WR(r)  == [op |-> "WR", bank |-> r.addr.bank, column |-> r.addr.column,
           dqm |-> r.dqm, data |-> r.data]

-----------------------------------------------------------------------------
(* Wires. *)

za_waitrequest == Len(fifo) = 2

f_empty == fifo = <<>>

f_head == Head(fifo)

pending ==
  /\ active # NoRequest
  /\ ~f_empty
  /\ f_head.rnw = active.rnw
  /\ f_head.addr.bank = active.addr.bank
  /\ f_head.addr.row = active.addr.row

f_select == f_pop /\ pending

\* The request a read or write command is for.
Served == IF f_select THEN f_head ELSE active

-----------------------------------------------------------------------------
SDRAMInit ==
  /\ fifo = <<>>
  /\ i_state = "RST" /\ i_next = "RST" /\ i_cmd = NOP /\ i_count = 0 /\ i_refs = 0
  /\ init_done = FALSE
  /\ refresh_counter = PowerUp /\ refresh_request = FALSE
  /\ za_cannotrefresh = FALSE
  /\ m_state = "IDLE" /\ m_next = "IDLE" /\ m_cmd = NOP /\ m_count = 0
  /\ f_pop = FALSE /\ active = NoRequest /\ ack_refresh_request = FALSE
  /\ rd_valid = <<FALSE, FALSE>> /\ za_valid = FALSE /\ za_data = NoData
  \* A reset may have found rows open.
  /\ rows \in [Banks -> Rows \cup {NoRow}]
  /\ \E v \in Values : cells = [x \in Addresses |-> v]
  /\ out = <<NoData, NoData>>
  /\ since = [op \in {"ACT", "PRE", "ARF", "WR", "LMR"} |-> TRFC]
  /\ refs = 0
  /\ store = cells /\ owed = <<>>

(***************************************************************************)
(* The blocks beside the main FSM.  request is what a master asks for at   *)
(* this edge; with za_waitrequest high it must wait.                       *)
(***************************************************************************)

InputFifo(request) ==
  /\ request # NoRequest => ~za_waitrequest
  /\ fifo' = (IF f_select THEN Tail(fifo) ELSE fifo)
               \o (IF request # NoRequest THEN <<request>> ELSE <<>>)

RefreshTimer ==
  /\ refresh_counter' =
       IF refresh_counter = 0 THEN Period ELSE refresh_counter - 1
  /\ refresh_request' = (/\ refresh_counter = 0 \/ refresh_request
                         /\ ~ack_refresh_request
                         /\ init_done)
  /\ za_cannotrefresh' = (refresh_counter = 0 /\ refresh_request)

\* The initialisation: a pause, all rows closed, refreshes, the mode register.
InitFSM ==
  /\ init_done' = (init_done \/ i_state = "DONE")
  /\ CASE i_state = "RST" ->
            /\ i_cmd' = NOP /\ i_refs' = 0
            /\ i_state' = IF refresh_counter = 0 THEN "PRE" ELSE "RST"
            /\ UNCHANGED <<i_next, i_count>>
       [] i_state = "PRE" ->
            /\ i_cmd' = PRE /\ i_state' = "WAIT" /\ i_count' = 2 /\ i_next' = "ARF"
            /\ UNCHANGED i_refs
       [] i_state = "ARF" ->
            /\ i_cmd' = ARF /\ i_state' = "WAIT" /\ i_count' = 8
            /\ i_refs' = (i_refs + 1) % InitRefs
            /\ i_next' = IF i_refs = InitRefs - 1 THEN "LMR" ELSE "ARF"
       [] i_state = "WAIT" ->
            /\ i_cmd' = NOP
            /\ IF i_count > 1 THEN i_count' = i_count - 1 /\ UNCHANGED i_state
                              ELSE i_state' = i_next /\ UNCHANGED i_count
            /\ UNCHANGED <<i_next, i_refs>>
       [] i_state = "LMR" ->
            /\ i_cmd' = LMR /\ i_state' = "WAIT" /\ i_count' = 4 /\ i_next' = "DONE"
            /\ UNCHANGED i_refs
       [] i_state = "DONE" ->
            UNCHANGED <<i_state, i_next, i_cmd, i_count, i_refs>>

\* The chip (external): what it does at the edge after a command has been put
\* out.  Data of a read are on the wires two edges later, in out[2].
Chip ==
  /\ rows' = CASE m_cmd.op = "ACT" -> [rows EXCEPT ![m_cmd.bank] = m_cmd.row]
               [] m_cmd.op = "PRE" -> [k \in Banks |-> NoRow]
               [] OTHER -> rows
  /\ LET cell == [bank |-> m_cmd.bank, row |-> rows[m_cmd.bank],
                  column |-> m_cmd.column]
     IN  /\ cells' = IF m_cmd.op = "WR" /\ cell \in Addresses /\ ~m_cmd.dqm
                     THEN [cells EXCEPT ![cell] = m_cmd.data] ELSE cells
         /\ out' = <<IF m_cmd.op = "RD" /\ cell \in Addresses THEN cells[cell]
                                                              ELSE NoData,
                     out[1]>>
  /\ since' = [op \in DOMAIN since |->
                 IF op = m_cmd.op THEN 1
                 ELSE IF since[op] < TRFC THEN since[op] + 1 ELSE TRFC]
  /\ refs' = IF m_cmd.op = "ARF" /\ refs < InitRefs THEN refs + 1 ELSE refs

\* What comes back is registered, and counted from the command on.
Answering ==
  /\ rd_valid' = <<m_cmd.op = "RD", rd_valid[1]>>
  /\ za_data' = out[2]
  /\ za_valid' = rd_valid[2]

Written(request, memory) ==
  IF request # NoRequest /\ ~request.rnw /\ ~request.dqm
  THEN [memory EXCEPT ![request.addr] = request.data] ELSE memory

History(request) ==
  /\ store' = Written(request, store)
  /\ owed' = (IF rd_valid[2] /\ owed # <<>> THEN Tail(owed) ELSE owed)
               \o (IF request # NoRequest /\ request.rnw
                   THEN <<store[request.addr]>> ELSE <<>>)

Beside(request) ==
  /\ InputFifo(request) /\ RefreshTimer /\ InitFSM /\ Chip /\ Answering
  /\ History(request)

-----------------------------------------------------------------------------
(* One action per state of the main FSM. *)

Goto(state, next, count) == m_state' = state /\ m_next' = next /\ m_count' = count

\* The request at the FIFO's head is looked at; it is taken at the next edge.
LookAtHead == f_pop' = TRUE /\ active' = f_head

NoLook == f_pop' = FALSE /\ UNCHANGED active

Initialising(request) ==
  /\ m_state = "IDLE" /\ ~init_done
  /\ m_cmd' = i_cmd /\ m_next' = "IDLE" /\ f_pop' = FALSE
  /\ UNCHANGED <<m_state, m_count, active, ack_refresh_request>>
  /\ Beside(request)

\* Mutant: a refresh does not wait for the rows to be closed.
Idle_RefreshAtOnce(request) ==
  /\ m_state = "IDLE" /\ init_done
  /\ m_cmd' = NOP /\ ack_refresh_request' = FALSE
  /\ IF refresh_request
     THEN Goto("ARF", "ARF", 2) /\ active' = NoRequest /\ f_pop' = FALSE
     ELSE IF ~f_empty THEN /\ LookAtHead /\ m_state' = "RAS"
                           /\ UNCHANGED <<m_next, m_count>>
     ELSE NoLook /\ UNCHANGED <<m_state, m_next, m_count>>
  /\ Beside(request)

Idle(request) ==
  /\ m_state = "IDLE" /\ init_done
  /\ m_cmd' = NOP /\ ack_refresh_request' = FALSE
  /\ IF refresh_request
     THEN Goto("PRE", "ARF", 2) /\ active' = NoRequest /\ f_pop' = FALSE
     ELSE IF ~f_empty THEN /\ LookAtHead /\ m_state' = "RAS"
                           /\ UNCHANGED <<m_next, m_count>>
     ELSE NoLook /\ UNCHANGED <<m_state, m_next, m_count>>
  /\ Beside(request)

Activate(request) ==
  /\ m_state = "RAS"
  /\ m_cmd' = ACT(active) /\ NoLook
  /\ Goto("WAIT", IF active.rnw THEN "RD" ELSE "WR", 3)
  /\ UNCHANGED ack_refresh_request
  /\ Beside(request)

Wait(request) ==
  /\ m_state = "WAIT"
  /\ m_cmd' = NOP /\ NoLook
  /\ IF m_count > 1 THEN m_count' = m_count - 1 /\ UNCHANGED m_state
                    ELSE m_state' = m_next /\ UNCHANGED m_count
  /\ UNCHANGED <<m_next, ack_refresh_request>>
  /\ Beside(request)

\* RD and WR: a command for the request looked at, and a look at the next one;
\* with a refresh due the row is left as soon as another request is found.
Serving(command, pause) ==
  /\ UNCHANGED ack_refresh_request
  /\ IF pending
     THEN /\ m_cmd' = command
          /\ IF refresh_request
             THEN Goto("WAIT", "IDLE", pause) /\ NoLook
             ELSE LookAtHead /\ UNCHANGED <<m_state, m_next, m_count>>
     ELSE /\ m_cmd' = IF f_pop THEN NOP ELSE command
          /\ m_state' = "SPIN" /\ NoLook
          /\ UNCHANGED <<m_next, m_count>>

\* Mutant: the column is the one of the request looked at before.
Read_ColumnOfActive(request) ==
  m_state = "RD" /\ Serving(RD(active), 1) /\ Beside(request)

Read(request) == m_state = "RD" /\ Serving(RD(Served), 1) /\ Beside(request)

Write(request) == m_state = "WR" /\ Serving(WR(Served), 2) /\ Beside(request)

\* The row stays open until something else is asked for.
Spin(request) ==
  /\ m_state = "SPIN"
  /\ m_cmd' = NOP
  /\ IF refresh_request THEN Goto("WAIT", "IDLE", 1) /\ NoLook
     ELSE IF f_empty THEN NoLook /\ UNCHANGED <<m_state, m_next, m_count>>
     ELSE IF pending
     THEN /\ LookAtHead /\ m_state' = IF f_head.rnw THEN "RD" ELSE "WR"
          /\ UNCHANGED <<m_next, m_count>>
     ELSE Goto("REC", "IDLE", 1) /\ NoLook
  /\ UNCHANGED ack_refresh_request
  /\ Beside(request)

Recover(request) ==
  /\ m_state = "REC"
  /\ m_cmd' = NOP /\ NoLook
  /\ IF m_count > 1 THEN m_count' = m_count - 1 /\ UNCHANGED m_state
                    ELSE m_state' = "PRE" /\ m_count' = 2
  /\ UNCHANGED <<m_next, ack_refresh_request>>
  /\ Beside(request)

Precharge(request) ==
  /\ m_state = "PRE"
  /\ m_cmd' = PRE /\ m_state' = "WAIT" /\ NoLook
  /\ UNCHANGED <<m_next, m_count, ack_refresh_request>>
  /\ Beside(request)

Refresh(request) ==
  /\ m_state = "ARF"
  /\ m_cmd' = ARF /\ ack_refresh_request' = TRUE /\ NoLook
  /\ Goto("WAIT", "IDLE", 8)
  /\ Beside(request)

SDRAMEdge(request) ==
  \/ Initialising(request) \/ Idle(request) \/ Activate(request) \/ Wait(request)
  \/ Read(request) \/ Write(request) \/ Spin(request) \/ Recover(request)
  \/ Precharge(request) \/ Refresh(request)

SDRAMNext == \E request \in Requests \cup {NoRequest} : SDRAMEdge(request)

\* The clock runs; nothing else is asked for.
SDRAMSpec == SDRAMInit /\ [][SDRAMNext]_sdramVars /\ WF_sdramVars(SDRAMNext)

-----------------------------------------------------------------------------
(* Properties. *)

SDRAMTypeOK ==
  /\ fifo \in Seq(Requests) /\ Len(fifo) <= 2
  /\ active \in Requests \cup {NoRequest}
  /\ m_state \in {"IDLE", "RAS", "WAIT", "RD", "WR", "SPIN", "REC", "PRE", "ARF"}
  /\ rows \in [Banks -> Rows \cup {NoRow}] /\ cells \in [Addresses -> Values]
  /\ store \in [Addresses -> Values] /\ owed \in Seq(Values)

\* What the chip may be told, given its state and what it was told when: a bank
\* that is closed is opened, one that is open is used, all are closed for a
\* refresh, every command has its time, and reading and writing never meet on
\* the data wires.
Legal ==
  CASE m_cmd.op = "NOP" -> TRUE
    [] m_cmd.op = "ACT" -> /\ rows[m_cmd.bank] = NoRow
                           /\ since["PRE"] >= TRP /\ since["ARF"] >= TRFC
                           /\ since["LMR"] >= TMRD
                           /\ init_done
    [] m_cmd.op = "RD" -> /\ rows[m_cmd.bank] # NoRow /\ since["ACT"] >= TRCD
    [] m_cmd.op = "WR" -> /\ rows[m_cmd.bank] # NoRow /\ since["ACT"] >= TRCD
                          /\ out[2] = NoData
    [] m_cmd.op = "PRE" -> since["WR"] >= TWR
    [] m_cmd.op = "ARF" -> /\ \A k \in Banks : rows[k] = NoRow
                           /\ since["PRE"] >= TRP /\ since["ARF"] >= TRFC
    [] m_cmd.op = "LMR" -> /\ \A k \in Banks : rows[k] = NoRow
                           /\ since["ARF"] >= TRFC /\ refs = InitRefs

\* The chip is used as it must be, whatever is asked for and whenever a refresh
\* comes in between, also when rows are open at first; and no refresh is missed,
\* as none is still waiting when the next is due.
ChipObeyed == SDRAMTypeOK /\ Legal /\ ~za_cannotrefresh

\* Requests take effect in the order in which they were accepted and every read
\* is answered with what was written before it, although requests are looked at,
\* taken and executed at different edges and refreshes break in anywhere; and
\* the controller accepts requests again and again.
Port == INSTANCE MemoryPort WITH
          answer <- IF za_valid THEN za_data ELSE NoData

MemoryInOrder == Port!Spec /\ []<>~za_waitrequest
=============================================================================
