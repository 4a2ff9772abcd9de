----------------------------- MODULE MemoryPort -----------------------------
(***************************************************************************)
(* What a memory behind an Avalon slave promises its masters: requests     *)
(* take effect in the order in which they are accepted, every read is      *)
(* answered, and in that order.  This is what PixelBufferDMA takes for     *)
(* granted (Memory, MemoryAnswers), and what makes a picture that has been *)
(* drawn before a swap complete when it is shown.  How the memory does it  *)
(* is left out.                                                            *)
(***************************************************************************)
EXTENDS Sequences

CONSTANTS
  Requests,         \* records with addr; writes have rnw = FALSE, data, dqm
  NoRequest, NoData

VARIABLES
  store,            \* what a read accepted now would be answered
  owed,             \* the answers to the reads accepted, oldest first
  answer            \* the answer given at the last edge, or NoData

portVars == <<store, owed, answer>>

\* The memory may hold anything at first.
Init == owed = <<>> /\ answer = NoData

\* What a request does to the store and adds to the answers.
Written(request, cells) ==
  IF request # NoRequest /\ ~request.rnw /\ ~request.dqm
  THEN [cells EXCEPT ![request.addr] = request.data] ELSE cells

Promised(request, cells) ==
  IF request # NoRequest /\ request.rnw THEN <<cells[request.addr]>> ELSE <<>>

Accept(request) ==
  /\ store' = Written(request, store)
  /\ owed' = owed \o Promised(request, store)
  /\ answer' = NoData

Answer(request) ==
  /\ owed # <<>>
  /\ store' = Written(request, store)
  /\ owed' = Tail(owed) \o Promised(request, store)
  /\ answer' = Head(owed)

Answers == \E request \in Requests \cup {NoRequest} : Answer(request)

Next == \/ \E request \in Requests \cup {NoRequest} : Accept(request)
        \/ Answers

SafeSpec == Init /\ [][Next]_portVars

Spec == SafeSpec /\ WF_portVars(Answers)
=============================================================================
