--------------------------- MODULE AppendOnlyLog ---------------------------
(***************************************************************************)
(* What the evidence ledger promises its callers: one sequence of typed    *)
(* events that only grows, one event at a time, and only by an event the   *)
(* lifecycle contract allows after everything recorded so far.  A medium   *)
(* that tears a record ends the log for good.                              *)
(***************************************************************************)
EXTENDS LedgerContract

CONSTANTS Types, Txn

VARIABLES log, broken

logVars == <<log, broken>>

Init == log = <<>> /\ broken = FALSE

Record(type, t) ==
  /\ ~broken
  /\ ValidateAppend(History(log, t), type)
  /\ log' = Append(log, <<type, t>>)
  /\ UNCHANGED broken

Tear == broken' = TRUE /\ UNCHANGED log

Next == Tear \/ \E type \in Types, t \in Txn : Record(type, t)

Spec == Init /\ [][Next]_logVars
=============================================================================
