------------------------------- MODULE Ledger -------------------------------
(***************************************************************************)
(* domain/ports.py, Ledger: the port the gateway records through. A call   *)
(* of record() appends one receipt to a single log, or leaves it alone;    *)
(* what is in the log stays there, in the same order.                      *)
(***************************************************************************)
EXTENDS Sequences

CONSTANT Calls

VARIABLE log   \* the receipts, each named by the record() call that made it

Init == log = <<>>

Append_(c) ==
  /\ \A i \in DOMAIN log : log[i] # c
  /\ log' = Append(log, c)

Next == \E c \in Calls : Append_(c)

Spec == Init /\ [][Next]_log
=============================================================================
