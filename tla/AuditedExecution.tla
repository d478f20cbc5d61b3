-------------------------- MODULE AuditedExecution --------------------------
(***************************************************************************)
(* What the gateway promises about any set of tool calls, whatever its     *)
(* processes, caches and adapters do in between: a call takes effect only  *)
(* after a verdict that permits it has been appended to the audit log, a   *)
(* call has at most one verdict, and a verdict is never taken back.        *)
(***************************************************************************)
EXTENDS Naturals, Sequences

CONSTANT Calls

VARIABLES
  log,      \* verdicts in the order they were recorded
  effects   \* the calls that reached their tool

vars == <<log, effects>>

Verdict == [call: Calls, permit: BOOLEAN]

Judged(c) == \E i \in DOMAIN log : log[i].call = c
Permitted(c) == \E i \in DOMAIN log : log[i] = [call |-> c, permit |-> TRUE]

Init == log = <<>> /\ effects = {}

Judge(c, p) ==
  /\ ~Judged(c)
  /\ log' = Append(log, [call |-> c, permit |-> p])
  /\ UNCHANGED effects

Take(c) ==
  /\ Permitted(c)
  /\ effects' = effects \cup {c}
  /\ UNCHANGED log

Next == \E c \in Calls : Take(c) \/ \E p \in BOOLEAN : Judge(c, p)

Spec == Init /\ [][Next]_vars
=============================================================================
