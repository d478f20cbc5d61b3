---------------------------- MODULE RegistryPort ----------------------------
(***************************************************************************)
(* domain/ports.py, AgentRegistry.lookup, as its callers may rely on it    *)
(* for one SPIFFE id: a lookup may be answered with a record that was      *)
(* replaced, as long as it is one of the recent ones. A registry without a *)
(* cache has one recent record, the current one; with a cache it is the    *)
(* records replaced no longer ago than the cache keeps them.               *)
(***************************************************************************)
CONSTANTS
  Readers,      \* whoever calls lookup()
  Records       \* what the registry may hold, "not registered" included

VARIABLES
  current,      \* the record operators left
  recent,       \* the records a lookup may still be answered with
  answered      \* the last answer each reader got

vars == <<current, recent, answered>>

Init ==
  /\ current \in Records
  /\ recent = {current}
  /\ answered \in [Readers -> Records]

\* An operator changes the record, or replaced ones are recent no more.
Update ==
  /\ current' \in Records
  /\ recent' \subseteq recent \cup {current'}
  /\ current' \in recent'
  /\ UNCHANGED answered

Lookup(l) ==
  /\ \E r \in recent : answered' = [answered EXCEPT ![l] = r]
  /\ UNCHANGED <<current, recent>>

Next == Update \/ \E l \in Readers : Lookup(l)

Spec == Init /\ [][Next]_vars
=============================================================================
