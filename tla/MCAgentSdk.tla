----------------------------- MODULE MCAgentSdk -----------------------------
(* A call site of each kind the SDK tells apart.                           *)
EXTENDS AgentSdk

CONSTANT i1

MCSites ==
  {[shape |-> "governed", style |-> s, args |-> "over"] :
     s \in {"positional", "keyword", "mismatched", "extra", "wrapped"}}
  \cup {[shape |-> "governed", style |-> "positional", args |-> "within"]}
  \cup {[shape |-> "proxied", style |-> "keyword", args |-> v] : v \in {"within", "over"}}

=============================================================================
