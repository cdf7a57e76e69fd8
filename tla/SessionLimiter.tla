--------------------------- MODULE SessionLimiter ---------------------------
(***************************************************************************)
(* What the cloud server promises about game sessions, without queues,     *)
(* threads or processes: a client is admitted only while a slot is free    *)
(* and, when duplicates are blocked, while its address plays no other      *)
(* session; a session that was admitted ends once, and is never resumed.   *)
(***************************************************************************)
EXTENDS Naturals, FiniteSets

CONSTANTS Clients,       \* connections, one ClientId each
          IpOf,          \* the address of a connection
          MaxConcurrent, \* --max-concurrent
          BlockDup       \* --block-dup

VARIABLES playing,       \* connections with a running instance
          ended          \* connections whose session is over

vars == <<playing, ended>>

Init == playing = {} /\ ended = {}

Admit(c) ==
  /\ c \notin playing \cup ended
  /\ Cardinality(playing) < MaxConcurrent
  /\ BlockDup => \A d \in playing : IpOf[d] # IpOf[c]
  /\ playing' = playing \cup {c}
  /\ UNCHANGED ended

End(c) ==
  /\ c \in playing
  /\ playing' = playing \ {c}
  /\ ended' = ended \cup {c}

Next == \E c \in Clients : Admit(c) \/ End(c)

Spec == Init /\ [][Next]_vars
=============================================================================
