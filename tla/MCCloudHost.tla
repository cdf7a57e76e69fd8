----------------------------- MODULE MCCloudHost -----------------------------
(* CloudHost for TLC: two buttons, and a key that stands for none of them.  *)
EXTENDS CloudHost, TLC

CONSTANTS a, enter, other

MCButtonOrder == <<"START", "LEFT">>

MCButtonOf == (a :> "LEFT") @@ (enter :> "START") @@ (other :> "none")
=============================================================================
