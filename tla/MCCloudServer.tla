---------------------------- MODULE MCCloudServer ----------------------------
(* CloudServer for TLC: three addresses at most, the first dialling twice.  *)
EXTENDS CloudServer, TLC

CONSTANTS c1, c2, c3, c4

MCIpOf == (c1 :> "ip1") @@ (c2 :> "ip1") @@ (c3 :> "ip2") @@ (c4 :> "ip3")

MCIpOf3 == (c1 :> "ip1") @@ (c2 :> "ip1") @@ (c3 :> "ip2")
=============================================================================
