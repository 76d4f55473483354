---------------------------- MODULE MCEdgeLinks ----------------------------
(***************************************************************************)
(* One edge_id that two tenants claim: two links of the first tenant, the  *)
(* second with fewer devices, and two of the other, one without a device.  *)
(***************************************************************************)
EXTENDS EdgeLinks

MCEdgeOf == [c \in Conns |-> "e"]

MCDevicesOf ==
    [c \in Conns |-> CASE c = "c1" -> {"d1", "d2"} [] c = "c4" -> {} [] OTHER -> {"d1"}]

MCCredential ==
    [c \in Conns |-> CASE c = "c1" -> "legacy" [] c = "c2" -> "t1" [] OTHER -> "t2"]

\* an Edge that is not told its tenant says it is of the default one
MCHelloTenant == [c \in Conns |-> "t1"]

MCBrowserTenant == [b \in Browsers |-> IF b = "b1" THEN "t1" ELSE "t2"]

\* bound: a message of one of three links, or four links without messages
Budget == reports = 0 \/ \E c \in Conns : pc[c] = "new"
=============================================================================
