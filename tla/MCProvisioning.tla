--------------------------- MODULE MCProvisioning ---------------------------
(***************************************************************************)
(* Configurations of the node and the proxy, and what a scan may hear:     *)
(* nothing, or any three beacons.                                          *)
(***************************************************************************)
EXTENDS ProvisioningSystem

CONSTANTS p1, o1

MCScans == {<< >>} \cup [1 .. 3 -> {p1, o1}]

MCConfs == {[method |-> "SECURED", id |-> 2], [method |-> "UNSECURED", id |-> 0]}

MCProxyConfs == {[allowed |-> {"SECURED"}, key |-> TRUE],
                 [allowed |-> {}, key |-> FALSE]}

MCReconfigure == {<<TRUE, TRUE>>, <<FALSE, FALSE>>, <<FALSE, TRUE>>}
=============================================================================
