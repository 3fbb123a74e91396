--------------------------- MODULE MCSharedDataRx ---------------------------
(* SharedDataRx with three items: two that take everything, one for a      *)
(* multicast group on one endpoint.                                        *)
EXTENDS SharedDataRx

CONSTANTS a, b, c

MCItem == {a, b, c}

MCFilterOf ==
    [item \in MCItem |->
        IF item = c
        THEN [mode |-> "multicast", groups |-> {1}, src_endpoint |-> ANY, dest_endpoint |-> 1]
        ELSE [mode |-> "all", groups |-> NULL, src_endpoint |-> ANY, dest_endpoint |-> ANY]]

MCPacket ==
    { [kind |-> "unicast", group |-> 0, src_endpoint |-> 1, dest_endpoint |-> 1],
      [kind |-> "multicast", group |-> 1, src_endpoint |-> 1, dest_endpoint |-> 1],
      [kind |-> "multicast", group |-> 2, src_endpoint |-> 1, dest_endpoint |-> 2] }
=============================================================================
