--------------------------- MODULE MCControlNode ---------------------------
(* ControlNode with two routers, of which the application sees both, one   *)
(* or none.                                                                *)
EXTENDS ControlNode

CONSTANTS r1, r2

MCNbor(address, rssi, recent) ==
    [address |-> address, norm_rssi |-> rssi, recent |-> recent, diradv_support |-> TRUE]

MCNborTables ==
    { {MCNbor(r1, -60, FALSE), MCNbor(r2, -70, TRUE)},
      {MCNbor(r1, -60, FALSE), MCNbor(r2, -70, FALSE)},
      {MCNbor(r1, -70, TRUE)},
      {} }
=============================================================================
