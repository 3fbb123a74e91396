------------------------- MODULE MCSharedAppconfig -------------------------
(* Instance: four filters for three slots, and app configs with a type     *)
(* that comes twice, an entry that is not announced, one that does not     *)
(* decode, and another format.                                             *)
EXTENDS SharedAppconfig

CONSTANTS one, all, raw, two

MCFilters == {one, all, raw, two}
MCType == one :> "1" @@ two :> "2" @@ all :> ALL_TYPE @@ raw :> INCOMPATIBLE
MCCallAlways == {one, raw}

E(t, v) == [type |-> t, val |-> v]
MCConfigs ==
    { [tlv |-> TRUE,  entry_number |-> 3, entries |-> <<E("1", "u"), E("2", "v"), E("1", "w")>>, bytes |-> "c1"],
      [tlv |-> TRUE,  entry_number |-> 1, entries |-> <<E("2", "x"), E("1", "x")>>, bytes |-> "c2"],
      [tlv |-> TRUE,  entry_number |-> 2, entries |-> <<E("1", "y")>>, bytes |-> "c3"],
      [tlv |-> FALSE, entry_number |-> 0, entries |-> <<>>, bytes |-> "c4"] }
=============================================================================
