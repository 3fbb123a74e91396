-------------------------- MODULE MCPosLibControl --------------------------
(* Instance: a tag with a short period while it moves, the same node in    *)
(* NRLS mode, and an anchor that only listens.                             *)
EXTENDS PosLibControl

S(mode, static, dynamic, offline, motion) ==
    [mode |-> mode, static |-> static, dynamic |-> dynamic, offline |-> offline, motion |-> motion]

Tag == S("AUTOSCAN_TAG", 2, 1, 0, TRUE)
StillTag == S("AUTOSCAN_TAG", 1, 0, 2, FALSE)
Nrls == S(NRLS, 2, 1, 0, TRUE)
Anchor == S(OPPORTUNISTIC, 2, 0, 0, FALSE)

MCSettings == {Tag, StillTag, Nrls, Anchor}
MCAppCfgs == {StillTag, NULL}
=============================================================================
