------------------------------- MODULE MCTms -------------------------------
EXTENDS TmsServer

Op(name, n) == [name |-> name, n |-> n]

\* SetOTDRFPGAInfo, SMSInfo, GetNodeTime, FiberSectionCfg
MCCommands == {<<2, 0>>, <<6, 1>>, <<8, 1>>, <<8, 4>>}

\* One frame in one call, one in pieces under the lock, one behind the check.
MCOps == {Op("tms_Tick", 0), Op("tms_RetStatusData", 9), Op("tms_OTDRBasicInfo", 1)}
MCSettings == {<<6, <<8, 10>>>>}
=============================================================================
