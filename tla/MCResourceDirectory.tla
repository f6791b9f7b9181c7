------------------------- MODULE MCResourceDirectory -------------------------
(***************************************************************************)
(* One state of each kind that the flags tell apart.                       *)
(***************************************************************************)
EXTENDS ResourceDirectory

Volume(disk, client, repl, quorum_alert) ==
  [disk |-> disk, client |-> client, repl |-> repl, quorum_alert |-> quorum_alert]

LocalStates == {Volume("UpToDate", FALSE, "Unknown", FALSE), Volume("UpToDate", FALSE, "Unknown", TRUE),
                Volume("Diskless", TRUE, "Unknown", FALSE), Volume("Failed", FALSE, "Unknown", FALSE)}
PeerStates  == {Volume("UpToDate", FALSE, "Established", FALSE), Volume("Inconsistent", FALSE, "SyncSource", FALSE),
                Volume("UpToDate", FALSE, "VerifyS", FALSE), Volume("DUnknown", FALSE, "Off", FALSE)}
LinkStates  == {[cstate |-> "Connected", role |-> "Secondary"], [cstate |-> "Connected", role |-> "Unknown"],
                [cstate |-> "Connecting", role |-> "Unknown"]}
=============================================================================
