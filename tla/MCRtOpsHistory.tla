--------------------------- MODULE MCRtOpsHistory ---------------------------
(* The instance of MCRtOps with the history variables of RtOpsHistory.     *)
EXTENDS MCRtOps, RtOpsHistory
=============================================================================
