---------------------------- MODULE MCWorkflowRun ----------------------------
(* Small instances of WorkflowRun for TLC; the constants are in the cfgs.   *)
EXTENDS WorkflowRun
=============================================================================
