---------------------------- MODULE MCNvdaDriver ----------------------------
(* Small instances of NvdaDriver; its constants are numbers and Booleans,   *)
(* given in the configurations.                                             *)
EXTENDS NvdaDriver
=============================================================================
