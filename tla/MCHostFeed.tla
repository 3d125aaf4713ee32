----------------------------- MODULE MCHostFeed -----------------------------
(* Instances of HostFeed in the code's own times.                          *)
EXTENDS HostFeed
=============================================================================
