---------------------------- MODULE MCHostCheck ----------------------------
(* HostCheck is finite as it is. *)
EXTENDS HostCheck
=============================================================================
