---------------------------- MODULE MCDiscovery ----------------------------
(* TLC instance of Discovery.                                              *)
EXTENDS Discovery

=============================================================================
