------------------------ MODULE MCNearObjectSession ------------------------
(* TLC instance of NearObjectSession.                                      *)
EXTENDS NearObjectSession

=============================================================================
