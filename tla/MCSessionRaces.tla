--------------------------- MODULE MCSessionRaces ---------------------------
(* Instances of SessionRaces for TLC.                                      *)
EXTENDS SessionRaces, MCSessionManager

=============================================================================
