------------------------- MODULE MCInstanceManager -------------------------
(* Values for TLC that a .cfg cannot write down.                            *)
EXTENDS InstanceManager

CONSTANTS r1, r2

MCConfigured == <<r1, r2>>
=============================================================================
