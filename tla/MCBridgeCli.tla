---------------------------- MODULE MCBridgeCli ----------------------------
(* One device, and numbers on both sides of its own and of a short.        *)
EXTENDS SwBridgeCli

MCNumbers == {-1, 0, 65536}

MCGarbage == {0, 7}

=============================================================================
