-------------------------- MODULE MCClientContext ---------------------------
(* Instances of the connections for TLC.                                    *)
EXTENDS ClientContext

CONSTANTS c1, c2
=============================================================================
