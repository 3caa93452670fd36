----------------------------- MODULE MCLfsTree ------------------------------
(* A small instance of LfsTree for TLC.                                    *)
EXTENDS LfsTree

MCPairs == 1..4
MCNames == 1..3
=============================================================================
