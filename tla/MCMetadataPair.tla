--------------------------- MODULE MCMetadataPair ---------------------------
(* A small instance of MetadataPair for TLC: two blocks and two to move to. *)
EXTENDS MetadataPair

MCNames == 1..2
MCBlocks == 1..4
=============================================================================
